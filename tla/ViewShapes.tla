-------------------------------- MODULE ViewShapes --------------------------------
(***************************************************************************)
(* The views of the generated contracts: registerViewShapes                *)
(* (src/typegen/model.ts).  A view may read views that come later in the   *)
(* model, so the columns of all of them are collected again and again until*)
(* a pass changes none; then each view is registered with what may be      *)
(* written through it.  The contracts are compared with the database in    *)
(* which the views were created.                                           *)
(***************************************************************************)
EXTENDS ViewColumns

CONSTANTS Schemas         \* sequences of views, each reading tables and earlier ones

VARIABLES created,        \* the views in the order the database created them
          objects,        \* model.objects: the same views, in any order
          relations,      \* relationsByKey: the columns known so far
          collected,      \* columnsByKey
          pass, at,       \* the two loops: number of the pass, of the object in it
          changed,        \* whether this pass changed a view
          entries         \* the views registered so far, in order
vars == <<created, objects, relations, collected, pass, at, changed, entries>>

Init ==
    /\ created \in Schemas
    /\ objects \in {[i \in DOMAIN created |-> created[order[i]]] :
                        order \in {o \in [DOMAIN created -> DOMAIN created] : IsInjective(o)}}
    /\ relations = DatabaseColumns(<<>>)
    /\ collected = <<>>
    /\ pass = 0 /\ at = 1 /\ changed = FALSE
    /\ entries = <<>>

-----------------------------------------------------------------------------
(* Collecting *)

\* The loop over passes ends after one that changes nothing, or after as many
\* as there are views and one more; its mutant, after two.
CollectingTwice == pass <= 1
Collecting == pass <= Len(objects)

\* Mutant of SameColumns: the types are not compared.
SameNames(v, columns) ==
    v.name \in DOMAIN collected /\ NamesOf(collected[v.name]) = NamesOf(columns)
SameColumns(v, columns) == v.name \in DOMAIN collected /\ collected[v.name] = columns

Collect ==
    /\ Collecting /\ at <= Len(objects)
    /\ LET v == objects[at]
           columns == CollectViewColumns(v, relations) IN
       IF SameColumns(v, columns) THEN UNCHANGED <<collected, relations, changed>>
       ELSE /\ collected' = (v.name :> columns) @@ collected
            /\ relations' = (v.name :> columns) @@ relations
            /\ changed' = TRUE
    /\ at' = at + 1
    /\ UNCHANGED <<created, objects, pass, entries>>

EndPass ==
    /\ Collecting /\ at > Len(objects)
    /\ pass' = IF changed THEN pass + 1 ELSE Len(objects) + 1
    /\ at' = 1 /\ changed' = FALSE
    /\ UNCHANGED <<created, objects, relations, collected, entries>>

-----------------------------------------------------------------------------
(* What may be written *)

\* The queries within a query, and the values and FROM items in them.
RECURSIVE QueriesIn(_), ItemsIn(_), ValuesIn(_)
ValuesIn(value) ==
    {value} \cup CASE value.e = "coalesce" -> UNION {ValuesIn(value.args[i]) : i \in DOMAIN value.args}
                   [] value.e = "call" -> UNION {ValuesIn(value.args[i]) : i \in DOMAIN value.args}
                   [] value.e = "cast" -> ValuesIn(value.arg)
                   [] OTHER -> {}
ItemsIn(item) == IF item.item = "join" THEN {item} \cup ItemsIn(item.l) \cup ItemsIn(item.r) ELSE {item}
OwnItems(query) == UNION {ItemsIn(query.from[i]) : i \in DOMAIN query.from}
OwnValues(query) == UNION {ValuesIn(query.targets[i].value) : i \in DOMAIN query.targets}
QueriesIn(query) ==
    {query} \cup UNION {QueriesIn(query.ctes[i].query) : i \in DOMAIN query.ctes}
            \cup IF query.op = "union" THEN QueriesIn(query.l) \cup QueriesIn(query.r)
                 ELSE UNION {QueriesIn(item.query) : item \in
                                {x \in OwnItems(query) : x.item = "subselect"}}
                      \cup UNION {QueriesIn(value.query) : value \in
                                {x \in OwnValues(query) : x.e = "sublink"}}

\* containsNonUpdatableViewFunction looks into the queries within a value as well.
CallsWithin(value) ==
    LET own == ValuesIn(value)
        queries == UNION {QueriesIn(x.query) : x \in {y \in own : y.e = "sublink"}}
        inner == UNION {OwnValues(query) : query \in {x \in queries : x.op = "select"}} IN
    {x.f : x \in {y \in own \cup inner : y.e = "call"}}

\* isUpdatableView asks nothing of the relation the view reads.
IsUpdatableView(v) ==
    /\ v.kind = "view"
    /\ v.query.op = "select" /\ ~v.query.grouped /\ v.query.ctes = <<>>
    /\ \A i \in DOMAIN v.query.targets : CallsWithin(v.query.targets[i].value) \subseteq OneRowFunction
    /\ Len(v.query.from) = 1 /\ v.query.from[1].item = "relation"

\* writableViewColumns: the names of columns that are columns, and of those that
\* are not; with a star, whatever is not one of the latter.
HasWildcard(v) == \E i \in DOMAIN v.query.targets : v.query.targets[i].value.e = "star"

WritableName(v, i) ==
    LET target == v.query.targets[i]
        aliases == IF HasWildcard(v) THEN <<>> ELSE ViewColumnNames(v) IN
    CASE i \in DOMAIN aliases -> aliases[i]
      [] i \notin DOMAIN aliases /\ target.alias # None -> target.alias
      [] i \notin DOMAIN aliases /\ target.alias = None /\ target.value.e = "column" -> target.value.n
      [] i \notin DOMAIN aliases /\ target.alias = None /\ target.value.e = "call" -> target.value.f
      [] OTHER -> None

NamesOfTargets(v, kinds) ==
    {WritableName(v, i) : i \in {j \in DOMAIN v.query.targets : v.query.targets[j].value.e \in kinds}}
        \ {None}

WritableColumns(v, columns) ==
    LET writable == NamesOfTargets(v, {"column"})
        nonWritable == NamesOfTargets(v, {"literal", "cast", "coalesce", "call", "sublink"}) IN
    {i \in DOMAIN columns : \/ columns[i].name \in writable
                            \/ HasWildcard(v) /\ columns[i].name \notin nonWritable}

Register ==
    /\ ~Collecting /\ Len(entries) < Len(objects)
    /\ LET v == objects[Len(entries) + 1]
           columns == collected[v.name] IN
       entries' = Append(entries,
                      [view |-> v, columns |-> columns,
                       writable |-> IF IsUpdatableView(v) THEN WritableColumns(v, columns) ELSE {}])
    /\ UNCHANGED <<created, objects, relations, collected, pass, at, changed>>

Next == Collect \/ EndPass \/ Register
Spec == Init /\ [][Next]_vars

-----------------------------------------------------------------------------
(* Where the contracts are known to differ from the database *)

Selects(v) == {query \in QueriesIn(v.query) : query.op = "select"}
Reads(v) == UNION {{item.name : item \in {x \in OwnItems(query) : x.item = "relation"}} :
                       query \in Selects(v)}

\* An expression without an alias gives no column (expressionColumnName).
UnnamedExpression(v) ==
    \E query \in Selects(v) : \E i \in DOMAIN query.targets :
        /\ query.targets[i].alias = None
        /\ query.targets[i].value.e \in {"cast", "coalesce", "sublink"}

\* CREATE VIEW v (a) AS SELECT x, y: the second column is lost, and the type of
\* the first.
FewerNames(v) ==
    v.aliases # <<>> /\ Len(v.aliases) < Len(DatabaseColumns(created)[v.name])

\* A quoted literal counts as text, also before a number.
IsQuoted(value) == value.e = "literal" /\ value.type = "text"
QuotedFirst(v) ==
    \E query \in QueriesIn(v.query) :
        IF query.op = "union"
        THEN query.l.op = "select" /\ \E i \in DOMAIN query.l.targets : IsQuoted(query.l.targets[i].value)
        ELSE \E value \in OwnValues(query) : value.e = "coalesce" /\ IsQuoted(value.args[1])

\* FROM t u, u z: the name u is that of the alias, and of the table behind z.
HiddenName(v) ==
    LET items == UNION {OwnItems(query) : query \in Selects(v)} IN
    \E x, y \in items : /\ x.item = "relation" /\ x.alias \notin {None, x.name}
                        /\ y.alias = x.name

\* A query in a query in a query: the two around the innermost are one level.
TwoLevelsOut(v) ==
    \E query \in Selects(v) : \E value \in OwnValues(query) :
        /\ value.e = "sublink"
        /\ QueriesIn(value.query) # {value.query}

RECURSIVE ReadsSome(_, _)
ReadsSome(v, bad) ==
    v \in bad \/ \E w \in ToSet(created) : w.name \in Reads(v) /\ ReadsSome(w, bad)

OwnGap == {v \in ToSet(created) : \/ UnnamedExpression(v) \/ FewerNames(v) \/ QuotedFirst(v)
                                 \/ HiddenName(v) \/ TwoLevelsOut(v)}

\* What the contracts say may be written, when they read another view that the
\* database does not write, or not in all columns; a generated column; a column
\* renamed behind a star; an aggregate in a query of its own.
WriteGap(v) ==
    /\ v.query.op = "select"
    /\ \/ \E i \in DOMAIN v.query.from :
              /\ v.query.from[i].item = "relation"
              /\ v.query.from[i].name \in DOMAIN DatabaseWritable(created)
              /\ DatabaseWritable(created)[v.query.from[i].name]
                     # DOMAIN DatabaseColumns(created)[v.query.from[i].name]
       \/ HasWildcard(v) /\ v.aliases # <<>>
       \/ \E i \in DOMAIN v.query.targets :
              LET value == v.query.targets[i].value IN CallsWithin(value) # CallsOf(value)

-----------------------------------------------------------------------------
(* Properties *)

\* The kinds of values that the contracts tell apart (resolveScalarType).
Kind(type) == CASE type \in {"integer", "bigint"} -> "number"
                [] type = "text" -> "string"
                [] OTHER -> "unknown"
Kinds(columns) == [i \in DOMAIN columns |-> [name |-> columns[i].name, kind |-> Kind(columns[i].type)]]

\* The contract of a view has the columns that the view has in the database, in
\* their order and each with its kind, wherever the view stands in the model and
\* however many views stand between it and its tables; and it allows writing
\* exactly the columns the database lets one write: outside the gaps above.
ContractsAgree ==
    \A i \in DOMAIN entries :
        LET entry == entries[i]
            v == entry.view IN
        ~ReadsSome(v, OwnGap) =>
            /\ Kinds(entry.columns) = Kinds(DatabaseColumns(created)[v.name])
            /\ WriteGap(v) \/ entry.writable = DatabaseWritable(created)[v.name]

===============================================================================
