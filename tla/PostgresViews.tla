------------------------------ MODULE PostgresViews ------------------------------
(***************************************************************************)
(* External: what PostgreSQL makes of the query of a view.  Its columns are*)
(* fixed when the view is created: names are looked up level by level, the *)
(* nearest first, and a type is common to all the expressions that share a *)
(* column.  A view takes INSERT and UPDATE by itself when its query reads  *)
(* one relation that does, and then in the columns that are columns of it. *)
(* Every query is one PostgreSQL accepts.                                  *)
(***************************************************************************)
EXTENDS Naturals, Sequences, FiniteSets, SequencesExt

CONSTANTS Table,          \* tables
          TableColumns,   \* their columns: [name, type, generated]
          FunctionType,   \* the type a function returns
          OneRowFunction  \* those that make a row of a row: no aggregate, no set

None == "none"

-----------------------------------------------------------------------------
(* The vocabulary of queries *)

ColumnRef(q, n) == [e |-> "column", q |-> q, n |-> n]
Star(q) == [e |-> "star", q |-> q]
Literal(type) == [e |-> "literal", type |-> type]
Cast(arg, type) == [e |-> "cast", arg |-> arg, type |-> type]
Coalesce(args) == [e |-> "coalesce", args |-> args]
Call(f, args) == [e |-> "call", f |-> f, args |-> args]
SubLink(query) == [e |-> "sublink", query |-> query]

Target(alias, value) == [alias |-> alias, value |-> value]

RangeVar(name, alias) == [item |-> "relation", name |-> name, alias |-> alias]
Subselect(query, alias, names, lateral) ==
    [item |-> "subselect", query |-> query, alias |-> alias, names |-> names, lateral |-> lateral]
Join(l, r, using, natural, alias) ==
    [item |-> "join", l |-> l, r |-> r, using |-> using, natural |-> natural, alias |-> alias]

\* grouped: DISTINCT, GROUP BY, HAVING, LIMIT or OFFSET.
Select(from, targets) ==
    [op |-> "select", ctes |-> <<>>, from |-> from, targets |-> targets, grouped |-> FALSE]
Union(l, r) == [op |-> "union", ctes |-> <<>>, l |-> l, r |-> r]
Cte(name, query, names) == [name |-> name, query |-> query, names |-> names]

-----------------------------------------------------------------------------
(* Helpers on columns, which both sides name the same way *)

Named(columns, n) == SelectSeq(columns, LAMBDA c : c.name = n)
NamesOf(columns) == [i \in DOMAIN columns |-> columns[i].name]
Without(columns, names) == SelectSeq(columns, LAMBDA c : c.name \notin names)

\* A list of names renames as many columns as it has.
Renamed(columns, names) ==
    [i \in DOMAIN columns |->
        IF i <= Len(names) THEN [columns[i] EXCEPT !.name = names[i]] ELSE columns[i]]

\* The columns a join merges: those of USING, or for NATURAL those of both sides.
MergedNames(join, left, right) ==
    IF join.natural
    THEN SelectSeq(NamesOf(left), LAMBDA n : n \in ToSet(NamesOf(right)))
    ELSE join.using

-----------------------------------------------------------------------------
(* Types *)

Untyped == "untyped"      \* a literal in quotes, or NULL, before it has a type
Numeric == {"integer", "bigint"}

CommonType(types) ==
    LET known == types \ {Untyped} IN
    CASE known = {} -> "text"
      [] known # {} /\ known \subseteq Numeric ->
             IF "bigint" \in known THEN "bigint" ELSE "integer"
      [] OTHER -> CHOOSE type \in known : TRUE

-----------------------------------------------------------------------------
(* A level of names: bare columns in order, and relations by their alias *)

NoLevel == [bare |-> <<>>, rels |-> <<>>]
Beside(a, b) == [bare |-> a.bare \o b.bare, rels |-> a.rels @@ b.rels]

\* The type of a column, at the nearest level that has the name.
LookUp(levels, q, n) ==
    LET Has(level) == IF q = None THEN Named(level.bare, n) # <<>> ELSE q \in DOMAIN level.rels
        nearest == CHOOSE i \in DOMAIN levels :
                       /\ Has(levels[i])
                       /\ \A j \in 1..(i - 1) : ~Has(levels[j])
        level == levels[nearest] IN
    Named(IF q = None THEN level.bare ELSE level.rels[q], n)[1].type

RECURSIVE OutputOf(_, _, _, _), RawOutputOf(_, _, _, _), LevelOf(_, _, _, _, _),
          FromOf(_, _, _, _), TypeOf(_, _, _, _), ColumnName(_), CtesOf(_, _, _, _)

\* The name a column has without an alias.
ColumnName(value) ==
    CASE value.e = "column" -> value.n
      [] value.e = "call" -> value.f
      [] value.e = "cast" ->
             LET name == ColumnName(value.arg) IN
             IF name \in {"?column?", "coalesce"} THEN value.type ELSE name
      [] value.e = "coalesce" -> "coalesce"
      [] value.e = "sublink" ->
             LET first == value.query.targets[1] IN
             IF first.alias # None THEN first.alias ELSE ColumnName(first.value)
      [] OTHER -> "?column?"

TypeOf(value, levels, ctes, relations) ==
    CASE value.e = "column" -> LookUp(levels, value.q, value.n)
      [] value.e = "literal" -> IF value.type = "integer" THEN "integer" ELSE Untyped
      [] value.e = "cast" -> value.type
      [] value.e = "coalesce" ->
             CommonType({TypeOf(value.args[i], levels, ctes, relations) : i \in DOMAIN value.args})
      [] value.e = "call" -> FunctionType[value.f]
      [] value.e = "sublink" -> OutputOf(value.query, levels, ctes, relations)[1].type

\* The level a FROM item adds; before holds its siblings to the left.
LevelOf(item, before, levels, ctes, relations) ==
    CASE item.item = "relation" ->
             LET columns == IF item.name \in DOMAIN ctes THEN ctes[item.name]
                            ELSE relations[item.name] IN
             [bare |-> columns,
              rels |-> (IF item.alias = None THEN item.name ELSE item.alias) :> columns]
      [] item.item = "subselect" ->
             LET outer == IF item.lateral THEN <<before>> \o levels ELSE levels
                 columns == Renamed(OutputOf(item.query, outer, ctes, relations), item.names) IN
             [bare |-> columns, rels |-> item.alias :> columns]
      [] item.item = "join" ->
             LET l == LevelOf(item.l, before, levels, ctes, relations)
                 r == LevelOf(item.r, Beside(before, l), levels, ctes, relations)
                 merged == MergedNames(item, l.bare, r.bare)
                 both == [i \in DOMAIN merged |->
                             [name |-> merged[i],
                              type |-> CommonType({Named(l.bare, merged[i])[1].type,
                                                   Named(r.bare, merged[i])[1].type})]]
                 bare == both \o Without(l.bare, ToSet(merged)) \o Without(r.bare, ToSet(merged)) IN
             IF item.alias = None THEN [bare |-> bare, rels |-> l.rels @@ r.rels]
             ELSE [bare |-> bare, rels |-> item.alias :> bare]

FromOf(from, levels, ctes, relations) ==
    FoldLeft(LAMBDA level, item : Beside(level, LevelOf(item, level, levels, ctes, relations)),
             NoLevel, from)

CtesOf(query, levels, ctes, relations) ==
    FoldLeft(LAMBDA all, cte :
                 (cte.name :> Renamed(OutputOf(cte.query, levels, all, relations), cte.names)) @@ all,
             ctes, query.ctes)

\* The columns of a query, a literal still untyped.
RawOutputOf(query, levels, inherited, relations) ==
    LET ctes == CtesOf(query, levels, inherited, relations) IN
    IF query.op = "union"
    THEN LET l == RawOutputOf(query.l, levels, ctes, relations)
             r == RawOutputOf(query.r, levels, ctes, relations) IN
         [i \in DOMAIN l |-> [l[i] EXCEPT !.type = CommonType({l[i].type, r[i].type})]]
    ELSE LET level == FromOf(query.from, levels, ctes, relations)
             Expand(target) ==
                 IF target.value.e = "star"
                 THEN IF target.value.q = None THEN level.bare ELSE level.rels[target.value.q]
                 ELSE <<[name |-> IF target.alias # None THEN target.alias
                                  ELSE ColumnName(target.value),
                         type |-> TypeOf(target.value, <<level>> \o levels, ctes, relations)]>> IN
         FlattenSeq([i \in DOMAIN query.targets |-> Expand(query.targets[i])])

OutputOf(query, levels, ctes, relations) ==
    LET raw == RawOutputOf(query, levels, ctes, relations) IN
    [i \in DOMAIN raw |-> [raw[i] EXCEPT !.type = CommonType({@})]]

-----------------------------------------------------------------------------
(* The views of a database, created one after the other *)

\* A view: [name, kind, aliases, query].
DatabaseColumns(views) ==
    FoldLeft(LAMBDA relations, v :
                 relations @@ (v.name :> Renamed(OutputOf(v.query, <<>>, <<>>, relations), v.aliases)),
             [t \in Table |-> [i \in DOMAIN TableColumns[t] |->
                                  [name |-> TableColumns[t][i].name,
                                   type |-> TableColumns[t][i].type]]],
             views)

\* The functions that a value calls itself, not in a query of its own.
RECURSIVE CallsOf(_)
CallsOf(value) ==
    LET Of(args) == UNION {CallsOf(args[i]) : i \in DOMAIN args} IN
    CASE value.e = "call" -> {value.f} \cup Of(value.args)
      [] value.e = "coalesce" -> Of(value.args)
      [] value.e = "cast" -> CallsOf(value.arg)
      [] OTHER -> {}

\* A query whose rows are those of the one relation it reads.
ReadsOne(query) ==
    /\ query.op = "select" /\ query.ctes = <<>> /\ ~query.grouped
    /\ Len(query.from) = 1 /\ query.from[1].item = "relation"
    /\ \A i \in DOMAIN query.targets : CallsOf(query.targets[i].value) \subseteq OneRowFunction

\* The columns of each relation that take a value, those of a table but the
\* generated ones, by position.
DatabaseWritable(views) ==
    LET columns == DatabaseColumns(views)
        \* a column of the view, the column of the relation below it, or None
        Below(v) ==
            LET base == v.query.from[1]
                Expand(target) ==
                    CASE target.value.e = "star" -> NamesOf(columns[base.name])
                      [] target.value.e = "column" -> <<target.value.n>>
                      [] OTHER -> <<None>> IN
            FlattenSeq([i \in DOMAIN v.query.targets |-> Expand(v.query.targets[i])])
        Writable(writable, v) ==
            IF v.kind = "view" /\ ReadsOne(v.query)
            THEN LET base == v.query.from[1].name IN
                 {i \in DOMAIN Below(v) :
                     \E j \in writable[base] : columns[base][j].name = Below(v)[i]}
            ELSE {} IN
    FoldLeft(LAMBDA writable, v : writable @@ (v.name :> Writable(writable, v)),
             [t \in Table |-> {i \in DOMAIN TableColumns[t] : ~TableColumns[t][i].generated}],
             views)
===============================================================================
