----------------------------- MODULE PostgresDdl -----------------------------
(***************************************************************************)
(* What PostgreSQL does with the statements people write in migrations by  *)
(* hand (external), and the records both it and the replay of a history use*)
(* for them.  A schema is a set of objects:                                *)
(*                                                                         *)
(*   key      <<kind, name, table>>, the last one "-" for what is in no    *)
(*            table                                                        *)
(*   about    the key of what a comment or a grant is about                *)
(*   uses     the keys of the other objects its SQL names                  *)
(*   places   in order, the clauses that name columns, as sets of column   *)
(*            keys: an index's columns and its predicate, a policy's USING *)
(*            and its WITH CHECK                                           *)
(*   fkey     the columns a foreign key refers to                          *)
(*   columns  of a table: the type of each column, as a key                *)
(*   def      what else the definition says                                *)
(*                                                                         *)
(* A statement is a record of what it does, the key it is about, and what  *)
(* it needs besides.                                                       *)
(***************************************************************************)
EXTENDS Naturals, Sequences, TLC

NoKey == <<"-", "-", "-">>
TableKey(t) == <<"table", t, "-">>
Column(c, t) == <<"column", c, t>>

\* One name for an index in a comment, whatever its table.
AboutKey(k) == IF k[1] = "index" THEN [k EXCEPT ![3] = "-"] ELSE k

Has(schema, k) == \E o \in schema : o.key = k
At(schema, k) == CHOOSE o \in schema : o.key = k
InTable(o, t) == o.key[3] = t
ColumnsIn(o) == UNION {o.places[i] : i \in DOMAIN o.places}
ColumnsOf(o) == {Column(c, o.key[2]) : c \in DOMAIN o.columns}
HasColumn(schema, k) == \E o \in schema : o.key = TableKey(k[3]) /\ k \in ColumnsOf(o)

-----------------------------------------------------------------------------
(* Dependencies (pg_depend), between keys of objects and of columns *)

\* Goes without being asked for: a table's parts, and what is made of its columns.
Internal(o) ==
    (IF o.key[3] = "-" THEN {} ELSE {TableKey(o.key[3])})
        \cup IF o.key[1] \in {"index", "constraint"}
             THEN {k \in ColumnsIn(o) : k[3] = o.key[3]} ELSE {}

\* The key a foreign key relies on.
Backing(o, schema) ==
    {p.key : p \in {q \in schema : /\ q.key[1] \in {"index", "constraint"} /\ q.fkey = {}
                                   /\ o.fkey # {} /\ ColumnsIn(q) = o.fkey}}

\* Goes only with CASCADE.  The body of a function is a string.
Normal(o, schema) ==
    IF o.key[1] = "function" THEN {}
    ELSE (o.uses \cup ColumnsIn(o) \cup o.fkey \cup Backing(o, schema)) \ Internal(o)

Structural(schema) == {o \in schema : o.about = NoKey}
Automatic(schema) ==
    UNION {{<<o.key, k>> : k \in Internal(o)} \cup {<<c, o.key>> : c \in ColumnsOf(o)}
           : o \in Structural(schema)}
Every(schema) ==
    Automatic(schema)
        \cup UNION {{<<o.key, k>> : k \in Normal(o, schema)}
                        \cup {<<Column(c, o.key[2]), o.columns[c]>> : c \in DOMAIN o.columns}
                    : o \in Structural(schema)}

RECURSIVE Reach(_, _)
Reach(edges, keys) ==
    LET more == keys \cup {e[1] : e \in {f \in edges : f[2] \in keys}} IN
    IF more = keys THEN keys ELSE Reach(edges, more)

Gone(k, schema) == Reach(Every(schema), {k})
NeedsCascade(k, schema) == Reach(Automatic(schema), {k}) # Gone(k, schema)

Without(gone, schema) ==
    {[o EXCEPT !.columns = [c \in {d \in DOMAIN @ : Column(d, o.key[2]) \notin gone} |-> @[c]]]
       : o \in {p \in schema : p.key \notin gone /\ p.about \notin {AboutKey(k) : k \in gone}}}

-----------------------------------------------------------------------------
(* Names *)

Unique(o) == o.key[1] = "constraint" /\ o.def[1] = "unique"
Taken(schema) ==
    {o.key[2] : o \in {p \in schema : p.key[1] \in {"table", "view", "index"} \/ Unique(p)}}
Free(o, schema) ==
    /\ ~\E p \in schema : p.key = o.key /\ p.about = o.about
    /\ o.key[1] \in {"table", "view", "index"} \/ Unique(o) => o.key[2] \notin Taken(schema)

Resolves(o, schema) ==
    \/ o.key[1] = "function"
    \/ /\ \A k \in o.uses : Has(schema, k)
       /\ o.key[3] # "-" => Has(schema, TableKey(o.key[3]))
       /\ \A k \in ColumnsIn(o) \cup o.fkey : HasColumn(schema, k)
       /\ o.fkey # {} => Backing(o, schema) # {}
       /\ \A c \in DOMAIN o.columns : o.columns[c][1] = "builtin" \/ Has(schema, o.columns[c])
       /\ \/ o.about = NoKey
          \/ \E p \in schema : AboutKey(p.key) = o.about
          \/ HasColumn(schema, o.about)

\* A name in a definition, after a rename.
Rename(o, New(_)) ==
    [o EXCEPT !.key = New(@), !.about = New(@), !.fkey = {New(k) : k \in @},
              !.uses = IF o.key[1] = "function" THEN @ ELSE {New(k) : k \in @},
              !.places = [i \in DOMAIN @ |-> {New(k) : k \in @[i]}]]

\* The keys when table t becomes u, and when one object or column gets a name.
InRenamed(k, t, u) ==
    IF k = TableKey(t) THEN TableKey(u)
    ELSE IF k[3] # t THEN k
    ELSE IF k[1] = "rls" THEN <<"rls", u, u>> ELSE [k EXCEPT ![3] = u]
OneRenamed(k, old, name) == IF k \in {old, AboutKey(old)} THEN [k EXCEPT ![2] = name] ELSE k

\* The values of an enum, in their order.
Values(o) == {o.def[i] : i \in DOMAIN o.def}
ReplaceValue(def, old, new) == [i \in DOMAIN def |-> IF def[i] = old THEN new ELSE def[i]]
InsertValue(def, value, before) ==
    IF before = "-" THEN Append(def, value)
    ELSE LET i == CHOOSE j \in DOMAIN def : def[j] = before
         IN SubSeq(def, 1, i - 1) \o <<value>> \o SubSeq(def, i, Len(def))

-----------------------------------------------------------------------------
(* Statements *)

Alters == {"add column", "drop column", "retype", "drop constraint", "row security",
           "attach", "validate"}
\* The table of an ALTER TABLE.
AlteredTable(s) == TableKey(IF s.on[1] = "table" THEN s.on[2] ELSE s.on[3])
Skipped(s, db) == s.does \in Alters /\ s.optional /\ ~Has(db, AlteredTable(s))

\* DROP INDEX and ALTER INDEX give no table.
Denoted(s, db) ==
    IF s.does \in {"drop", "rename index"} /\ s.on[1] = "index"
       /\ \E o \in db : o.key[1] = "index" /\ o.key[2] = s.on[2]
    THEN [s EXCEPT !.on = (CHOOSE o \in db : o.key[1] = "index" /\ o.key[2] = s.on[2]).key]
    ELSE s

\* An index that ADD CONSTRAINT USING INDEX takes.
Attachable(o) == o.key[1] = "index" /\ o.def = <<"unique">> /\ o.places[2] = {}

CanDrop(s, db) == s.cascade \/ ~NeedsCascade(s.on, db)

CanCreate(s, db) ==
    Resolves(s.o, db) /\ (s.mode = "plain" => Free(s.o, db))

CanRename(s, db) ==
    IF s.does = "rename column"
    THEN HasColumn(db, s.on) /\ ~HasColumn(db, [s.on EXCEPT ![2] = s.to])
    ELSE Has(db, s.on) /\ s.to \notin Taken(db)

CanAlter(s, db) ==
    \/ s.does \in {"row security", "validate"} /\ (Has(db, s.on) \/ s.does = "row security")
    \/ /\ s.does = "add column" /\ (s.guarded \/ ~HasColumn(db, s.on))
       /\ s.type[1] = "builtin" \/ Has(db, s.type)
    \/ /\ s.does = "drop column"
       /\ IF HasColumn(db, s.on) THEN CanDrop(s, db) ELSE s.guarded
    \/ /\ s.does = "drop constraint"
       /\ IF Has(db, s.on) THEN CanDrop(s, db) ELSE s.guarded
    \/ /\ s.does = "retype" /\ HasColumn(db, s.on)
       /\ \A o \in db : s.on \in ColumnsIn(o) => o.key[1] = "index"
    \/ /\ s.does = "attach" /\ Has(db, s.index) /\ Attachable(At(db, s.index))
       /\ ~Has(db, s.on) /\ s.on[2] \notin Taken(db) \ {s.index[2]}

\* The statement is accepted.
CanRun(s, db) ==
    \/ s.does = "create" /\ CanCreate(s, db)
    \/ s.does = "drop" /\ IF Has(db, s.on) THEN CanDrop(s, db) ELSE s.guarded
    \/ s.does = "uncomment" /\ (HasColumn(db, s.on) \/ \E o \in db : AboutKey(o.key) = s.on)
    \/ s.does \in {"rename table", "rename column", "rename index"} /\ CanRename(s, db)
    \/ s.does \in {"alter policy", "set option"} /\ Has(db, s.on)
    \/ s.does = "rename value" /\ Has(db, s.on)
       /\ s.value \in Values(At(db, s.on)) /\ s.to \notin Values(At(db, s.on))
    \/ s.does = "add value" /\ Has(db, s.on)
       /\ s.before \in Values(At(db, s.on)) \cup {"-"}
       /\ (s.guarded \/ s.value \notin Values(At(db, s.on)))
    \/ s.does \in Alters /\ (Skipped(s, db) \/ (Has(db, AlteredTable(s)) /\ CanAlter(s, db)))

With(o, schema) == {p \in schema : p.key # o.key \/ p.about # o.about} \cup {o}
Changed(k, def, schema) == With([At(schema, k) EXCEPT !.def = def], schema)

Row(t) == [key |-> <<"rls", t, t>>, about |-> NoKey, uses |-> {}, places |-> <<>>,
           fkey |-> {}, columns |-> <<>>, def |-> <<"off", "off">>]
RowSecurity(def, to) ==
    CASE to = "enable" -> [def EXCEPT ![1] = "on"]
      [] to = "disable" -> [def EXCEPT ![1] = "off"]
      [] to = "force" -> [def EXCEPT ![2] = "on"]
      [] to = "no force" -> [def EXCEPT ![2] = "off"]

Renamed(s, db) ==
    CASE s.does = "rename table" /\ s.on[1] = "table" ->
             LET New(k) == InRenamed(k, s.on[2], s.to) IN {Rename(o, New) : o \in db}
      [] s.does = "rename column" ->
             LET New(k) == OneRenamed(k, s.on, s.to)
                 old == At(db, TableKey(s.on[3]))
                 table == [old EXCEPT !.columns =
                     [c \in (DOMAIN @ \ {s.on[2]}) \cup {s.to} |->
                          IF c = s.to THEN @[s.on[2]] ELSE @[c]]]
             IN {Rename(o, New) : o \in (db \ {old}) \cup {table}}
      [] OTHER -> LET New(k) == OneRenamed(k, s.on, s.to) IN {Rename(o, New) : o \in db}

\* ALTER TABLE: a column, a constraint, row-level security.
Altered(s, db) ==
    LET table == At(db, AlteredTable(s)) IN
    CASE s.does \in {"add column", "retype"} ->
             IF s.does = "add column" /\ HasColumn(db, s.on) THEN db
             ELSE With([table EXCEPT !.columns = [c \in DOMAIN @ \cup {s.on[2]} |->
                            IF c = s.on[2] THEN s.type ELSE @[c]]], db)
      [] s.does \in {"drop column", "drop constraint"} ->
             IF Has(db, s.on) \/ HasColumn(db, s.on) THEN Without(Gone(s.on, db), db) ELSE db
      [] s.does = "attach" ->
             {o \in db : o.key # s.index}
                 \cup {[At(db, s.index) EXCEPT !.key = s.on, !.def = <<"unique", "valid">>,
                                               !.places = <<@[1]>>]}
      [] s.does = "validate" -> Changed(s.on, [At(db, s.on).def EXCEPT ![2] = "valid"], db)
      [] s.does = "row security" ->
             LET row == Row(s.on[2])
                 old == IF Has(db, row.key) THEN At(db, row.key) ELSE row
                 new == [old EXCEPT !.def = RowSecurity(@, s.to)]
             IN IF new = row THEN db \ {old} ELSE With(new, db)

Execute(s, db) ==
    CASE s.does = "create" ->
             IF s.mode = "guarded" /\ ~Free(s.o, db) THEN db ELSE With(s.o, db)
      [] s.does = "drop" -> IF Has(db, s.on) THEN Without(Gone(s.on, db), db) ELSE db
      [] s.does = "uncomment" -> {o \in db : o.key[1] # "comment" \/ o.about # s.on}
      [] s.does \in {"rename table", "rename column", "rename index"} -> Renamed(s, db)
      [] s.does = "alter policy" ->
             With([At(db, s.on) EXCEPT !.places[s.at] = s.columns], db)
      [] s.does = "set option" -> Changed(s.on, s.def, db)
      [] s.does = "rename value" ->
             Changed(s.on, ReplaceValue(At(db, s.on).def, s.value, s.to), db)
      [] s.does = "add value" ->
             IF s.value \in Values(At(db, s.on)) THEN db
             ELSE Changed(s.on, InsertValue(At(db, s.on).def, s.value, s.before), db)
      [] s.does \in Alters -> IF Skipped(s, db) THEN db ELSE Altered(s, db)
==============================================================================
