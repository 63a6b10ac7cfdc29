---------------------------- MODULE PostgresCatalog ----------------------------
(***************************************************************************)
(* PostgreSQL, as far as the rendered statements meet it: which of them    *)
(* fail and what they leave.  Not code of the repository; the statements   *)
(* are those of PlanRender.  A catalog is a set of definitions.            *)
(***************************************************************************)
EXTENDS PlanRender

RangeOf(s) == {s[i] : i \in 1..Len(s)}

\* The columns a relation offers.
ColumnsOf(o) == IF o.kind = "table" THEN DOMAIN o.columns ELSE RangeOf(o.out)

\* The column types that are objects of the schema.
BuiltinTypes == {"int", "text"}
TypesOf(columns) == {columns[c] : c \in DOMAIN columns} \ BuiltinTypes

-----------------------------------------------------------------------------
(* What an object needs, and what is recorded as needing it *)

Resolves(o) == o.kind \notin RoutineKinds \/ o.body \in {"recorded", "checked"}
Records(o) == o.kind \notin RoutineKinds \/ o.body = "recorded"

Needs(o) ==
    (IF Resolves(o) THEN o.deps ELSE {}) \cup ({o.table, o.fn} \ {None})

\* A key that foreign keys may refer to.
IsKey(o) == o.kind = "constraint" /\ o.fkey = {}

\* A comment or a grant on the object p.
IsAbout(o, p) == CommentsOn(o, {p.key}) \/ GrantsOn(o, {p.grantId})

Satisfied(o, db) ==
    /\ Needs(o) \subseteq Keys(db)
    /\ o.target # None => \E p \in db : IsAbout(o, p)
    /\ Resolves(o) => \A rc \in o.cols :
           Has(db, rc[1]) /\ rc[2] \in ColumnsOf(At(db, rc[1]))
    /\ o.fkey # {} => \E k \in db : IsKey(k) /\ k.cols = o.fkey

Consistent(schema) == \A o \in schema : Satisfied(o, schema)

\* What the catalog records of an object is there: it cannot be dropped before it.
Upheld(o, db) ==
    /\ {o.table} \cup (IF Records(o) THEN o.deps \cup {o.fn} ELSE {}) \subseteq Keys(db) \cup {None}
    /\ o.target # None => \E p \in db : IsAbout(o, p)
    /\ Records(o) => \A rc \in o.cols : Has(db, rc[1]) /\ rc[2] \in ColumnsOf(At(db, rc[1]))
    /\ o.fkey # {} => \E k \in db : IsKey(k) /\ k.cols = o.fkey

\* One definition for each name, and nothing recorded is missing.
Intact(db) ==
    /\ \A o, p \in db : o.key = p.key => o = p
    /\ \A o \in db : Upheld(o, db)

\* Dropped along with its owner, and what is attached to those.
Attached(o, db) == {p \in db : o.key = p.table \/ IsAbout(p, o)}
WithAttached(o, db) ==
    {o} \cup Attached(o, db) \cup UNION {Attached(p, db) : p \in Attached(o, db)}

\* Objects that stand in the way of DROP ... RESTRICT: they need what would go.
Blocking(o, db) ==
    LET gone == WithAttached(o, db) IN
    {p \in db \ gone :
        \/ Records(p) /\ (p.deps \cup {p.fn}) \cap Keys(gone) # {}
        \/ p.fkey # {} /\ \E k \in gone : IsKey(k) /\ k.cols = p.fkey}

UsersOf(k, columns, db) ==
    {p \in db : Records(p) /\ UsesColumn(p, {<<k, c>> : c \in columns})}

\* Indexes and constraints of the table itself follow their columns.
FollowsColumn(p, k) == p.table = k /\ p.kind \in {"index", "constraint"}

-----------------------------------------------------------------------------
(* Which statements succeed *)

CanDrop(o, db) ==
    IF Has(db, o.key) THEN Blocking(At(db, o.key), db) = {}
    ELSE \* IF EXISTS covers the object, not what it hangs on
         /\ o.kind \in {"constraint", "rls"} => Has(db, o.table)
         /\ o.kind \in {"grant", "comment"} => Satisfied(o, db)

GuardedByExistence ==
    {"table", "foreign-table", "index", "materialized-view", "constraint", "type",
     "enum", "domain", "sequence", "schema", "extension", "foreign-server"}

CanCreate(o, db) ==
    IF Has(db, o.key) /\ o.kind \in GuardedByExistence THEN TRUE
    ELSE /\ Satisfied(o, db)
         /\ Has(db, o.key) =>
              /\ o.kind = "view" => Extends(o.out, At(db, o.key).out)
              /\ o.kind \in RoutineKinds => o.out = At(db, o.key).out
              /\ o.kind \notin DropsItself

CanRetype(k, columns, db) ==
    /\ Has(db, k) /\ columns \subseteq DOMAIN At(db, k).columns
    /\ \A p \in UsersOf(k, columns, db) : FollowsColumn(p, k) \/ p.kind = "comment"

CanDropColumns(k, columns, db) ==
    /\ Has(db, k)
    /\ \A p \in UsersOf(k, columns \cap DOMAIN At(db, k).columns, db) :
           (FollowsColumn(p, k) \/ p.kind = "comment") /\ Blocking(p, db) = {}

\* The types that new columns, or columns to be retyped, are to have.
TypesNamed(s) == {s.o.columns[c] : c \in s.columns} \ BuiltinTypes

CanExecute(s, db) ==
    \/ s.does = "create" /\ CanCreate(s.o, db)
    \/ s.does = "drop" /\ CanDrop(s.o, db)
    \/ s.does = "add" /\ Has(db, s.o.key) /\ TypesNamed(s) \subseteq Keys(db)
    \/ s.does = "retype" /\ CanRetype(s.o.key, s.columns, db) /\ TypesNamed(s) \subseteq Keys(db)
    \/ s.does = "drop columns" /\ CanDropColumns(s.o.key, s.columns, db)
    \/ s.does = "add values" /\ Has(db, s.o.key)

-----------------------------------------------------------------------------
(* What they leave *)

\* The table with these columns; the types it depends on follow.
WithColumns(o, columns) ==
    [o EXCEPT !.columns = columns, !.deps = TypesOf(columns)]

\* The table o has other columns, and what is `gone` went with the old ones.
Altered(o, gone, columns, db) == (db \ (gone \cup {o})) \cup {WithColumns(o, columns)}

ColumnsAfter(s, old) ==
    CASE s.does = "add" ->
             [c \in DOMAIN old \cup s.columns |->
                 IF c \in DOMAIN old THEN old[c] ELSE s.o.columns[c]]
      [] s.does = "retype" ->
             [c \in DOMAIN old |->
                 IF c \in s.columns THEN s.o.columns[c] ELSE old[c]]
      [] s.does = "drop columns" -> [c \in DOMAIN old \ s.columns |-> old[c]]

\* The objects that go with the columns a statement drops.
GoneWithColumns(s, db) ==
    IF s.does # "drop columns" THEN {}
    ELSE UNION {WithAttached(p, db) :
             p \in UsersOf(s.o.key, s.columns \cap DOMAIN At(db, s.o.key).columns, db)}

Execute(s, db) ==
    CASE s.does = "create" ->
             IF Has(db, s.o.key)
             THEN IF s.o.kind \in GuardedByExistence THEN db
                  ELSE (db \ {At(db, s.o.key)}) \cup {s.o}
             ELSE db \cup {s.o}
      [] s.does = "drop" ->
             IF Has(db, s.o.key) THEN db \ WithAttached(At(db, s.o.key), db) ELSE db
      [] s.does = "add values" -> (db \ {At(db, s.o.key)}) \cup {s.o}
      [] OTHER -> Altered(At(db, s.o.key), GoneWithColumns(s, db),
                          ColumnsAfter(s, At(db, s.o.key).columns), db)

\* The columns whose rows a statement destroys.
RowsLost(s) ==
    IF s.does = "drop" /\ s.o.kind = "table" THEN {s.o.key} \X DOMAIN s.o.columns
    ELSE IF s.does \in {"retype", "drop columns"} THEN {s.o.key} \X s.columns
    ELSE {}
===============================================================================
