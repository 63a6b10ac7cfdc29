---------------------------- MODULE ReplayHistory ----------------------------
(***************************************************************************)
(* A migration history written by hand: PostgreSQL runs one statement      *)
(* after the other, and replay (reconstructModelFromMigrations) reads each *)
(* without a database.  The history so far made the schema it starts with  *)
(* by plain CREATE statements.                                             *)
(***************************************************************************)
EXTENDS DdlReplay, FiniteSets

CONSTANTS Histories,     \* <<the schema a history starts with, its next statements>>
          MaxStatements  \* bound: how many statements are run

ASSUME HistoriesAssumption == MaxStatements \in Nat \ {0}

VARIABLES statements,  \* that may be written
          db,          \* the schema PostgreSQL has
          model,       \* what replay has read
          refused,     \* replay reported an error
          gaps,        \* observability: what the history has that replay is known
                       \* to get wrong, as in "the schema", "reading" and "hash"
          ran          \* how many statements were run
vars == <<statements, db, model, refused, gaps, ran>>

Init ==
    /\ \E h \in Histories : db = h[1] /\ statements = h[2]
    /\ model = {Read(o) : o \in db}
    /\ refused = FALSE /\ gaps = {} /\ ran = 0

-----------------------------------------------------------------------------
(* What replay gets wrong.  Each predicate is about the statement and the  *)
(* schema it is run on, never about the model.                             *)

Affected(s, schema) == {o \in schema : s.on \in ColumnsIn(o) \cup o.fkey}

\* RENAME COLUMN: a user outside the table, or the other end of a foreign key.
RenamedOutside(s, schema) ==
    s.does = "rename column" /\ \E o \in Affected(s, schema) :
        ~InTable(o, s.on[3]) \/ s.on \in o.fkey

\* RENAME COLUMN: a part of the table names the column in two of its clauses.
RenamedInOneClause(s, schema) ==
    s.does = "rename column" /\ \E o \in schema :
        Cardinality({i \in DOMAIN o.places : s.on \in o.places[i]}) > 1

\* RENAME COLUMN: a part of the table names a column of another table that has the
\* same name.
RenamedNamesake(s, schema) ==
    s.does = "rename column" /\ \E o \in schema :
        InTable(o, s.on[3]) /\ \E k \in ColumnsIn(o) : k[2] = s.on[2] /\ k # s.on

\* ALTER TABLE ... RENAME of something that is no table.
RenamedThroughTable(s, schema) == s.does = "rename table" /\ s.on[1] # "table"

\* RENAME TABLE: its row-level security and the grants on it stay under the old
\* name; a function's body still has that name, but not its dependencies.
RenamedSecurity(s, schema) ==
    s.does = "rename table" /\ \E o \in schema :
        \/ o.key[1] = "rls" /\ InTable(o, s.on[2])
        \/ o.key[1] = "grant" /\ o.about = s.on
        \/ o.key[1] = "function" /\ s.on \in o.uses

Commented(k, schema) == \E o \in schema : o.key[1] = "comment" /\ o.about = AboutKey(k)

\* RENAME INDEX, or a constraint on the index: its comment stays under its name.
RenamedCommented(s, schema) ==
    \/ s.does = "rename index" /\ Commented(s.on, schema)
    \/ s.does = "attach" /\ Commented(s.index, schema)

\* DROP COLUMN and DROP CONSTRAINT: what goes with it outside the table, or the
\* comments on what goes.
DroppedBeyond(s, schema) ==
    /\ s.does \in {"drop column", "drop constraint"}
    /\ \E k \in Gone(s.on, schema) :
           \/ k[3] # s.on[3] \/ (s.does = "drop constraint" /\ k # s.on)
           \/ (k # s.on \/ s.does = "drop constraint") /\ Commented(k, schema)

\* DROP ... CASCADE of a type takes columns, replay takes tables; replay takes the
\* functions whose body names what is dropped, PostgreSQL keeps them.
CascadeByName(s, schema) ==
    /\ s.does = "drop" /\ s.cascade
    /\ LET gone == Gone(s.on, schema) IN
       \/ \E k \in gone : k[1] = "column" /\ s.on[1] = "enum"
       \/ \E o \in schema : o.key[1] = "function" /\ o.uses \cap gone # {}

\* CREATE ... IF NOT EXISTS of a name that another object has.
NameTaken(s, schema) ==
    s.does = "create" /\ s.mode = "guarded" /\ ~Free(s.o, schema) /\ ~Has(schema, s.o.key)

\* A column of a type is added, dropped or retyped: the table's dependencies stay.
TypeDependency(s, schema) ==
    /\ s.does \in {"add column", "retype", "drop column"} /\ ~Skipped(s, schema)
    /\ LET columns == At(schema, AlteredTable(s)).columns IN
       \/ s.does # "drop column" /\ s.type[1] # "builtin"
       \/ s.on[2] \in DOMAIN columns /\ columns[s.on[2]][1] # "builtin"

\* ALTER TABLE IF EXISTS, and the index of a constraint renamed, are not read.
NotRead(s, schema) ==
    \/ Skipped(s, schema)
    \/ s.does = "rename index" /\ s.on[1] = "constraint"

\* Its SQL is rewritten in place.
Rewritten(s, schema) ==
    \/ s.does = "rename column" /\ Affected(s, schema) # {}
    \/ s.does = "rename table" /\ \E o \in schema :
           o.key[1] # "comment" /\ (InTable(o, s.on[2]) \/ s.on \in o.uses)
    \/ s.does \in {"add value", "rename value"}

GapsOf(s, schema) ==
    (IF \/ RenamedOutside(s, schema) \/ RenamedInOneClause(s, schema)
        \/ RenamedNamesake(s, schema) \/ RenamedThroughTable(s, schema)
        \/ RenamedSecurity(s, schema) \/ RenamedCommented(s, schema)
        \/ DroppedBeyond(s, schema) \/ CascadeByName(s, schema)
        \/ NameTaken(s, schema) \/ TypeDependency(s, schema)
     THEN {"schema"} ELSE {})
    \cup (IF NotRead(s, schema) THEN {"reading"} ELSE {})
    \cup (IF Rewritten(s, schema) THEN {"hash"} ELSE {})

-----------------------------------------------------------------------------
\* The next statement.  A history that replay cannot read, or gets wrong, is not
\* followed any further.
Step(s) ==
    /\ ran < MaxStatements /\ ~refused /\ "schema" \notin gaps
    /\ CanRun(s, db)
    /\ db' = Execute(s, db)
    /\ refused' = OrderGap(s, model)
    /\ model' = IF OrderGap(s, model) THEN {} ELSE ReplayStatement(s, model)
    /\ gaps' = gaps \cup GapsOf(s, db)
    /\ ran' = ran + 1
    /\ UNCHANGED statements

Next == \E s \in statements : Step(Denoted(s, db))

Spec == Init /\ [][Next]_vars

-----------------------------------------------------------------------------
Unhashed(o) == [o EXCEPT !.hash = "ast"]

\* Content and references of what replay has are those of the schema, freshly read.
SameContent == {Unhashed(o) : o \in model} = {Read(o) : o \in db}

\* They also compare equal, so that the next diff plans nothing for them.
NothingToPlan == \A o \in model : o.hash = "ast"

\* Every history that PostgreSQL ran is read, and replay has the schema it made:
\* replaying "rebuilds the before-state from the whole corpus, so it is its own
\* baseline proof".  A diff to a tree with that schema plans nothing, unless the
\* history renamed what others use, or an enum grew.
ReplayAgrees ==
    gaps \cap {"schema", "reading"} = {} =>
        ~refused /\ SameContent /\ ("hash" \notin gaps => NothingToPlan)
===============================================================================
