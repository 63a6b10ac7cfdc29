------------------------------ MODULE DdlReplay ------------------------------
(***************************************************************************)
(* The replay of statements people write in migrations by hand             *)
(* (src/source/replay.ts).  A model is a set of the objects of PostgresDdl *)
(* with what replay keeps besides the SQL:                                 *)
(*                                                                         *)
(*   deps     `dependencies`: the relations, types and functions it names  *)
(*   cols     `columnDependencies` and `constraintColumns`                 *)
(*   hash     what its hash is of: "ast", its statement, parsed; "text",   *)
(*            SQL rewritten in place; "spliced", the same with the RENAME  *)
(*            appended to it; "values", of an enum                         *)
(*                                                                         *)
(* Only an object with the hash of its statement compares equal with the   *)
(* same object of a tree or a catalog.                                     *)
(***************************************************************************)
EXTENDS PostgresDdl

\* finalizeObjects
References(o) ==
    IF o.key[1] = "table"
    THEN {o.columns[c] : c \in {d \in DOMAIN o.columns : o.columns[d][1] # "builtin"}}
    ELSE IF o.key[1] \in {"comment", "grant", "rls"} THEN {}
    ELSE o.uses \cup IF o.key[3] = "-" THEN {} ELSE {TableKey(o.key[3])}
Read(o) == o @@ [deps |-> References(o), cols |-> ColumnsIn(o), hash |-> "ast"]

\* The same for an object that keeps its metadata.  A statement spliced onto the
\* SQL stays there; the hash of a constraint is of the first one only.
ReadAgain(o) ==
    [o EXCEPT !.deps = References(o), !.cols = @ \cup ColumnsIn(o),
              !.hash = IF @ = "spliced" /\ o.key[1] # "constraint" THEN @ ELSE "ast"]

Put(o, model) == {p \in model : p.key # o.key \/ p.about # o.about} \cup {o}

-----------------------------------------------------------------------------
(* CREATE, COMMENT, GRANT and ADD CONSTRAINT (applyExtractedObject) *)

IndexNamed(k, model) == {o \in model : o.key[1] = "index" /\ o.key[2] = k[2]}

\* CREATE TABLE IF NOT EXISTS and its like on an object that is there.
IsDuplicate(o, model) == o.key[1] \notin {"comment", "grant"} /\ Has(model, o.key)

ReplayCreate(s, model) ==
    IF s.mode = "guarded" /\ IsDuplicate(s.o, model) THEN model ELSE Put(Read(s.o), model)

-----------------------------------------------------------------------------
(* DROP (applyDrop) *)

\* removeOwnedObjectsAfterDrop
Owners == {"table", "view"}
OwnedBy(gone, model) ==
    {o \in model : \E p \in gone : p.key[1] \in Owners /\ InTable(o, p.key[2])}

\* removeAttachedDependents: grants and comments, also those on columns.
AttachedTo(gone, model) ==
    {o \in model : \E p \in gone :
        \/ o.about = AboutKey(p.key)
        \/ p.key[1] \in Owners /\ o.about[1] = "column" /\ o.about[3] = p.key[2]}

WithOwned(gone, model) ==
    LET owned == OwnedBy(gone, model) IN
    gone \cup owned \cup AttachedTo(gone \cup owned, model)

\* removeCascadeDependents: whole objects, by their dependencies.
RECURSIVE Cascade(_, _)
Cascade(gone, model) ==
    LET dependents == {o \in model \ gone : o.deps \cap {p.key : p \in gone} # {}} IN
    IF dependents = {} THEN gone
    ELSE Cascade(gone \cup WithOwned(dependents, model), model)

\* The index of a DROP INDEX is found by its name.
Target(k, model) ==
    IF k[1] = "index" THEN IndexNamed(k, model) ELSE {o \in model : o.key = k}

ReplayDrop(s, model) ==
    LET gone == WithOwned(Target(s.on, model), model) IN
    model \ (IF s.cascade THEN Cascade(gone, model) ELSE gone)

-----------------------------------------------------------------------------
(* ALTER TABLE (applyAlterTableCommand) *)

\* updateTableShape: the dependencies of the table are not read again.
WithColumns(k, columns, model) ==
    {p \in model : p.key # k} \cup {[At(model, k) EXCEPT !.columns = columns]}

ReplayAddColumn(s, table, model) ==
    IF s.on[2] \in DOMAIN table.columns THEN model
    ELSE WithColumns(table.key,
            [c \in DOMAIN table.columns \cup {s.on[2]} |->
                 IF c = s.on[2] THEN s.type ELSE table.columns[c]], model)

\* removeColumnDependents: parts of the table whose metadata names the column.
ColumnDependents(k, model) ==
    {o \in model : InTable(o, k[3]) /\ (k \in o.cols \/ o.about = k)}

ReplayDropColumn(s, table, model) ==
    IF s.on[2] \notin DOMAIN table.columns THEN model
    ELSE WithColumns(table.key, [c \in DOMAIN table.columns \ {s.on[2]} |-> table.columns[c]],
                     model \ ColumnDependents(s.on, model))

ReplayRetype(s, table, model) ==
    WithColumns(table.key, [table.columns EXCEPT ![s.on[2]] = s.type], model)

ReplayDropConstraint(s, model) == {o \in model : o.key # s.on}

\* applyConstraintUsingIndex
ReplayAttach(s, model) ==
    LET index == At(model, s.index) IN
    Put(Read([key |-> s.on, about |-> NoKey, uses |-> {}, places |-> <<index.places[1]>>,
              fkey |-> {}, columns |-> <<>>, def |-> <<"unique", "valid">>]),
        model \ {index})

ReplayValidate(s, model) ==
    Put(ReadAgain([At(model, s.on) EXCEPT !.def[2] = "valid"]), model)

\* applyRlsTransition, with what replay knows of the table as `before`.
Transition(def, to) ==
    [i \in 1..2 |-> IF to \in {<<"enable", "force">>[i]} THEN "on"
                    ELSE IF to \in {<<"disable", "no force">>[i]} THEN "off" ELSE def[i]]
ReplayRowSecurity(s, model) ==
    LET k == <<"rls", s.on[2], s.on[2]>>
        row == [key |-> k, about |-> NoKey, uses |-> {}, places |-> <<>>, fkey |-> {},
                columns |-> <<>>,
                def |-> Transition(IF Has(model, k) THEN At(model, k).def ELSE <<"off", "off">>,
                                   s.to)]
    IN IF row.def = <<"off", "off">> THEN {o \in model : o.key # k} ELSE Put(Read(row), model)

ReplayAlter(s, model) ==
    LET table == At(model, AlteredTable(s)) IN
    CASE s.does = "add column" -> ReplayAddColumn(s, table, model)
      [] s.does = "drop column" -> ReplayDropColumn(s, table, model)
      [] s.does = "retype" -> ReplayRetype(s, table, model)
      [] s.does = "drop constraint" -> ReplayDropConstraint(s, model)
      [] s.does = "attach" -> ReplayAttach(s, model)
      [] s.does = "validate" -> ReplayValidate(s, model)
      [] s.does = "row security" -> ReplayRowSecurity(s, model)

-----------------------------------------------------------------------------
(* ALTER POLICY, ALTER VIEW SET, ALTER TYPE *)

ReplayAlterPolicy(s, model) ==
    LET policy == [At(model, s.on) EXCEPT !.places[s.at] = s.columns, !.cols = {}] IN
    Put(ReadAgain(policy), model)

ReplaySetOption(s, model) ==
    Put(ReadAgain([At(model, s.on) EXCEPT !.def = s.def, !.cols = {}]), model)

\* applyAlterEnum
ReplayValues(s, model) ==
    LET enum == At(model, s.on)
        values == IF s.does = "rename value" THEN ReplaceValue(enum.def, s.value, s.to)
                  ELSE InsertValue(enum.def, s.value, s.before) IN
    IF s.does = "add value" /\ s.value \in Values(enum) THEN model
    ELSE Put([enum EXCEPT !.def = values, !.hash = "values"], model)

-----------------------------------------------------------------------------
(* RENAME *)

\* rebindCommentTargets makes the comment anew.
Rebound(o, k) == [o EXCEPT !.about = k, !.hash = "ast"]

\* renameColumnReferencesInTableScopedSql: the first clause that has the name, of
\* whatever relation, has it replaced, and no other.  The columns that a foreign
\* key refers to are no part of it.
NamesColumn(keys, c) == \E k \in keys : k[2] = c
RenamedIn(keys, c, d) == {IF k[2] = c THEN [k EXCEPT ![2] = d] ELSE k : k \in keys}
FirstPlace(o, c) ==
    LET found == {i \in DOMAIN o.places : NamesColumn(o.places[i], c)} IN
    {i \in found : \A j \in found : i <= j}
ColumnRenamedIn(o, c, d) ==
    [o EXCEPT !.cols = RenamedIn(@, c, d),
              !.places = [i \in DOMAIN @ |-> IF i \in FirstPlace(o, c) THEN RenamedIn(@[i], c, d)
                                             ELSE @[i]],
              !.hash = IF FirstPlace(o, c) = {} \/ @ = "spliced" THEN @ ELSE "text"]

ReplayRenameColumn(s, model) ==
    LET t == s.on[3]
        columns == At(model, TableKey(t)).columns
        renamed == [c \in (DOMAIN columns \ {s.on[2]}) \cup {s.to} |->
                        IF c = s.to THEN columns[s.on[2]] ELSE columns[c]]
        New(o) == IF o.about = s.on THEN Rebound(o, [s.on EXCEPT ![2] = s.to])
                  ELSE IF InTable(o, t) THEN ColumnRenamedIn(o, s.on[2], s.to) ELSE o
    IN IF ~Has(model, TableKey(t)) THEN model
       ELSE WithColumns(TableKey(t), renamed, {New(o) : o \in model})

\* applyTableRename.  A table has its own hash and nothing rewritten; a comment is
\* made anew when it is about the table or a part of it; what is in the table gets
\* its new key (rekeyTableScopedObjects) and every object new references
\* (rebindTableReferences); a function's body is a string.
Moved(keys, t, u) ==
    {IF k = TableKey(t) THEN TableKey(u)
     ELSE IF k[3] = t THEN [k EXCEPT ![3] = u] ELSE k : k \in keys}
MovedKey(k, t, u) == CHOOSE m \in Moved({k}, t, u) : TRUE
MovedObject(o, t, u) ==
    LET named == [o EXCEPT !.deps = Moved(@, t, u), !.cols = Moved(@, t, u)]
        moved == [named EXCEPT !.key = MovedKey(@, t, u), !.uses = Moved(@, t, u),
                               !.places = [i \in DOMAIN @ |-> Moved(@[i], t, u)],
                               !.fkey = Moved(@, t, u)]
    IN CASE o.key[1] = "table" -> [named EXCEPT !.key = MovedKey(@, t, u)]
         [] o.key[1] = "function" \/ o.key[1] = "grant" -> named
         [] o.key[1] = "comment" -> Rebound(moved, MovedKey(o.about, t, u))
         [] InTable(o, t) -> [moved EXCEPT !.hash = "spliced"]
         [] TableKey(t) \in o.deps -> [moved EXCEPT !.hash = IF @ = "spliced" THEN @ ELSE "text"]
         [] OTHER -> named

\* Mutant of ReplayRenameTable: only the table and its parts are renamed.
RenameTableAlone(s, model) ==
    {IF o.key = s.on \/ InTable(o, s.on[2]) \/ o.about # NoKey
     THEN MovedObject(o, s.on[2], s.to) ELSE o : o \in model}

ReplayRenameTable(s, model) ==
    IF s.on[1] # "table" THEN model
    ELSE {MovedObject(o, s.on[2], s.to) : o \in model}

ReplayRenameIndex(s, model) ==
    {IF o \in IndexNamed(s.on, model) THEN ReadAgain([o EXCEPT !.key[2] = s.to]) ELSE o
       : o \in model}

-----------------------------------------------------------------------------
(* SUPA_REPLAY_ORDER_GAP and SUPA_REPLAY_UNSUPPORTED: the history is not   *)
(* read.                                                                   *)

CreateGap(s, model) ==
    /\ s.does = "create"
    /\ \/ s.mode = "plain" /\ IsDuplicate(s.o, model)
       \/ s.o.key[1] = "constraint" /\ ~Has(model, TableKey(s.o.key[3]))

DropGap(s, model) == s.does = "drop" /\ ~s.guarded /\ Target(s.on, model) = {}

AlterGap(s, model) == s.does \in Alters /\ ~Has(model, AlteredTable(s))

\* mutateTableColumn and its like; a table that is not there was handled before.
ColumnGap(s, model) ==
    /\ s.does \in {"add column", "drop column", "retype", "rename column"}
    /\ Has(model, AlteredTable(s))
    /\ LET columns == DOMAIN At(model, AlteredTable(s)).columns IN
       \/ s.does = "add column" /\ s.on[2] \in columns /\ ~s.guarded
       \/ s.does = "drop column" /\ s.on[2] \notin columns /\ ~s.guarded
       \/ s.does \in {"retype", "rename column"} /\ s.on[2] \notin columns
       \/ s.does = "rename column" /\ s.to \in columns

ConstraintGap(s, model) ==
    \/ s.does = "drop constraint" /\ ~s.guarded /\ ~Has(model, s.on)
    \/ s.does = "validate" /\ ~Has(model, s.on)

\* applyConstraintUsingIndex and attachableUniqueIndexColumns
AttachGap(s, model) ==
    /\ s.does = "attach"
    /\ ~Has(model, s.index) \/ Has(model, s.on) \/ ~Attachable(At(model, s.index))

AlteredAbsent(s, model) == s.does \in {"alter policy", "set option"} /\ ~Has(model, s.on)

RenameTableGap(s, model) ==
    s.does = "rename table" /\ Has(model, s.on) /\ Has(model, TableKey(s.to))

RenameIndexGap(s, model) ==
    /\ s.does = "rename index"
    /\ \/ IndexNamed(s.on, model) = {}
       \/ IndexNamed([s.on EXCEPT ![2] = s.to], model) # {}

ValueGap(s, model) ==
    /\ s.does \in {"add value", "rename value"}
    /\ ~Has(model, s.on) \/
       LET values == Values(At(model, s.on)) IN
       \/ s.does = "rename value" /\ (s.value \notin values \/ s.to \in values)
       \/ s.does = "add value" /\ s.value \notin values /\ s.before \notin values \cup {"-"}

OrderGap(s, model) ==
    \/ CreateGap(s, model) \/ DropGap(s, model) \/ AlterGap(s, model)
    \/ ColumnGap(s, model) \/ ConstraintGap(s, model) \/ AttachGap(s, model)
    \/ AlteredAbsent(s, model) \/ RenameTableGap(s, model)
    \/ RenameIndexGap(s, model) \/ ValueGap(s, model)

\* applyStatement
ReplayStatement(s, model) ==
    CASE s.does = "create" -> ReplayCreate(s, model)
      [] s.does = "drop" -> ReplayDrop(s, model)
      [] s.does = "uncomment" -> {o \in model : o.key[1] # "comment" \/ o.about # s.on}
      [] s.does = "rename table" -> ReplayRenameTable(s, model)
      [] s.does = "rename column" -> ReplayRenameColumn(s, model)
      [] s.does = "rename index" -> ReplayRenameIndex(s, model)
      [] s.does = "alter policy" -> ReplayAlterPolicy(s, model)
      [] s.does = "set option" -> ReplaySetOption(s, model)
      [] s.does \in {"add value", "rename value"} -> ReplayValues(s, model)
      [] s.does \in Alters -> ReplayAlter(s, model)
==============================================================================
