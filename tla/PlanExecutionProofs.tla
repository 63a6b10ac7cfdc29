-------------------------- MODULE PlanExecutionProofs --------------------------
(****************************************************************************)
(* RowsNeedConsent, UntouchedStays and TypeOK for every pair of schemas,    *)
(* every configuration and every number of runs.                            *)
(*   For the first: a statement that destroys rows is rendered only from an *)
(* operation that asks for consent (Asks), and every step of the planner    *)
(* keeps that: the direct differences, the two closures of dependents, the  *)
(* proofs that block more, and the grants left out.                         *)
(*   For the second: every operation and every statement is about an object *)
(* that a change concerns (IsOn, IsAboutTouched), and what PostgreSQL takes *)
(* along with such an object depends on it.                                 *)
(*   For the third: every step of the planner keeps the keys of operations  *)
(* apart (Distinct), and every statement that is not refused keeps the      *)
(* catalog intact and made of the definitions of the schemas (Kept).        *)
(****************************************************************************)
EXTENDS PlanExecution, IterationProofs, FiniteSetTheorems, TLAPS

\* The operation is blocked unless what it destroys may be destroyed.
Asks(op, c) ==
    /\ op.kind = "drop" \/ op.kind = "replace" =>
           (op.before.kind = "table" => op.blocked \/ Allowed(op.before.key, c))
    /\ op.kind = "alter" =>
           (op.after.kind # "enum" /\
                RetypedColumns(op.before, op.after)
                    \cup DroppedColumns(op.before, op.after) # {}
            => op.blocked \/ Allowed(op.after.key, c))
    /\ op.kind \in {"create", "drop", "replace", "alter"}

AllAsk(operations, c) == \A op \in operations : Asks(op, c)

KindsAgree(f, t) == \A o \in f, p \in t : o.key = p.key => o.kind = p.kind

-----------------------------------------------------------------------------
(* Operations one by one *)

LEMMA AtIs ==
    ASSUME NEW schema, NEW k, Has(schema, k)
    PROVE  At(schema, k) \in schema /\ At(schema, k).key = k
BY DEF Has, Keys, At

LEMMA CreateAsks ==
    ASSUME NEW o, NEW c
    PROVE  Asks(Create(o, c), c)
BY DEF Create, MakeOperation, Asks

LEMMA DropAsks ==
    ASSUME NEW o, NEW c
    PROVE  Asks(Drop(o, c), c)
BY DEF Drop, MakeOperation, Asks, IsDestructive, DestructiveToDrop, DestructiveToReplace

LEMMA PreDropAsks ==
    ASSUME NEW o, NEW c
    PROVE  Asks(PreDrop(o, c), c)
BY DEF PreDrop, Drop, MakeOperation, Asks, IsDestructive, DestructiveToDrop,
       DestructiveToReplace, RoutineKinds

LEMMA ChangedAsks ==
    ASSUME NEW before, NEW after, NEW c,
           before.key = after.key, before.kind = after.kind
    PROVE  Asks(ChangedOperation(before, after, c), c)
<1>1. CASE AddsEnumValues(before, after)
  BY <1>1 DEF ChangedOperation, AddsEnumValues, AddEnumValues, Asks
<1>2. CASE ~AddsEnumValues(before, after) /\ AltersTable(before, after)
  BY <1>2 DEF ChangedOperation, AlterTable, Asks
<1>3. CASE ~AddsEnumValues(before, after) /\ ~AltersTable(before, after)
  BY <1>3 DEF ChangedOperation, Replace, MakeOperation, Asks, IsDestructive,
              DestructiveToReplace
<1> QED BY <1>1, <1>2, <1>3

LEMMA MarkAsks ==
    ASSUME NEW op, NEW c, NEW preDropped, Asks(op, c)
    PROVE  Asks(Mark(op, preDropped), c)
BY DEF Mark, Asks

LEMMA ProvedAsks ==
    ASSUME NEW op, NEW operations, NEW f, NEW t, NEW c, Asks(op, c)
    PROVE  Asks(Proved(op, operations, f, t), c)
BY DEF Proved, Asks

-----------------------------------------------------------------------------
(* The plan *)

LEMMA DirectAsk ==
    ASSUME NEW f, NEW t, NEW c, KindsAgree(f, t)
    PROVE  AllAsk(ChangedAndDropped(f, t, c) \cup Created(f, t, c), c)
<1> SUFFICES ASSUME NEW op \in ChangedAndDropped(f, t, c) \cup Created(f, t, c)
             PROVE  Asks(op, c)
  BY DEF AllAsk
<1>1. CASE \E o \in f : Has(t, o.key) /\ op = ChangedOperation(o, At(t, o.key), c)
  <2> PICK o \in f : Has(t, o.key) /\ op = ChangedOperation(o, At(t, o.key), c)
    BY <1>1
  <2>1. At(t, o.key) \in t /\ At(t, o.key).key = o.key
    BY AtIs
  <2>2. o.kind = At(t, o.key).kind
    BY <2>1 DEF KindsAgree
  <2> QED BY <2>1, <2>2, ChangedAsks
<1>2. CASE \E o \in f : op = Drop(o, c)
  BY <1>2, DropAsks
<1>3. CASE \E o \in t : op = Create(o, c)
  BY <1>3, CreateAsks
<1> QED BY <1>1, <1>2, <1>3 DEF ChangedAndDropped, Created

LEMMA DependentsAsk ==
    ASSUME NEW operations, NEW f, NEW t, NEW c, NEW affected, NEW names,
           NEW replaced, AllAsk(operations, c)
    PROVE  AllAsk(WithDependents(operations, f, t, c, affected, names, replaced), c)
<1> DEFINE all == WithDependents(operations, f, t, c, affected, names, replaced)
<1> SUFFICES ASSUME NEW op \in all PROVE Asks(op, c)
  BY DEF AllAsk
<1>1. CASE \E p \in operations : \E preDropped : op = Mark(p, preDropped)
  BY <1>1, MarkAsks DEF AllAsk
<1>2. CASE \E o : op = PreDrop(o, c)
  BY <1>2, PreDropAsks
<1>3. CASE \E o : op = Create(o, c)
  BY <1>3, CreateAsks
<1> QED BY <1>1, <1>2, <1>3 DEF WithDependents

\* Every operation of a plan that may destroy rows asks for consent, or is
\* blocked (planSchemaDiff).
THEOREM PlanAsks ==
    ASSUME NEW f, NEW t, NEW c, KindsAgree(f, t)
    PROVE  AllAsk(PlanSchemaDiff(f, t, c), c)
<1> DEFINE direct == ChangedAndDropped(f, t, c) \cup Created(f, t, c)
           replaced == WithReplacedDependents(direct, f, t, c)
           all == WithColumnDependents(replaced, f, t, c)
           proved == {Proved(op, all, f, t) : op \in all}
<1>1. AllAsk(direct, c)
  BY DirectAsk
<1>2. AllAsk(replaced, c)
  <2> HIDE DEF direct
  <2> QED BY <1>1, DependentsAsk DEF WithReplacedDependents
<1>3. AllAsk(all, c)
  <2> HIDE DEF replaced
  <2> QED BY <1>2, DependentsAsk DEF WithColumnDependents
<1>4. AllAsk(proved, c)
  <2> HIDE DEF all
  <2> QED BY <1>3, ProvedAsks DEF AllAsk
<1>5. PlanSchemaDiff(f, t, c) \subseteq proved
  BY DEF PlanSchemaDiff
<1> HIDE DEF proved
<1> QED BY <1>4, <1>5 DEF AllAsk

-----------------------------------------------------------------------------
(* The statements *)

\* The statement destroys no row, or may.
Harmless(s, c) == RowsLost(s) # {} => Allowed(s.o.key, c)

\* A sequence of such statements.
Safe(statements, c) ==
    /\ \E S : statements \in Seq(S)
    /\ \A i \in 1..Len(statements) : Harmless(statements[i], c)

LEMMA SafeConcat ==
    ASSUME NEW left, NEW right, NEW c, Safe(left, c), Safe(right, c)
    PROVE  Safe(left \o right, c)
<1>1. PICK S : left \in Seq(S)
  BY DEF Safe
<1>2. PICK T : right \in Seq(T)
  BY DEF Safe
<1>3. left \in Seq(S \cup T) /\ right \in Seq(S \cup T)
  BY <1>1, <1>2
<1>4. left \o right \in Seq(S \cup T)
  BY <1>3
<1>5. ASSUME NEW i \in 1..Len(left \o right)
      PROVE  Harmless((left \o right)[i], c)
  <2>1. CASE i <= Len(left)
    <3>1. (left \o right)[i] = left[i] /\ i \in 1..Len(left)
      BY <1>3, <2>1
    <3> QED BY <3>1 DEF Safe
  <2>2. CASE i > Len(left)
    <3>1. (left \o right)[i] = right[i - Len(left)] /\ i - Len(left) \in 1..Len(right)
      BY <1>3, <2>2
    <3> QED BY <3>1 DEF Safe
  <2> QED BY <1>3, <2>1, <2>2
<1> QED BY <1>4, <1>5 DEF Safe

LEMMA SafeOne ==
    ASSUME NEW s, NEW c, Harmless(s, c)
    PROVE  Safe(<<s>>, c)
<1>1. <<s>> \in Seq({s})
  OBVIOUS
<1>2. Len(<<s>>) = 1 /\ <<s>>[1] = s
  OBVIOUS
<1>3. \A i \in 1..Len(<<s>>) : Harmless(<<s>>[i], c)
  BY <1>2
<1> QED BY <1>1, <1>3 DEF Safe

LEMMA SafeNone ==
    ASSUME NEW c
    PROVE  Safe(<< >>, c)
<1>1. << >> \in Seq({})
  OBVIOUS
<1> QED BY <1>1 DEF Safe

LEMMA CreateSafe ==
    ASSUME NEW o, NEW c
    PROVE  Safe(RenderCreate(o), c)
<1>1. Safe(<<CreateStatement(o)>>, c)
  <2>1. Harmless(CreateStatement(o), c)
    BY DEF Harmless, RowsLost, CreateStatement, Statement
  <2> QED BY <2>1, SafeOne
<1>2. CASE o.kind \in DropsItself
  <2>1. Safe(<<DropStatement(o)>>, c)
    <3>1. Harmless(DropStatement(o), c)
      BY <1>2 DEF Harmless, RowsLost, DropStatement, Statement, DropsItself
    <3> QED BY <3>1, SafeOne
  <2>2. RenderCreate(o) = <<DropStatement(o)>> \o <<CreateStatement(o)>>
    BY <1>2 DEF RenderCreate
  <2> QED BY <1>1, <2>1, <2>2, SafeConcat
<1>3. CASE o.kind \notin DropsItself
  BY <1>1, <1>3 DEF RenderCreate
<1> QED BY <1>2, <1>3

LEMMA AlterSafe ==
    ASSUME NEW o, NEW columns, NEW c
    PROVE  /\ Safe(AlterStatement("add", o, columns), c)
           /\ columns = {} \/ Allowed(o.key, c) =>
                 /\ Safe(AlterStatement("retype", o, columns), c)
                 /\ Safe(AlterStatement("drop columns", o, columns), c)
<1>1. CASE columns = {}
  BY <1>1, SafeNone DEF AlterStatement
<1>2. CASE columns # {}
  <2>1. Harmless(Statement("add", o, columns), c)
    BY DEF Harmless, RowsLost, Statement
  <2>2. ASSUME Allowed(o.key, c)
        PROVE  /\ Harmless(Statement("retype", o, columns), c)
               /\ Harmless(Statement("drop columns", o, columns), c)
    BY <2>2 DEF Harmless, RowsLost, Statement
  <2> QED BY <1>2, <2>1, <2>2, SafeOne DEF AlterStatement
<1> QED BY <1>1, <1>2

\* An operation that is not blocked renders statements that destroy only what may
\* be destroyed (renderOperation).
LEMMA RenderSafe ==
    ASSUME NEW op, NEW c, Asks(op, c), ~op.blocked
    PROVE  Safe(RenderOperation(op), c)
<1>1. CASE op.kind = "create"
  BY <1>1, CreateSafe DEF RenderOperation
<1>2. CASE op.kind = "drop"
  <2>1. Harmless(DropStatement(op.before), c)
    BY <1>2 DEF Harmless, RowsLost, DropStatement, Statement, Asks
  <2> QED BY <1>2, <2>1, SafeOne DEF RenderOperation
<1>3. CASE op.kind = "alter"
  <2>1. CASE op.after.kind = "enum"
    <3>1. Harmless(Statement("add values", op.after, {}), c)
      BY DEF Harmless, RowsLost, Statement
    <3> QED BY <1>3, <2>1, <3>1, SafeOne DEF RenderOperation, RenderAlter
  <2>2. CASE op.after.kind # "enum"
    <3>1. Safe(AlterStatement("add", op.after, AddedColumns(op.before, op.after)), c)
      BY AlterSafe
    <3>2. Safe(AlterStatement("retype", op.after, RetypedColumns(op.before, op.after)), c)
      BY <1>3, <2>2, AlterSafe DEF Asks
    <3>3. Safe(AlterStatement("drop columns", op.after, DroppedColumns(op.before, op.after)), c)
      BY <1>3, <2>2, AlterSafe DEF Asks
    <3> QED BY <1>3, <2>2, <3>1, <3>2, <3>3, SafeConcat DEF RenderOperation, RenderAlter
  <2> QED BY <2>1, <2>2
<1>4. CASE op.kind = "replace"
  <2>1. Safe(<<DropStatement(op.before)>>, c)
    <3>1. Harmless(DropStatement(op.before), c)
      BY <1>4 DEF Harmless, RowsLost, DropStatement, Statement, Asks
    <3> QED BY <3>1, SafeOne
  <2> QED BY <1>4, <2>1, CreateSafe, SafeConcat DEF RenderOperation, RenderReplace
<1> QED BY <1>1, <1>2, <1>3, <1>4 DEF Asks

-----------------------------------------------------------------------------
(* The specification *)

\* An operation of the plan asks for consent and, once the plan is accepted, is
\* not blocked; both files are safe; the rows that are gone were allowed to go.
Accepted == phase \in {"sorting", "cyclic", "rendered", "running", "failed", "finished"}
PlanInv ==
    /\ KindsAgree(from, to)
    /\ phase \in {"diff", "refused"} \/ Accepted
    /\ Accepted => AllAsk(ops, config) /\ ~Refused(ops)
FileInv == Safe(file, config) /\ Safe(companion, config) /\ at \in Nat
RowsInv == \A rc \in TableRows(from) \ rows : Allowed(rc[1], config)
IInv == PlanInv /\ FileInv /\ RowsInv

LEMMA InitInv == Init => IInv
<1> SUFFICES ASSUME Init PROVE IInv
  OBVIOUS
<1>1. PlanInv
  BY KeysAssumption DEF Init, PlanInv, Accepted, KindsAgree
<1>2. FileInv
  BY SafeNone DEF Init, FileInv
<1>3. RowsInv
  BY DEF Init, RowsInv
<1> QED BY <1>1, <1>2, <1>3 DEF IInv

LEMMA PlanKeeps == IInv /\ Plan => IInv'
<1> SUFFICES ASSUME IInv, Plan PROVE IInv'
  OBVIOUS
<1>1. AllAsk(ops', config)
  BY PlanAsks DEF IInv, PlanInv, Plan
<1>2. PlanInv'
  BY <1>1 DEF IInv, PlanInv, Plan, Accepted, diff
<1>3. FileInv' /\ RowsInv'
  BY DEF IInv, FileInv, RowsInv, Plan, diff
<1> QED BY <1>2, <1>3 DEF IInv

LEMMA SortKeeps == IInv /\ Sort => IInv'
<1> SUFFICES ASSUME IInv, Sort PROVE IInv'
  OBVIOUS
<1>1. PICK op \in ops : \/ /\ companion' = companion \o RenderOperation(op)
                            /\ file' = file
                         \/ /\ file' = file \o RenderOperation(op)
                            /\ companion' = companion
  BY DEF Sort, Ready
<1>2. Asks(op, config) /\ ~op.blocked
  BY DEF IInv, PlanInv, Accepted, AllAsk, Refused, Sort
<1>3. Safe(file', config) /\ Safe(companion', config)
  BY <1>1, <1>2, RenderSafe, SafeConcat DEF IInv, FileInv
<1>4. FileInv'
  BY <1>3 DEF IInv, FileInv, Sort, diff
<1>5. PlanInv' /\ RowsInv'
  BY DEF IInv, PlanInv, RowsInv, Sort, Accepted, diff
<1> QED BY <1>4, <1>5 DEF IInv

LEMMA RunKeeps == IInv /\ Run => IInv'
<1> SUFFICES ASSUME IInv, Run PROVE IInv'
  OBVIOUS
<1> DEFINE s == Script[at + 1]
<1>1. Harmless(s, config)
  <2>1. Safe(Script, config)
    BY SafeConcat DEF IInv, FileInv, Script
  <2>2. at + 1 \in 1..Len(Script)
    BY <2>1 DEF IInv, FileInv, Safe, Run
  <2> QED BY <2>1, <2>2 DEF Safe
<1>2. \A rc \in RowsLost(s) : rc[1] = s.o.key
  BY DEF RowsLost
<1>3. RowsInv'
  <2> HIDE DEF s
  <2>1. rows' = rows \ RowsLost(s) /\ from' = from /\ config' = config
    BY DEF Run, diff, s
  <2> QED BY <1>1, <1>2, <2>1 DEF IInv, RowsInv, Harmless
<1>4. PlanInv' /\ FileInv'
  BY DEF IInv, PlanInv, FileInv, Run, Accepted, diff, plan
<1> QED BY <1>3, <1>4 DEF IInv

LEMMA OthersKeep == IInv /\ (Sorted \/ Verify \/ Fail \/ Finish \/ Rerun) => IInv'
<1> SUFFICES ASSUME IInv, Sorted \/ Verify \/ Fail \/ Finish \/ Rerun PROVE IInv'
  OBVIOUS
<1>1. PlanInv'
  BY DEF IInv, PlanInv, Sorted, Verify, Fail, Finish, Rerun, Accepted, diff, plan
<1>2. FileInv'
  BY DEF IInv, FileInv, Sorted, Verify, Fail, Finish, Rerun, diff, plan
<1>3. RowsInv'
  BY DEF IInv, RowsInv, Sorted, Verify, Fail, Finish, Rerun, diff, plan
<1> QED BY <1>1, <1>2, <1>3 DEF IInv

LEMMA StutterKeeps == IInv /\ UNCHANGED vars => IInv'
BY DEF IInv, PlanInv, FileInv, RowsInv, Accepted, vars, diff, plan

LEMMA Inductive == IInv /\ [Next]_vars => IInv'
BY PlanKeeps, SortKeeps, RunKeeps, OthersKeep, StutterKeeps DEF Next

LEMMA ImpliesConsent == IInv => RowsNeedConsent
<1> SUFFICES ASSUME IInv, NEW o \in from, o.kind = "table", ~Allowed(o.key, config),
                    NEW column \in DOMAIN o.columns
             PROVE  <<o.key, column>> \in rows
  BY DEF RowsNeedConsent
<1>1. <<o.key, column>> \in TableRows(from)
  BY DEF TableRows
<1> QED BY <1>1 DEF IInv, RowsInv

\* No run of a migration, and no re-run of an interrupted one, destroys rows of a
\* table whose key the configuration does not let be destroyed: whatever the two
\* schemas are and whatever order the operations were taken in.
THEOREM ConsentNeeded == Spec => []RowsNeedConsent
<1>1. Spec => []IInv
  BY InitInv, Inductive, PTL DEF Spec
<1> QED BY <1>1, ImpliesConsent, PTL

-----------------------------------------------------------------------------
(* What no change concerns.  T is any set of keys with what the diff changes *)
(* and what depends on its members; f and t are the two schemas.             *)

SpreadsFrom(T, f, t) ==
    /\ Keys(f \ t) \cup Keys(t \ f) \subseteq T
    /\ \A o \in f : Uses(o, f) \cap T # {} => o.key \in T

Unique(schema) == \A o, p \in schema : o.key = p.key => o = p

\* What SchemasAssumption says of the two schemas of a diff.
WellFormed(f, t) ==
    /\ IsFiniteSet(f) /\ IsFiniteSet(t)
    /\ Unique(f) /\ Unique(t) /\ KindsAgree(f, t)
    /\ Consistent(f)
    /\ \A o \in f : \A rc \in o.cols : rc[1] \in Uses(o, f)
    /\ \A o \in f : o.kind \in {"grant", "comment"} => o.target # None
    /\ \A o, p \in f \cup t : o.grantId \in {p.key, p.grantId} \ {None} => o.key = p.key
    /\ \A o \in f \cup t : {"key", "grantId"} \subseteq DOMAIN o

\* An object of the target that depends on a touched name is touched.
LEMMA DependsIsTouched ==
    ASSUME NEW f, NEW t, NEW T, SpreadsFrom(T, f, t), NEW o \in t,
           o \in f => Uses(o, f) \cap T # {}
    PROVE  o.key \in T
<1>1. CASE o \in f
  BY <1>1 DEF SpreadsFrom
<1>2. CASE o \notin f
  BY <1>2 DEF SpreadsFrom, Keys
<1> QED BY <1>1, <1>2

\* What a comment or a grant is about is what it uses.
LEMMA AboutIsUsed ==
    ASSUME NEW f, NEW t, WellFormed(f, t), NEW o \in f, NEW k, NEW p \in f \cup t, p.key = k,
           \/ CommentsOn(o, {k})
           \/ GrantsOn(o, {p.grantId})
           \/ GrantsOn(o, {k})
    PROVE  k \in Uses(o, f)
<1>1. o.target # None
  BY DEF WellFormed, CommentsOn, GrantsOn
<1>2. PICK q \in f : IsAbout(o, q)
  BY <1>1 DEF WellFormed, Consistent, Satisfied
<1>3. q.key = k
  BY <1>1, <1>2 DEF WellFormed, IsAbout, CommentsOn, GrantsOn
<1> QED BY <1>2, <1>3 DEF Uses

LEMMA AffectedTouched ==
    ASSUME NEW f, NEW t, WellFormed(f, t), NEW T \in SUBSET Keys(f \cup t),
           SpreadsFrom(T, f, t), NEW o \in t, NEW names \in SUBSET T,
           Affected(o, f, names)
    PROVE  o.key \in T
<1> SUFFICES ASSUME o \in f PROVE Uses(o, f) \cap names # {}
  BY DependsIsTouched
<1>1. CASE o.table \in names \/ o.deps \cap names # {} \/ o.fn \in names
  BY <1>1 DEF Uses
<1>2. CASE CrossTableDependent(o, names)
  BY <1>2 DEF CrossTableDependent, Uses
<1>3. CASE CallsRoutineIn(o, f, names)
  BY <1>3 DEF CallsRoutineIn, WellFormed, Unique, Uses
<1>4. CASE o.kind = "grant" /\ o.target \in names
  <2>1. PICK p \in f \cup t : p.key = o.target
    BY <1>4 DEF Keys
  <2> QED BY <1>4, <2>1, AboutIsUsed DEF GrantsOn
<1> QED BY <1>1, <1>2, <1>3, <1>4 DEF Affected

\* Columns of touched tables.
ColumnsIn(columns, T) == \A rc \in columns : rc[1] \in T

LEMMA DrawnInTouched ==
    ASSUME NEW f, NEW t, WellFormed(f, t), NEW T \in SUBSET Keys(f \cup t),
           SpreadsFrom(T, f, t), NEW o \in t, NEW names \in SUBSET T,
           NEW columns, ColumnsIn(columns, T),
           DrawnIn(o, f, names, columns)
    PROVE  o.key \in T
<1>1. CASE Affected(o, f, names)
  BY <1>1, AffectedTouched
<1>2. CASE \E p \in f : p.key = o.key /\ UsesColumn(p, columns)
  <2>1. PICK p \in f : p.key = o.key /\ UsesColumn(p, columns)
    BY <1>2
  <2>2. PICK rc \in p.cols : rc \in columns
    BY <2>1 DEF UsesColumn
  <2>3. rc[1] \in Uses(p, f) \cap T
    BY <2>2 DEF WellFormed, ColumnsIn
  <2> QED BY <2>1, <2>3 DEF SpreadsFrom
<1> QED BY <1>1, <1>2 DEF DrawnIn

\* The loops of the two closures stay within T: they add what they draw in.
LEMMA NamesTouched ==
    ASSUME NEW f, NEW t, WellFormed(f, t), NEW T \in SUBSET Keys(f \cup t),
           SpreadsFrom(T, f, t), NEW start \in SUBSET T,
           NEW columns, ColumnsIn(columns, T)
    PROVE  AffectedNames(f, t, start, columns) \subseteq T
<1> DEFINE next(known) ==
               known \cup {o.key : o \in {p \in t : DrawnIn(p, f, known, columns)
                                               /\ IsPreDropped(p, f, known)}}
           X == SUBSET (start \cup Keys(t))
           step == [known \in X |-> next(known)]
           names[n \in Nat] == IF n = 0 THEN start ELSE next(names[n - 1])
<1>1. names = [n \in Nat |-> IF n = 0 THEN start ELSE next(names[n - 1])]
  <2> SUFFICES \E ff : ff = [n \in Nat |-> IF n = 0 THEN start ELSE next(ff[n - 1])]
    OBVIOUS
  <2>1. \A known \in X : next(known) \in X
    BY DEF Keys
  <2> HIDE DEF next
  <2>2. start \in X /\ step \in [X -> X]
    BY <2>1
  <2> HIDE DEF X, step
  <2>3. PICK g \in [Nat -> X] : g[0] = start /\ \A n \in Nat \ {0} : g[n] = step[g[n - 1]]
    BY <2>2, IterationExists
  <2>4. \A n \in Nat \ {0} : g[n] = next(g[n - 1])
    <3> SUFFICES ASSUME NEW n \in Nat \ {0} PROVE g[n] = next(g[n - 1])
      OBVIOUS
    <3>1. n - 1 \in Nat
      OBVIOUS
    <3>2. g[n - 1] \in X
      BY <2>3, <3>1
    <3> QED BY <2>3, <3>2 DEF step
  <2>5. g = [n \in Nat |-> IF n = 0 THEN start ELSE next(g[n - 1])]
    BY <2>3, <2>4
  <2> QED BY <2>5
<1> HIDE DEF names
<1>2. names[0] = start /\ \A n \in Nat : names[n + 1] = next(names[n])
  <2> HIDE DEF next
  <2>1. ASSUME NEW n \in Nat PROVE names[n + 1] = next(names[n])
    <3>1. n + 1 \in Nat /\ n + 1 # 0 /\ (n + 1) - 1 = n
      OBVIOUS
    <3> QED BY <1>1, <3>1
  <2> QED BY <1>1, <2>1
<1>3. \A known \in SUBSET T : next(known) \in SUBSET T
  BY DrawnInTouched
<1> DEFINE N == {n \in Nat : names[n] \in SUBSET T}
<1>4. N = Nat
  <2> HIDE DEF next
  <2>1. 0 \in N /\ \A n \in N : n + 1 \in N
    BY <1>2, <1>3
  <2>2. N \in SUBSET Nat
    OBVIOUS
  <2> HIDE DEF N
  <2> QED BY <2>1, <2>2, AllNaturals
<1>5. AffectedNames(f, t, start, columns) = names[Cardinality(t)]
  BY DEF AffectedNames, names
<1>6. Cardinality(t) \in Nat
  BY FS_CardinalityType DEF WellFormed
<1> QED BY <1>4, <1>5, <1>6

-----------------------------------------------------------------------------
(* The plan is about touched objects only. *)

\* An operation on definitions of S with keys of T.
IsOn(op, S, T) ==
    /\ op.kind \in {"create", "drop", "replace", "alter"} /\ op.pre \in BOOLEAN
    /\ op.kind = "alter" => op.after.kind \in {"table", "enum"}
    /\ IF op.kind = "create" THEN op.before = None ELSE op.before \in S /\ op.before.key \in T
    /\ IF op.kind = "drop" THEN op.after = None ELSE op.after \in S /\ op.after.key \in T

AllOn(operations, S, T) == \A op \in operations : IsOn(op, S, T)

LEMMA SubjectTouched ==
    ASSUME NEW op, NEW S, NEW T, IsOn(op, S, T)
    PROVE  Subject(op).key \in T
BY DEF IsOn, Subject

LEMMA CreateOn ==
    ASSUME NEW S, NEW T, NEW o \in S, o.key \in T, NEW c
    PROVE  /\ IsOn(Create(o, c), S, T)
           /\ IsOn(Drop(o, c), S, T)
           /\ IsOn(PreDrop(o, c), S, T)
BY DEF Create, Drop, PreDrop, MakeOperation, IsOn

LEMMA ChangedOn ==
    ASSUME NEW S, NEW T, NEW before \in S, NEW after \in S, NEW c,
           before.key \in T, after.key \in T, before.kind = after.kind
    PROVE  IsOn(ChangedOperation(before, after, c), S, T)
BY DEF ChangedOperation, AddsEnumValues, AddEnumValues, AltersTable, AlterTable,
       Replace, IsOn

LEMMA MarkOn ==
    ASSUME NEW op, NEW S, NEW T, NEW preDropped, IsOn(op, S, T)
    PROVE  IsOn(Mark(op, preDropped), S, T)
BY DEF Mark, IsOn

LEMMA ProvedOn ==
    ASSUME NEW op, NEW S, NEW T, NEW operations, NEW f, NEW t, IsOn(op, S, T)
    PROVE  IsOn(Proved(op, operations, f, t), S, T)
BY DEF Proved, IsOn

LEMMA DirectOn ==
    ASSUME NEW f, NEW t, WellFormed(f, t), NEW T, SpreadsFrom(T, f, t), NEW c
    PROVE  AllOn(ChangedAndDropped(f, t, c) \cup Created(f, t, c), f \cup t, T)
<1> SUFFICES ASSUME NEW op \in ChangedAndDropped(f, t, c) \cup Created(f, t, c)
             PROVE  IsOn(op, f \cup t, T)
  BY DEF AllOn
<1>1. CASE \E o \in f : Has(t, o.key) /\ At(t, o.key) # o
                        /\ op = ChangedOperation(o, At(t, o.key), c)
  <2> PICK o \in f : Has(t, o.key) /\ At(t, o.key) # o /\ op = ChangedOperation(o, At(t, o.key), c)
    BY <1>1
  <2>1. At(t, o.key) \in t /\ At(t, o.key).key = o.key
    BY AtIs
  <2>2. o \notin t
    BY <2>1 DEF WellFormed, Unique
  <2>3. o.key \in T
    BY <2>2 DEF SpreadsFrom, Keys
  <2>4. o.kind = At(t, o.key).kind
    BY <2>1 DEF WellFormed, KindsAgree
  <2> QED BY <2>1, <2>3, <2>4, ChangedOn
<1>2. CASE \E o \in f : ~Has(t, o.key) /\ op = Drop(o, c)
  <2> PICK o \in f : ~Has(t, o.key) /\ op = Drop(o, c)
    BY <1>2
  <2>1. o.key \in T
    BY DEF SpreadsFrom, Keys, Has
  <2> QED BY <2>1, CreateOn
<1>3. CASE \E o \in t : ~Has(f, o.key) /\ op = Create(o, c)
  <2> PICK o \in t : ~Has(f, o.key) /\ op = Create(o, c)
    BY <1>3
  <2>1. o.key \in T
    BY DEF SpreadsFrom, Keys, Has
  <2> QED BY <2>1, CreateOn
<1> QED BY <1>1, <1>2, <1>3 DEF ChangedAndDropped, Created

LEMMA DependentsOn ==
    ASSUME NEW f, NEW t, WellFormed(f, t), NEW T \in SUBSET Keys(f \cup t), SpreadsFrom(T, f, t),
           NEW c, NEW operations, AllOn(operations, f \cup t, T),
           NEW affected \in SUBSET t, Keys(affected) \subseteq T,
           NEW names, NEW replaced \in SUBSET T
    PROVE  AllOn(WithDependents(operations, f, t, c, affected, names, replaced), f \cup t, T)
<1> DEFINE all == WithDependents(operations, f, t, c, affected, names, replaced)
<1> SUFFICES ASSUME NEW op \in all PROVE IsOn(op, f \cup t, T)
  BY DEF AllOn
<1>1. CASE \E p \in operations : \E preDropped : op = Mark(p, preDropped)
  BY <1>1, MarkOn DEF AllOn
<1>2. CASE \E o \in affected : op = PreDrop(o, c)
  BY <1>2, CreateOn DEF Keys
<1>3. CASE \E o \in affected : op = Create(o, c)
  BY <1>3, CreateOn DEF Keys
<1>4. CASE \E o \in t : CommentsOn(o, replaced \cup Keys(affected)) /\ op = Create(o, c)
  <2> PICK o \in t : CommentsOn(o, replaced \cup Keys(affected)) /\ op = Create(o, c)
    BY <1>4
  <2>1. o.target \in T /\ CommentsOn(o, {o.target})
    BY DEF CommentsOn
  <2>2. PICK p \in f \cup t : p.key = o.target
    BY <2>1 DEF Keys
  <2>3. o \in f => o.target \in Uses(o, f)
    BY <2>1, <2>2, AboutIsUsed
  <2>4. o.key \in T
    BY <2>1, <2>3, DependsIsTouched
  <2> QED BY <2>4, CreateOn
<1> QED BY <1>1, <1>2, <1>3, <1>4 DEF WithDependents

\* Every operation of a plan is on an object that a change concerns
\* (planSchemaDiff and its two closures).
THEOREM PlanTouches ==
    ASSUME NEW f, NEW t, WellFormed(f, t), NEW T \in SUBSET Keys(f \cup t), SpreadsFrom(T, f, t),
           NEW c
    PROVE  AllOn(PlanSchemaDiff(f, t, c), f \cup t, T)
<1> DEFINE S == f \cup t
           direct == ChangedAndDropped(f, t, c) \cup Created(f, t, c)
           replaced == WithReplacedDependents(direct, f, t, c)
           all == WithColumnDependents(replaced, f, t, c)
           proved == {Proved(op, all, f, t) : op \in all}
<1>1. AllOn(direct, S, T)
  BY DirectOn
<1>2. AllOn(replaced, S, T)
  <2> HIDE DEF direct
  <2> DEFINE start == {Subject(op).key : op \in
                          {p \in direct : p.kind = "replace"
                                          /\ p.after.kind \in ReplacedDependencyKinds}}
             names == AffectedNames(f, t, start, {})
             affected == {o \in t : Affected(o, f, names)}
  <2>1. start \in SUBSET T
    BY <1>1, SubjectTouched DEF AllOn
  <2>2. names \in SUBSET T
    <3> HIDE DEF start
    <3>1. ColumnsIn({}, T)
      BY DEF ColumnsIn
    <3> QED BY <2>1, <3>1, NamesTouched
  <2>3. affected \in SUBSET t /\ Keys(affected) \subseteq T
    <3> HIDE DEF names
    <3> QED BY <2>2, AffectedTouched DEF Keys
  <2>4. replaced = IF start = {} THEN direct
                   ELSE WithDependents(direct, f, t, c, affected, names, start)
    BY DEF WithReplacedDependents
  <2> HIDE DEF start, names, affected, replaced
  <2> QED BY <1>1, <2>1, <2>3, <2>4, DependentsOn
<1>3. AllOn(all, S, T)
  <2> HIDE DEF replaced
  <2> DEFINE retyped == UNION {RetypedIn(op) : op \in replaced}
             names == AffectedNames(f, t, {}, retyped)
             affected == {o \in t : DrawnIn(o, f, names, retyped)}
  <2>1. ColumnsIn(retyped, T)
    BY <1>2 DEF ColumnsIn, RetypedIn, AllOn, IsOn
  <2> HIDE DEF retyped
  <2>2. names \in SUBSET T
    BY <2>1, NamesTouched
  <2>3. affected \in SUBSET t /\ Keys(affected) \subseteq T
    <3> HIDE DEF names
    <3> QED BY <2>1, <2>2, DrawnInTouched DEF Keys
  <2>4. all = IF retyped = {} THEN replaced
              ELSE WithDependents(replaced, f, t, c, affected, names, {})
    BY DEF WithColumnDependents, retyped
  <2> HIDE DEF names, affected, all
  <2> QED BY <1>2, <2>3, <2>4, DependentsOn
<1>4. AllOn(proved, S, T)
  <2> HIDE DEF all
  <2> QED BY <1>3, ProvedOn DEF AllOn
<1>5. PlanSchemaDiff(f, t, c) \subseteq proved
  BY DEF PlanSchemaDiff
<1> HIDE DEF proved
<1> QED BY <1>4, <1>5 DEF AllOn

-----------------------------------------------------------------------------
(* The statements are about touched objects only, and so is what they leave. *)

\* Only a table is altered, and only an enum given values.
Fits(s) ==
    /\ s.does \in {"add", "retype", "drop columns"} => s.o.kind = "table"
    /\ s.does = "add values" => s.o.kind = "enum"

IsAboutTouched(statements, S, T) ==
    \E D : statements \in Seq(D) /\ \A s \in D : s.o \in S /\ s.o.key \in T /\ Fits(s)

LEMMA TouchedConcat ==
    ASSUME NEW left, NEW right, NEW S, NEW T,
           IsAboutTouched(left, S, T), IsAboutTouched(right, S, T)
    PROVE  IsAboutTouched(left \o right, S, T)
<1>1. PICK D : left \in Seq(D) /\ \A s \in D : s.o \in S /\ s.o.key \in T /\ Fits(s)
  BY DEF IsAboutTouched
<1>2. PICK E : right \in Seq(E) /\ \A s \in E : s.o \in S /\ s.o.key \in T /\ Fits(s)
  BY DEF IsAboutTouched
<1>3. left \in Seq(D \cup E) /\ right \in Seq(D \cup E)
  BY <1>1, <1>2
<1>4. left \o right \in Seq(D \cup E)
  BY <1>3
<1> QED BY <1>1, <1>2, <1>4 DEF IsAboutTouched

LEMMA TouchedFew ==
    ASSUME NEW S, NEW T
    PROVE  /\ IsAboutTouched(<< >>, S, T)
           /\ \A does : \A columns : \A o \in S :
                 o.key \in T /\ Fits(Statement(does, o, columns)) =>
                 IsAboutTouched(<<Statement(does, o, columns)>>, S, T)
<1>1. IsAboutTouched(<< >>, S, T)
  <2> DEFINE D == {}
  <2>1. << >> \in Seq(D)
    OBVIOUS
  <2>2. \A s \in D : s.o \in S /\ s.o.key \in T /\ Fits(s)
    OBVIOUS
  <2> HIDE DEF D
  <2> QED BY <2>1, <2>2 DEF IsAboutTouched
<1>2. ASSUME NEW does, NEW columns, NEW o \in S, o.key \in T,
             Fits(Statement(does, o, columns))
      PROVE  IsAboutTouched(<<Statement(does, o, columns)>>, S, T)
  <2> DEFINE s == Statement(does, o, columns)
             D == {s}
  <2>1. s.o = o
    BY DEF Statement
  <2> HIDE DEF s
  <2>2. <<s>> \in Seq(D)
    OBVIOUS
  <2>3. \A d \in D : d.o \in S /\ d.o.key \in T /\ Fits(d)
    BY <1>2, <2>1 DEF s
  <2> HIDE DEF D
  <2>4. IsAboutTouched(<<s>>, S, T)
    BY <2>2, <2>3 DEF IsAboutTouched
  <2> QED BY <2>4 DEF s
<1> QED BY <1>1, <1>2

LEMMA CreateTouched ==
    ASSUME NEW S, NEW T, NEW o \in S, o.key \in T
    PROVE  IsAboutTouched(RenderCreate(o), S, T)
<1>1. /\ IsAboutTouched(<<DropStatement(o)>>, S, T)
      /\ IsAboutTouched(<<CreateStatement(o)>>, S, T)
  BY TouchedFew DEF DropStatement, CreateStatement, Statement, Fits
<1>2. <<DropStatement(o), CreateStatement(o)>> = <<DropStatement(o)>> \o <<CreateStatement(o)>>
  OBVIOUS
<1> QED BY <1>1, <1>2, TouchedConcat DEF RenderCreate

LEMMA RenderTouched ==
    ASSUME NEW S, NEW T, NEW op, IsOn(op, S, T)
    PROVE  IsAboutTouched(RenderOperation(op), S, T)
<1>1. CASE op.kind = "create"
  BY <1>1, TouchedFew, CreateTouched DEF RenderOperation, IsOn
<1>2. CASE op.kind = "drop"
  BY <1>2, TouchedFew DEF RenderOperation, IsOn, DropStatement, Statement, Fits
<1>3. CASE op.kind = "alter"
  <2>1. op.after \in S /\ op.after.key \in T
    BY <1>3 DEF IsOn
  <2>2. CASE op.after.kind = "enum"
    <3>1. Fits(Statement("add values", op.after, {}))
      BY <2>2 DEF Fits, Statement
    <3> QED BY <1>3, <2>1, <2>2, <3>1, TouchedFew DEF RenderOperation, RenderAlter
  <2>3. CASE op.after.kind = "table"
    <3>1. \A does \in {"add", "retype", "drop columns"} : \A columns :
              IsAboutTouched(AlterStatement(does, op.after, columns), S, T)
      <4> SUFFICES ASSUME NEW does \in {"add", "retype", "drop columns"}, NEW columns
                   PROVE  IsAboutTouched(AlterStatement(does, op.after, columns), S, T)
        OBVIOUS
      <4>1. Fits(Statement(does, op.after, columns))
        BY <2>3 DEF Fits, Statement
      <4> QED BY <2>1, <4>1, TouchedFew DEF AlterStatement
    <3>2. IsAboutTouched(RenderAlter(op), S, T)
      BY <2>3, <3>1, TouchedConcat DEF RenderAlter
    <3> QED BY <1>3, <3>2, TouchedFew DEF RenderOperation
  <2> QED BY <1>3, <2>2, <2>3 DEF IsOn
<1>4. CASE op.kind = "replace"
  <2>1. /\ IsAboutTouched(<<DropStatement(op.before)>>, S, T)
        /\ IsAboutTouched(RenderCreate(op.after), S, T)
    BY <1>4, TouchedFew, CreateTouched DEF IsOn, DropStatement, Statement, Fits
  <2>2. IsAboutTouched(RenderReplace(op), S, T)
    BY <2>1, TouchedConcat DEF RenderReplace
  <2> QED BY <1>4, <2>2, TouchedFew DEF RenderOperation
<1> QED BY <1>1, <1>2, <1>3, <1>4 DEF IsOn

\* A definition of the catalog: as in one of the two schemas, or altered, which
\* only touched ones are.
IsKnown(x, f, t, T) ==
    /\ {"key", "grantId"} \subseteq DOMAIN x
    /\ x \in f \/ x.key \in T
    /\ \E y \in f \cup t : y.key = x.key /\ y.grantId = x.grantId

\* What goes with an object that is touched is touched.
LEMMA AttachedTouched ==
    ASSUME NEW f, NEW t, WellFormed(f, t), NEW T, SpreadsFrom(T, f, t),
           NEW x, IsKnown(x, f, t, T), x.key \in T,
           NEW p, IsKnown(p, f, t, T), x.key = p.table \/ IsAbout(p, x)
    PROVE  p.key \in T
<1> SUFFICES ASSUME p \in f PROVE x.key \in Uses(p, f)
  BY DEF IsKnown, SpreadsFrom
<1>1. CASE x.key = p.table
  BY <1>1 DEF Uses
<1>2. CASE IsAbout(p, x)
  <2>1. PICK y \in f \cup t : y.key = x.key /\ y.grantId = x.grantId
    BY DEF IsKnown
  <2>2. CommentsOn(p, {y.key}) \/ GrantsOn(p, {y.grantId})
    BY <1>2, <2>1 DEF IsAbout
  <2> QED BY <2>1, <2>2, AboutIsUsed
<1> QED BY <1>1, <1>2

LEMMA WithAttachedTouched ==
    ASSUME NEW f, NEW t, WellFormed(f, t), NEW T, SpreadsFrom(T, f, t),
           NEW catalog, \A x \in catalog : IsKnown(x, f, t, T),
           NEW x \in catalog, x.key \in T
    PROVE  \A p \in WithAttached(x, catalog) : p.key \in T
<1>1. \A y \in catalog : y.key \in T => \A p \in Attached(y, catalog) : p \in catalog /\ p.key \in T
  BY AttachedTouched DEF Attached
<1> QED BY <1>1 DEF WithAttached

\* A statement on a touched object leaves what is not touched in place, and makes
\* nothing that was not in one of the two schemas.
LEMMA ExecuteTouches ==
    ASSUME NEW f, NEW t, WellFormed(f, t), NEW T, SpreadsFrom(T, f, t),
           NEW catalog, \A x \in catalog : IsKnown(x, f, t, T),
           NEW s, s.o \in f \cup t, s.o.key \in T, CanExecute(s, catalog)
    PROVE  /\ \A x \in catalog \ Execute(s, catalog) : x.key \in T
           /\ \A x \in Execute(s, catalog) : IsKnown(x, f, t, T)
<1> DEFINE k == s.o.key
           old == At(catalog, k)
<1>1. Has(catalog, k) => old \in catalog /\ old.key \in T
  BY AtIs
<1>2. IsKnown(s.o, f, t, T)
  BY DEF IsKnown, WellFormed
<1>3. CASE s.does = "create"
  <2>1. Execute(s, catalog) \in
          {catalog, (catalog \ {old}) \cup {s.o}, catalog \cup {s.o}}
        /\ (Execute(s, catalog) = (catalog \ {old}) \cup {s.o} => Has(catalog, k) \/ s.o \in catalog \cup {s.o})
    BY <1>3 DEF Execute
  <2> QED BY <1>1, <1>2, <1>3 DEF Execute
<1>4. CASE s.does = "drop"
  <2>1. Has(catalog, k) => \A p \in WithAttached(old, catalog) : p.key \in T
    BY <1>1, WithAttachedTouched
  <2>2. Execute(s, catalog) = IF Has(catalog, k) THEN catalog \ WithAttached(old, catalog)
                              ELSE catalog
    BY <1>4 DEF Execute
  <2> HIDE DEF old, k
  <2> QED BY <2>1, <2>2
<1>5. CASE s.does = "add values"
  <2>1. Has(catalog, k)
    BY <1>5 DEF CanExecute
  <2>2. Execute(s, catalog) = (catalog \ {old}) \cup {s.o}
    BY <1>5 DEF Execute
  <2> HIDE DEF old, k
  <2> QED BY <1>1, <1>2, <2>1, <2>2
<1>6. CASE s.does \in {"add", "retype", "drop columns"}
  <2> DEFINE gone == GoneWithColumns(s, catalog)
             new == WithColumns(old, ColumnsAfter(s, old.columns))
  <2>1. Has(catalog, k)
    BY <1>6 DEF CanExecute, CanRetype, CanDropColumns
  <2>2. \A p \in gone : p.key \in T
    <3> SUFFICES ASSUME NEW columns, NEW p \in UsersOf(k, columns, catalog)
                 PROVE  \A q \in WithAttached(p, catalog) : q.key \in T
      BY DEF GoneWithColumns
    <3>1. p \in catalog /\ \E c : <<k, c>> \in p.cols
      BY DEF UsersOf, UsesColumn
    <3>2. p \in f => k \in Uses(p, f)
      BY <3>1 DEF WellFormed
    <3>3. p.key \in T
      BY <3>1, <3>2 DEF IsKnown, SpreadsFrom
    <3> QED BY <3>1, <3>3, WithAttachedTouched
  <2>3. old \in catalog /\ old.key \in T /\ IsKnown(old, f, t, T)
    BY <1>1, <2>1
  <2>4. new.key = old.key /\ new.grantId = old.grantId /\ DOMAIN new = DOMAIN old
    BY <2>3 DEF WithColumns, IsKnown
  <2>5. IsKnown(new, f, t, T)
    <3> HIDE DEF new, old
    <3> QED BY <2>3, <2>4 DEF IsKnown
  <2>6. Execute(s, catalog) = (catalog \ (gone \cup {old})) \cup {new}
    BY <1>6 DEF Execute, Altered
  <2> HIDE DEF gone, old, new
  <2> QED BY <2>2, <2>3, <2>5, <2>6
<1> QED BY <1>3, <1>4, <1>5, <1>6 DEF CanExecute

-----------------------------------------------------------------------------
(* The specification, once more *)

\* What the diff changes, and what depends on that, directly or not: the least set
\* that spreads.
Touched ==
    {k \in Keys(from \cup to) :
        \A keys \in SUBSET Keys(from \cup to) : Spreads(keys) => k \in keys}

\* It does spread.
LEMMA TouchedSpreads == SpreadsFrom(Touched, from, to) /\ Touched \in SUBSET Keys(from \cup to)
<1>1. Keys(from \ to) \cup Keys(to \ from) \subseteq Touched
  BY DEF Touched, Spreads, Keys
<1>2. ASSUME NEW o \in from, Uses(o, from) \cap Touched # {}
      PROVE  o.key \in Touched
  <2>1. o.key \in Keys(from \cup to)
    BY DEF Keys
  <2>2. PICK k \in Uses(o, from) : \A keys \in SUBSET Keys(from \cup to) : Spreads(keys) => k \in keys
    BY <1>2 DEF Touched
  <2>3. \A keys \in SUBSET Keys(from \cup to) : Spreads(keys) => o.key \in keys
    BY <2>2 DEF Spreads
  <2> QED BY <2>1, <2>3 DEF Touched
<1> QED BY <1>1, <1>2 DEF SpreadsFrom, Touched

\* The operations and the statements are about touched objects, and every definition
\* in the catalog is known; what is not in place is touched.
PlanTouch ==
    /\ WellFormed(from, to)
    /\ phase \in {"diff", "refused"} \/ Accepted
    /\ Accepted => AllOn(ops, from \cup to, Touched)
FileTouch ==
    /\ IsAboutTouched(file, from \cup to, Touched)
    /\ IsAboutTouched(companion, from \cup to, Touched)
    /\ at \in Nat
CatalogTouch ==
    /\ \A x \in db : IsKnown(x, from, to, Touched)
    /\ \A x \in from \ db : x.key \in Touched
TouchInv == PlanTouch /\ FileTouch /\ CatalogTouch

LEMMA TouchedSame == UNCHANGED diff => Touched' = Touched
BY DEF diff, Touched, Spreads

LEMMA TouchInit == Init => TouchInv
<1> SUFFICES ASSUME Init PROVE TouchInv
  OBVIOUS
<1>1. WellFormed(from, to)
  BY SchemasAssumption, KeysAssumption DEF Init, WellFormed, Unique, KindsAgree, Fields
<1>2. PlanTouch
  BY <1>1 DEF Init, PlanTouch, Accepted
<1>3. FileTouch
  BY TouchedFew DEF Init, FileTouch
<1>4. CatalogTouch
  BY <1>1 DEF Init, CatalogTouch, IsKnown, WellFormed
<1> QED BY <1>2, <1>3, <1>4 DEF TouchInv

LEMMA PlanTouchesOn == TouchInv /\ Plan => TouchInv'
<1> SUFFICES ASSUME TouchInv, Plan PROVE TouchInv'
  OBVIOUS
<1>1. AllOn(ops', from \cup to, Touched)
  BY PlanTouches, TouchedSpreads DEF TouchInv, PlanTouch, Plan
<1>2. UNCHANGED diff /\ Touched' = Touched
  BY TouchedSame DEF Plan
<1>3. PlanTouch'
  BY <1>1, <1>2 DEF TouchInv, PlanTouch, Plan, Accepted, diff
<1>4. FileTouch' /\ CatalogTouch'
  BY <1>2 DEF TouchInv, FileTouch, CatalogTouch, Plan, diff
<1> QED BY <1>3, <1>4 DEF TouchInv

LEMMA SortTouches == TouchInv /\ Sort => TouchInv'
<1> SUFFICES ASSUME TouchInv, Sort PROVE TouchInv'
  OBVIOUS
<1>1. UNCHANGED diff /\ Touched' = Touched
  BY TouchedSame DEF Sort
<1>2. PICK op \in ops : \/ /\ companion' = companion \o RenderOperation(op)
                            /\ file' = file
                         \/ /\ file' = file \o RenderOperation(op)
                            /\ companion' = companion
  BY DEF Sort, Ready
<1>3. IsAboutTouched(RenderOperation(op), from \cup to, Touched)
  BY RenderTouched DEF TouchInv, PlanTouch, Accepted, AllOn, Sort
<1>4. /\ IsAboutTouched(file', from \cup to, Touched)
      /\ IsAboutTouched(companion', from \cup to, Touched)
  BY <1>2, <1>3, TouchedConcat DEF TouchInv, FileTouch
<1>5. FileTouch'
  BY <1>1, <1>4 DEF TouchInv, FileTouch, Sort, diff
<1>6. PlanTouch' /\ CatalogTouch'
  BY <1>1 DEF TouchInv, PlanTouch, CatalogTouch, Sort, Accepted, diff
<1> QED BY <1>5, <1>6 DEF TouchInv

\* The statement that is run next.
LEMMA NextStatement ==
    ASSUME TouchInv, at < Len(Script)
    PROVE  LET s == Script[at + 1] IN s.o \in from \cup to /\ s.o.key \in Touched /\ Fits(s)
<1>1. IsAboutTouched(Script, from \cup to, Touched)
  BY TouchedConcat DEF TouchInv, FileTouch, Script
<1>2. PICK D : /\ Script \in Seq(D)
               /\ \A d \in D : d.o \in from \cup to /\ d.o.key \in Touched /\ Fits(d)
  BY <1>1 DEF IsAboutTouched
<1>3. at + 1 \in 1..Len(Script)
  BY <1>2 DEF TouchInv, FileTouch
<1>4. Script[at + 1] \in D
  BY <1>2, <1>3
<1> QED BY <1>2, <1>4

LEMMA RunTouches == TouchInv /\ Run => TouchInv'
<1> SUFFICES ASSUME TouchInv, Run PROVE TouchInv'
  OBVIOUS
<1>1. UNCHANGED diff /\ Touched' = Touched
  BY TouchedSame DEF Run
<1> DEFINE s == Script[at + 1]
<1>2. s.o \in from \cup to /\ s.o.key \in Touched
  BY NextStatement DEF Run
<1>3. /\ \A x \in db \ db' : x.key \in Touched
      /\ \A x \in db' : IsKnown(x, from, to, Touched)
  <2>1. db' = Execute(s, db) /\ CanExecute(s, db)
    BY DEF Run
  <2>2. WellFormed(from, to) /\ \A x \in db : IsKnown(x, from, to, Touched)
    BY DEF TouchInv, PlanTouch, CatalogTouch
  <2> HIDE DEF s
  <2> QED BY <1>2, <2>1, <2>2, ExecuteTouches, TouchedSpreads
<1>4. CatalogTouch'
  BY <1>1, <1>3 DEF TouchInv, CatalogTouch, diff
<1>5. PlanTouch' /\ FileTouch'
  BY <1>1 DEF TouchInv, PlanTouch, FileTouch, Run, Accepted, diff, plan
<1> QED BY <1>4, <1>5 DEF TouchInv

LEMMA OthersTouch == TouchInv /\ (Sorted \/ Verify \/ Fail \/ Finish \/ Rerun) => TouchInv'
<1> SUFFICES ASSUME TouchInv, Sorted \/ Verify \/ Fail \/ Finish \/ Rerun PROVE TouchInv'
  OBVIOUS
<1>1. UNCHANGED diff /\ Touched' = Touched
  BY TouchedSame DEF Sorted, Verify, Fail, Finish, Rerun
<1>2. PlanTouch'
  BY <1>1 DEF TouchInv, PlanTouch, Sorted, Verify, Fail, Finish, Rerun, Accepted, diff, plan
<1>3. FileTouch' /\ CatalogTouch'
  BY <1>1 DEF TouchInv, FileTouch, CatalogTouch, Sorted, Verify, Fail, Finish, Rerun, diff, plan
<1> QED BY <1>2, <1>3 DEF TouchInv

LEMMA TouchKept == TouchInv /\ [Next]_vars => TouchInv'
<1>1. ASSUME TouchInv, UNCHANGED vars PROVE TouchInv'
  <2>1. UNCHANGED diff /\ Touched' = Touched
    BY <1>1, TouchedSame DEF vars
  <2> QED BY <1>1, <2>1 DEF TouchInv, PlanTouch, FileTouch, CatalogTouch, Accepted, vars, diff, plan
<1> QED BY <1>1, PlanTouchesOn, SortTouches, RunTouches, OthersTouch DEF Next

\* No statement of any run of a migration takes away or alters an object that no change
\* concerns, directly or through what it depends on: not the dependents that the planner
\* drops to recreate them, not what is dropped along with its owner or its column, and
\* whatever order the operations were taken in and however often the run was stopped.
THEOREM UntouchedCorrect == Spec => []UntouchedStays
<1>1. Spec => []TouchInv
  BY TouchInit, TouchKept, PTL DEF Spec
<1>2. TouchInv => UntouchedStays
  BY DEF TouchInv, CatalogTouch, UntouchedStays, Touched, Keys
<1> QED BY <1>1, <1>2, PTL

-----------------------------------------------------------------------------
(* The catalog stays intact: PostgreSQL refuses to drop what something is    *)
(* recorded to need, and what a statement takes along, or defines otherwise, *)
(* leaves nothing without what it needs.                                     *)

\* What SchemasAssumption, KeysAssumption and ShapesAssumption say of two schemas.
Shaped(f, t) ==
    /\ WellFormed(f, t) /\ WellShaped(f \cup t)
    /\ \A o \in t : \A rc \in o.cols : rc[1] \in Uses(o, t)
    /\ \A o, p \in f \cup t : o.key = p.key => o.kind = p.kind
    /\ \A o \in f \cup t : Fields \subseteq DOMAIN o

\* A definition of the catalog: one of the schemas, or a table that was altered.
IsFrom(x, S) ==
    \E y \in S :
        /\ x.key = y.key /\ x.kind = y.kind /\ x.grantId = y.grantId
        /\ x.table = y.table /\ x.fn = y.fn /\ x.target = y.target
        /\ x.cols = y.cols /\ x.fkey = y.fkey
        /\ Fields \subseteq DOMAIN x
        /\ IF x.kind = "table" THEN x.deps = TypesOf(x.columns) ELSE x = y

\* What the schemas say of their definitions holds in the catalog.
Formed(D) ==
    /\ \A o \in D :
           /\ o.key # None
           /\ o.kind = "table" => o.deps = TypesOf(o.columns)
           /\ o.kind \in {"table", "enum"} =>
                  /\ o.table = None /\ o.fn = None /\ o.target = None
                  /\ o.cols = {} /\ o.fkey = {}
           /\ o.kind = "enum" => o.deps = {}
           /\ \A rc \in o.cols : rc = <<rc[1], rc[2]>>
    /\ \A o, p \in D :
           /\ o.table = p.key => p.table = None
           /\ p.kind \in {"comment", "grant"} => o.table # p.key /\ ~IsAbout(o, p)
           /\ \A rc \in o.cols :
                  p.key = rc[1] => /\ p.kind \in RelationKinds
                                   /\ p.key \in o.deps \cup {o.table, o.fn} \/ IsAbout(o, p)

LEMMA FromIsFormed ==
    ASSUME NEW f, NEW t, Shaped(f, t), NEW D, \A x \in D : IsFrom(x, f \cup t)
    PROVE  Formed(D)
<1> DEFINE S == f \cup t
<1>1. ASSUME NEW o \in D
      PROVE  /\ o.key # None
             /\ o.kind = "table" => o.deps = TypesOf(o.columns)
             /\ o.kind \in {"table", "enum"} =>
                  /\ o.table = None /\ o.fn = None /\ o.target = None
                  /\ o.cols = {} /\ o.fkey = {}
             /\ o.kind = "enum" => o.deps = {}
             /\ \A rc \in o.cols : rc = <<rc[1], rc[2]>>
  <2>1. PICK y \in S :
          /\ o.key = y.key /\ o.kind = y.kind /\ o.table = y.table /\ o.fn = y.fn
          /\ o.target = y.target /\ o.cols = y.cols /\ o.fkey = y.fkey
          /\ IF o.kind = "table" THEN o.deps = TypesOf(o.columns) ELSE o = y
    BY <1>1 DEF IsFrom
  <2>2. y.key # None
    BY DEF Shaped, WellShaped, Keys
  <2>3. /\ y.kind = "enum" => y.deps = {}
        /\ y.kind \in {"table", "enum"} => /\ {y.table, y.fn, y.target} = {None}
                                           /\ y.cols = {} /\ y.fkey = {}
        /\ \A rc \in y.cols : rc = <<rc[1], rc[2]>>
    BY DEF Shaped, WellShaped
  <2>4. y.kind \in {"table", "enum"} => y.table = None /\ y.fn = None /\ y.target = None
    BY <2>3
  <2> QED BY <2>1, <2>2, <2>3, <2>4
<1>2. ASSUME NEW o \in D, NEW p \in D
      PROVE  /\ o.table = p.key => p.table = None
             /\ p.kind \in {"comment", "grant"} => o.table # p.key /\ ~IsAbout(o, p)
             /\ \A rc \in o.cols :
                  p.key = rc[1] => /\ p.kind \in RelationKinds
                                   /\ p.key \in o.deps \cup {o.table, o.fn} \/ IsAbout(o, p)
  <2>1. PICK y \in S :
          /\ o.key = y.key /\ o.kind = y.kind /\ o.table = y.table /\ o.fn = y.fn
          /\ o.target = y.target /\ o.cols = y.cols
          /\ IF o.kind = "table" THEN o.deps = TypesOf(o.columns) ELSE o = y
    BY <1>2 DEF IsFrom
  <2>2. PICK z \in S :
          /\ p.key = z.key /\ p.kind = z.kind /\ p.grantId = z.grantId /\ p.table = z.table
    BY <1>2 DEF IsFrom
  <2>3. IsAbout(o, p) <=> IsAbout(y, z)
    BY <2>1, <2>2 DEF IsAbout, CommentsOn, GrantsOn
  <2>4. /\ y.table = z.key => z.table = None
        /\ z.kind \in {"comment", "grant"} => y.table # z.key /\ ~IsAbout(y, z)
        /\ \A rc \in y.cols : rc[1] = z.key => z.kind \in RelationKinds
    BY DEF Shaped, WellShaped
  <2>5. ASSUME NEW rc \in o.cols, p.key = rc[1]
        PROVE  p.key \in o.deps \cup {o.table, o.fn} \/ IsAbout(o, p)
    <3>1. y.kind # "table"
      BY <2>1, <2>5 DEF Shaped, WellShaped
    <3>2. o = y
      BY <2>1, <3>1
    <3>3. PICK schema \in {f, t} : y \in schema /\ rc[1] \in Uses(y, schema)
      <4>1. rc \in y.cols
        BY <2>1, <2>5
      <4> QED BY <4>1 DEF Shaped, WellFormed
    <3>4. ASSUME NEW q \in schema, IsAbout(y, q), q.key = rc[1] PROVE IsAbout(y, z)
      <4>1. q \in S /\ q.key = z.key
        BY <2>2, <2>5, <3>4
      <4>2. q.grantId = z.grantId
        BY <4>1 DEF Shaped, WellShaped
      <4> QED BY <3>4, <4>1, <4>2 DEF IsAbout
    <3> QED BY <2>3, <2>5, <3>2, <3>3, <3>4 DEF Uses
  <2> QED BY <2>1, <2>2, <2>3, <2>4, <2>5
<1> QED BY <1>1, <1>2 DEF Formed

\* What is left holds on to nothing that goes.
Detached(G, D) ==
    \A p \in D \ G : \A q \in G :
        /\ p.table # q.key /\ ~IsAbout(p, q)
        /\ Records(p) => q.key \notin p.deps \cup {p.fn}
        /\ p.fkey # {} => ~(IsKey(q) /\ q.cols = p.fkey)

LEMMA DetachedIntact ==
    ASSUME NEW D, Formed(D), Intact(D), NEW G \in SUBSET D, Detached(G, D)
    PROVE  Intact(D \ G)
<1>1. \A o, p \in D : o.key = p.key => o = p
  BY DEF Intact
<1> SUFFICES ASSUME NEW o \in D \ G PROVE Upheld(o, D \ G)
  BY <1>1 DEF Intact
<1>2. Upheld(o, D)
  BY DEF Intact
<1>3. {o.table} \cup (IF Records(o) THEN o.deps \cup {o.fn} ELSE {}) \subseteq Keys(D \ G) \cup {None}
  <2> SUFFICES ASSUME NEW k \in {o.table} \cup (IF Records(o) THEN o.deps \cup {o.fn} ELSE {}), k # None
               PROVE  k \in Keys(D \ G)
    OBVIOUS
  <2>1. PICK q \in D : q.key = k
    BY <1>2 DEF Upheld, Keys
  <2>2. q \notin G
    BY <2>1 DEF Detached
  <2> QED BY <2>1, <2>2 DEF Keys
<1>4. o.target # None => \E p \in D \ G : IsAbout(o, p)
  BY <1>2 DEF Upheld, Detached
<1>5. ASSUME Records(o), NEW rc \in o.cols
      PROVE  Has(D \ G, rc[1]) /\ rc[2] \in ColumnsOf(At(D \ G, rc[1]))
  <2>1. Has(D, rc[1]) /\ rc[2] \in ColumnsOf(At(D, rc[1]))
    BY <1>2, <1>5 DEF Upheld
  <2> DEFINE q == At(D, rc[1])
  <2>2. q \in D /\ q.key = rc[1]
    BY <2>1, AtIs
  <2> HIDE DEF q
  <2>3. q.key \in o.deps \cup {o.table, o.fn} \/ IsAbout(o, q)
    BY <2>2 DEF Formed
  <2>4. q \notin G
    BY <1>5, <2>3 DEF Detached
  <2>5. At(D \ G, rc[1]) = q /\ Has(D \ G, rc[1])
    BY <1>1, <2>2, <2>4 DEF At, Has, Keys
  <2> QED BY <2>1, <2>5 DEF q
<1>6. o.fkey # {} => \E k \in D \ G : IsKey(k) /\ k.cols = o.fkey
  BY <1>2 DEF Upheld, Detached
<1> QED BY <1>3, <1>4, <1>5, <1>6 DEF Upheld

\* What is dropped along with an object takes along what is attached to it.
LEMMA DroppedDetached ==
    ASSUME NEW D, Formed(D), NEW x \in D, Blocking(x, D) = {}
    PROVE  Detached(WithAttached(x, D), D)
<1> DEFINE W == WithAttached(x, D)
<1>1. ASSUME NEW p \in D, NEW q \in W, p.table = q.key \/ IsAbout(p, q) PROVE p \in W
  <2>1. CASE q = x
    BY <1>1, <2>1 DEF WithAttached, Attached
  <2>2. CASE q \in Attached(x, D)
    BY <1>1, <2>2 DEF WithAttached, Attached
  <2>3. ASSUME NEW y \in Attached(x, D), q \in Attached(y, D) PROVE FALSE
    <3>1. y \in D /\ q \in D /\ (y.table = x.key \/ IsAbout(y, x)) /\ (q.table = y.key \/ IsAbout(q, y))
      BY <2>3 DEF Attached
    <3>2. y.kind \notin {"comment", "grant"}
      BY <3>1 DEF Formed
    <3>3. ~IsAbout(y, x)
      BY <3>2 DEF IsAbout, CommentsOn, GrantsOn
    <3>4. q.table # y.key
      BY <3>1, <3>3 DEF Formed
    <3>5. q.kind \in {"comment", "grant"}
      BY <3>1, <3>4 DEF IsAbout, CommentsOn, GrantsOn
    <3> QED BY <1>1, <3>1, <3>5 DEF Formed
  <2> QED BY <2>1, <2>2, <2>3 DEF WithAttached
<1>2. ASSUME NEW p \in D \ W, NEW q \in W
      PROVE  /\ Records(p) => q.key \notin p.deps \cup {p.fn}
             /\ p.fkey # {} => ~(IsKey(q) /\ q.cols = p.fkey)
  <2>1. p \notin Blocking(x, D)
    OBVIOUS
  <2>2. q.key \in Keys(W)
    BY DEF Keys
  <2> HIDE DEF W
  <2> QED BY <2>1, <2>2 DEF Blocking, W
<1> HIDE DEF W
<1> QED BY <1>1, <1>2 DEF Detached, W

\* What an object needs to be created covers what is recorded of it.
LEMMA SatisfiedIsUpheld ==
    ASSUME NEW D, NEW o, Satisfied(o, D)
    PROVE  Upheld(o, D)
<1>1. Records(o) => Resolves(o)
  BY DEF Records, Resolves
<1>2. {o.table} \cup (IF Records(o) THEN o.deps \cup {o.fn} ELSE {}) \subseteq Keys(D) \cup {None}
  BY <1>1 DEF Satisfied, Needs
<1> QED BY <1>1, <1>2 DEF Satisfied, Upheld

\* What an object is recorded to need is still there when another has come.
LEMMA MoreIntact ==
    ASSUME NEW D, Intact(D), NEW o, ~Has(D, o.key), Satisfied(o, D)
    PROVE  Intact(D \cup {o})
<1> DEFINE E == D \cup {o}
<1>1. \A x, p \in E : x.key = p.key => x = p
  BY DEF Intact, Has, Keys
<1>2. \A k : Has(D, k) => Has(E, k) /\ At(E, k) = At(D, k)
  <2> SUFFICES ASSUME NEW k, Has(D, k) PROVE Has(E, k) /\ At(E, k) = At(D, k)
    OBVIOUS
  <2>1. At(D, k) \in E /\ At(D, k).key = k
    BY AtIs
  <2>2. Has(E, k)
    BY <2>1 DEF Has, Keys
  <2>3. At(E, k) \in E /\ At(E, k).key = k
    BY <2>2, AtIs
  <2> QED BY <1>1, <2>1, <2>2, <2>3
<1>3. Keys(D) \subseteq Keys(E)
  BY DEF Keys
<1>4. \A x \in D : Upheld(x, E)
  <2> SUFFICES ASSUME NEW x \in D PROVE Upheld(x, E)
    OBVIOUS
  <2>1. Upheld(x, D)
    BY DEF Intact
  <2> QED BY <1>2, <1>3, <2>1 DEF Upheld
<1>5. Upheld(o, E)
  <2>1. Upheld(o, D)
    BY SatisfiedIsUpheld
  <2> QED BY <1>2, <1>3, <2>1 DEF Upheld
<1> QED BY <1>1, <1>4, <1>5 DEF Intact

\* Another definition of an object that is no key, with every column that is used.
LEMMA OtherIntact ==
    ASSUME NEW D, Intact(D), NEW old \in D, ~IsKey(old),
           NEW new, new.key = old.key, new.grantId = old.grantId, Upheld(new, D),
           \A x \in D \cup {new} : \A rc \in x.cols :
               Records(x) /\ rc[1] = old.key /\ rc[2] \in ColumnsOf(old) => rc[2] \in ColumnsOf(new)
    PROVE  Intact((D \ {old}) \cup {new})
<1> DEFINE E == (D \ {old}) \cup {new}
<1>1. \A x, p \in D : x.key = p.key => x = p
  BY DEF Intact
<1>2. \A x, p \in E : x.key = p.key => x = p
  BY <1>1
<1>3. Keys(E) = Keys(D)
  BY DEF Keys
<1>4. ASSUME NEW k, Has(D, k)
      PROVE  /\ Has(E, k)
             /\ k # old.key => At(E, k) = At(D, k)
             /\ k = old.key => At(D, k) = old /\ At(E, k) = new
  <2>1. Has(E, k)
    BY <1>3, <1>4 DEF Has
  <2>2. At(D, k) \in D /\ At(D, k).key = k
    BY <1>4, AtIs
  <2>3. At(E, k) \in E /\ At(E, k).key = k
    BY <2>1, AtIs
  <2> QED BY <1>1, <1>2, <2>1, <2>2, <2>3
<1>5. ASSUME NEW x \in D \cup {new} PROVE Upheld(x, E)
  <2>1. Upheld(x, D)
    BY DEF Intact
  <2>2. {x.table} \cup (IF Records(x) THEN x.deps \cup {x.fn} ELSE {}) \subseteq Keys(E) \cup {None}
    BY <1>3, <2>1 DEF Upheld
  <2>3. x.target # None => \E p \in E : IsAbout(x, p)
    <3>1. IsAbout(x, old) => IsAbout(x, new)
      BY DEF IsAbout
    <3> QED BY <2>1, <3>1 DEF Upheld
  <2>4. Records(x) => \A rc \in x.cols : Has(E, rc[1]) /\ rc[2] \in ColumnsOf(At(E, rc[1]))
    <3> SUFFICES ASSUME Records(x), NEW rc \in x.cols
                 PROVE  Has(E, rc[1]) /\ rc[2] \in ColumnsOf(At(E, rc[1]))
      OBVIOUS
    <3>1. Has(D, rc[1]) /\ rc[2] \in ColumnsOf(At(D, rc[1]))
      BY <2>1 DEF Upheld
    <3>2. CASE rc[1] = old.key
      BY <1>4, <3>1, <3>2
    <3>3. CASE rc[1] # old.key
      BY <1>4, <3>1, <3>3
    <3> QED BY <3>2, <3>3
  <2>5. x.fkey # {} => \E k \in E : IsKey(k) /\ k.cols = x.fkey
    BY <2>1 DEF Upheld
  <2> QED BY <2>2, <2>3, <2>4, <2>5 DEF Upheld
<1> QED BY <1>2, <1>5 DEF Intact

\* The catalog is intact, and all of it comes from the schemas f and t.
Kept(D, f, t) == Intact(D) /\ \A x \in D : IsFrom(x, f \cup t)

LEMMA OwnIsFrom ==
    ASSUME NEW f, NEW t, Shaped(f, t), NEW o \in f \cup t
    PROVE  IsFrom(o, f \cup t)
BY DEF Shaped, WellShaped, IsFrom

LEMMA FromAgrees ==
    ASSUME NEW f, NEW t, Shaped(f, t), NEW D, Kept(D, f, t),
           NEW x \in D, NEW o, o \in f \cup t, x.key = o.key
    PROVE  x.kind = o.kind /\ x.grantId = o.grantId
<1>0. IsFrom(x, f \cup t)
  BY DEF Kept
<1>1. PICK y \in f \cup t : x.key = y.key /\ x.kind = y.kind /\ x.grantId = y.grantId
  BY <1>0 DEF IsFrom
<1>2. y.kind = o.kind
  BY <1>1 DEF Shaped
<1>3. y.grantId = o.grantId
  BY <1>1 DEF Shaped, WellShaped
<1> QED BY <1>1, <1>2, <1>3

LEMMA CreateIntact ==
    ASSUME NEW f, NEW t, Shaped(f, t), NEW D, Kept(D, f, t),
           NEW s, s.o \in f \cup t, s.does = "create", CanExecute(s, D)
    PROVE  Kept(Execute(s, D), f, t)
<1> DEFINE o == s.o
           old == At(D, o.key)
<1>1. IsFrom(o, f \cup t)
  BY OwnIsFrom
<1>2. CanCreate(o, D)
  BY DEF CanExecute
<1>3. CASE ~Has(D, o.key)
  <2>1. Execute(s, D) = D \cup {o}
    BY <1>3 DEF Execute
  <2>2. Intact(D \cup {o})
    BY <1>2, <1>3, MoreIntact DEF CanCreate, Kept
  <2> QED BY <1>1, <2>1, <2>2 DEF Kept
<1>4. CASE Has(D, o.key) /\ o.kind \in GuardedByExistence
  BY <1>4 DEF Execute
<1>5. CASE Has(D, o.key) /\ o.kind \notin GuardedByExistence
  <2>1. Execute(s, D) = (D \ {old}) \cup {o}
    BY <1>5 DEF Execute
  <2>2. old \in D /\ old.key = o.key
    BY <1>5, AtIs
  <2>3. old.kind = o.kind /\ old.grantId = o.grantId
    <3> HIDE DEF old
    <3> QED BY <2>2, FromAgrees
  <2>4. /\ Satisfied(o, D)
        /\ o.kind = "view" => Extends(o.out, old.out)
    BY <1>2, <1>5 DEF CanCreate
  <2>5. ~IsKey(old)
    BY <1>5, <2>3 DEF IsKey, GuardedByExistence
  <2>6. Upheld(o, D)
    BY <2>4, SatisfiedIsUpheld
  <2>7. ASSUME NEW x \in D \cup {o}, NEW rc \in x.cols, rc[1] = old.key, rc[2] \in ColumnsOf(old)
        PROVE  rc[2] \in ColumnsOf(o)
    <3>1. PICK y \in f \cup t : x.cols = y.cols
      BY <1>1, <2>7 DEF Kept, IsFrom
    <3>2. o.kind \in RelationKinds
      BY <2>2, <2>7, <3>1 DEF Shaped, WellShaped
    <3>3. o.kind = "view"
      BY <1>5, <3>2 DEF RelationKinds, GuardedByExistence
    <3>4. o.out \in Seq(RangeOf(o.out)) /\ old.out \in Seq(RangeOf(old.out))
      BY <2>2, <2>3, <3>3 DEF Kept, IsFrom, Shaped, WellShaped
    <3>5. RangeOf(old.out) \subseteq RangeOf(o.out)
      <4> DEFINE left == old.out
                 right == o.out
      <4>1. Len(left) \in Nat /\ Len(right) \in Nat /\ Extends(right, left)
        BY <2>4, <3>3, <3>4
      <4> HIDE DEF left, right
      <4>2. ASSUME NEW i \in 1..Len(left) PROVE left[i] \in RangeOf(right)
        <5>1. i \in 1..Len(right) /\ right[i] = left[i]
          BY <4>1, <4>2 DEF Extends
        <5> QED BY <5>1 DEF RangeOf
      <4>3. RangeOf(left) \subseteq RangeOf(right)
        BY <4>2 DEF RangeOf
      <4> QED BY <4>3 DEF left, right
    <3> QED BY <2>3, <2>7, <3>3, <3>5 DEF ColumnsOf
  <2>8. Intact((D \ {old}) \cup {o})
    <3> HIDE DEF o, old
    <3> QED BY <2>2, <2>3, <2>5, <2>6, <2>7, OtherIntact DEF Kept
  <2> QED BY <1>1, <2>1, <2>8 DEF Kept
<1> QED BY <1>3, <1>4, <1>5

LEMMA DropIntact ==
    ASSUME NEW f, NEW t, Shaped(f, t), NEW D, Kept(D, f, t),
           NEW s, s.does = "drop", CanExecute(s, D)
    PROVE  Kept(Execute(s, D), f, t)
<1> DEFINE old == At(D, s.o.key)
           gone == WithAttached(old, D)
<1>1. CASE Has(D, s.o.key)
  <2>1. old \in D /\ Blocking(old, D) = {}
    BY <1>1, AtIs DEF CanExecute, CanDrop
  <2>2. Formed(D)
    BY FromIsFormed DEF Kept
  <2>3. Detached(gone, D) /\ gone \in SUBSET D
    BY <2>1, <2>2, DroppedDetached DEF WithAttached, Attached
  <2>4. Execute(s, D) = D \ gone
    BY <1>1 DEF Execute
  <2> HIDE DEF gone
  <2> QED BY <2>2, <2>3, <2>4, DetachedIntact DEF Kept
<1>2. CASE ~Has(D, s.o.key)
  BY <1>2 DEF Execute
<1> QED BY <1>1, <1>2

LEMMA EnumIntact ==
    ASSUME NEW f, NEW t, Shaped(f, t), NEW D, Kept(D, f, t),
           NEW o, o \in f \cup t, o.kind = "enum", Has(D, o.key)
    PROVE  Kept((D \ {At(D, o.key)}) \cup {o}, f, t)
<1> DEFINE old == At(D, o.key)
<1>2. old \in D /\ old.key = o.key
  BY AtIs
<1>3. old.kind = o.kind /\ old.grantId = o.grantId
  <2> HIDE DEF old
  <2> QED BY <1>2, FromAgrees
<1>4. ~IsKey(old)
  BY <1>3 DEF IsKey
<1>5. /\ o.table = None /\ o.fn = None /\ o.target = None
      /\ o.deps = {} /\ o.cols = {} /\ o.fkey = {}
  <2>1. {o.table, o.fn, o.target} = {None} /\ o.deps = {} /\ o.cols = {} /\ o.fkey = {}
    BY <1>3 DEF Shaped, WellShaped
  <2> QED BY <2>1
<1>6. Upheld(o, D)
  BY <1>5 DEF Upheld
<1>7. ASSUME NEW x \in D \cup {o}, NEW rc \in x.cols PROVE rc[1] # old.key
  <2>1. CASE x = o
    BY <1>5, <1>7, <2>1
  <2>2. CASE x \in D
    <3>1. Formed(D)
      BY FromIsFormed DEF Kept
    <3>2. old.kind \notin RelationKinds
      BY <1>3 DEF RelationKinds
    <3> QED BY <1>2, <1>7, <2>2, <3>1, <3>2 DEF Formed
  <2> QED BY <2>1, <2>2
<1>9. Intact((D \ {old}) \cup {o})
  <2> HIDE DEF old
  <2> QED BY <1>2, <1>3, <1>4, <1>6, <1>7, OtherIntact DEF Kept
<1> QED BY <1>9, OwnIsFrom DEF Kept

\* A table with other columns, after what used the ones it lost has gone.
LEMMA AlteredIntact ==
    ASSUME NEW f, NEW t, Shaped(f, t), NEW D, Kept(D, f, t),
           NEW old \in D, old.kind = "table",
           NEW gone \in SUBSET D, Detached(gone, D), old \notin gone,
           NEW columns, TypesOf(columns) \subseteq Keys(D \ gone) \cup {None},
           \A x \in D \ gone : \A rc \in x.cols :
               Records(x) /\ rc[1] = old.key /\ rc[2] \in DOMAIN old.columns
               => rc[2] \in DOMAIN columns
    PROVE  Kept(Altered(old, gone, columns, D), f, t)
<1> DEFINE new == WithColumns(old, columns)
           left == D \ gone
<1>1. IsFrom(old, f \cup t)
  BY DEF Kept
<1>2. PICK y \in f \cup t : 
        /\ old.key = y.key /\ old.kind = y.kind /\ old.grantId = y.grantId
        /\ old.table = y.table /\ old.fn = y.fn /\ old.target = y.target
        /\ old.cols = y.cols /\ old.fkey = y.fkey
        /\ Fields \subseteq DOMAIN old
  BY <1>1 DEF IsFrom
<1>3. /\ new.key = old.key /\ new.kind = old.kind /\ new.grantId = old.grantId
      /\ new.table = old.table /\ new.fn = old.fn /\ new.target = old.target
      /\ new.cols = old.cols /\ new.fkey = old.fkey
      /\ new.columns = columns /\ new.deps = TypesOf(columns)
      /\ DOMAIN new = DOMAIN old
  BY <1>2 DEF WithColumns, Fields
<1>4. /\ old.table = None /\ old.fn = None /\ old.target = None
      /\ old.cols = {} /\ old.fkey = {}
  <2>1. {y.table, y.fn, y.target} = {None} /\ y.cols = {} /\ y.fkey = {}
    BY <1>2 DEF Shaped, WellShaped
  <2> QED BY <1>2, <2>1
<1> HIDE DEF new
<1>5. IsFrom(new, f \cup t)
  BY <1>2, <1>3 DEF IsFrom
<1>6. Formed(D)
  BY FromIsFormed DEF Kept
<1>7. Intact(left)
  BY <1>6, DetachedIntact DEF Kept
<1>8. ~IsKey(old) /\ old \in left
  BY DEF IsKey
<1>9. Upheld(new, left)
  BY <1>3, <1>4 DEF Upheld
<1>10. ASSUME NEW x \in left \cup {new}, NEW rc \in x.cols,
              Records(x), rc[1] = old.key, rc[2] \in ColumnsOf(old)
       PROVE  rc[2] \in ColumnsOf(new)
  <2>1. x \in left
    BY <1>3, <1>4, <1>10
  <2>2. rc[2] \in DOMAIN old.columns
    BY <1>10 DEF ColumnsOf
  <2>3. rc[2] \in DOMAIN columns
    BY <1>10, <2>1, <2>2
  <2> QED BY <1>3, <2>3 DEF ColumnsOf
<1>11. Intact((left \ {old}) \cup {new})
  <2> HIDE DEF left
  <2> QED BY <1>3, <1>7, <1>8, <1>9, <1>10, OtherIntact
<1>12. Altered(old, gone, columns, D) = (left \ {old}) \cup {new}
  BY DEF Altered, new
<1> QED BY <1>5, <1>11, <1>12 DEF Kept

\* Columns are added, or have other types.
LEMMA MoreColumnsIntact ==
    ASSUME NEW f, NEW t, Shaped(f, t), NEW D, Kept(D, f, t),
           NEW s, s.o \in f \cup t, s.does \in {"add", "retype"}, Fits(s), CanExecute(s, D)
    PROVE  Kept(Execute(s, D), f, t)
<1> DEFINE old == At(D, s.o.key)
           columns == ColumnsAfter(s, old.columns)
<1>1. Has(D, s.o.key) /\ TypesNamed(s) \subseteq Keys(D)
  BY DEF CanExecute, CanRetype
<1>2. old \in D /\ old.key = s.o.key
  BY <1>1, AtIs
<1>3. old.kind = "table"
  <2>1. s.o.kind = "table"
    BY DEF Fits
  <2>2. old.kind = s.o.kind
    <3> HIDE DEF old
    <3> QED BY <1>2, FromAgrees
  <2> QED BY <2>1, <2>2
<1>4. Detached({}, D)
  BY DEF Detached
<1>5. /\ DOMAIN old.columns \subseteq DOMAIN columns
      /\ TypesOf(columns) \subseteq TypesOf(old.columns) \cup TypesNamed(s)
  BY DEF ColumnsAfter, TypesOf, TypesNamed
<1>6. TypesOf(old.columns) \subseteq Keys(D) \cup {None}
  <2>1. IsFrom(old, f \cup t) /\ Upheld(old, D)
    BY <1>2 DEF Kept, Intact
  <2>2. Records(old)
    BY <1>3 DEF Records, RoutineKinds
  <2> QED BY <1>3, <2>1, <2>2 DEF IsFrom, Upheld
<1>7. Execute(s, D) = Altered(old, {}, columns, D)
  BY DEF Execute, GoneWithColumns
<1> HIDE DEF old, columns
<1> DEFINE gone == {}
<1>8. gone \in SUBSET D /\ D \ gone = D /\ old \notin gone
  OBVIOUS
<1>9. TypesOf(columns) \subseteq Keys(D \ gone) \cup {None}
  BY <1>1, <1>5, <1>6, <1>8
<1>10. \A x \in D \ gone : \A rc \in x.cols :
           Records(x) /\ rc[1] = old.key /\ rc[2] \in DOMAIN old.columns => rc[2] \in DOMAIN columns
  BY <1>5
<1> HIDE DEF gone
<1>11. Kept(Altered(old, gone, columns, D), f, t)
  BY <1>2, <1>3, <1>4, <1>8, <1>9, <1>10, AlteredIntact DEF gone
<1> QED BY <1>7, <1>11 DEF gone

\* Columns are dropped, with the indexes, constraints and comments on them.
LEMMA FewerColumnsIntact ==
    ASSUME NEW f, NEW t, Shaped(f, t), NEW D, Kept(D, f, t),
           NEW o, o \in f \cup t, o.kind = "table", NEW lost,
           CanDropColumns(o.key, lost, D)
    PROVE  LET old == At(D, o.key)
               users == UsersOf(o.key, lost \cap DOMAIN old.columns, D)
               gone == UNION {WithAttached(p, D) : p \in users}
           IN  Kept(Altered(old, gone, [c \in DOMAIN old.columns \ lost |-> old.columns[c]], D), f, t)
<1> DEFINE old == At(D, o.key)
           dropped == lost \cap DOMAIN old.columns
           users == UsersOf(o.key, dropped, D)
           gone == UNION {WithAttached(p, D) : p \in users}
           columns == [c \in DOMAIN old.columns \ lost |-> old.columns[c]]
<1>1. old \in D /\ old.key = o.key
  BY AtIs DEF CanDropColumns
<1>2. old.kind = "table" /\ IsFrom(old, f \cup t)
  <2>1. old.kind = o.kind
    <3> HIDE DEF old
    <3> QED BY <1>1, FromAgrees
  <2> QED BY <1>1, <2>1 DEF Kept
<1>3. Formed(D)
  BY FromIsFormed DEF Kept
<1>4. old.table = None /\ old.cols = {}
  BY <1>1, <1>2, <1>3 DEF Formed
<1>5. \A p \in users : p \in D /\ Detached(WithAttached(p, D), D)
  <2>1. \A p \in users : p \in D /\ Blocking(p, D) = {}
    BY DEF CanDropColumns, UsersOf
  <2> HIDE DEF users
  <2> QED BY <1>3, <2>1, DroppedDetached
<1>6. Detached(gone, D) /\ gone \in SUBSET D
  <2> HIDE DEF users
  <2> QED BY <1>5 DEF Detached, WithAttached, Attached
<1>7. old \notin gone
  <2> SUFFICES ASSUME NEW p \in users, old \in WithAttached(p, D) PROVE FALSE
    OBVIOUS
  <2>1. old # p
    BY <1>4 DEF UsersOf, UsesColumn
  <2>2. PICK q \in D : old.table = q.key \/ IsAbout(old, q)
    BY <1>5, <2>1 DEF WithAttached, Attached
  <2>3. ~IsAbout(old, q)
    BY <1>2 DEF IsAbout, CommentsOn, GrantsOn
  <2> QED BY <1>3, <1>4, <2>2, <2>3 DEF Formed
<1>8. TypesOf(columns) \subseteq Keys(D \ gone) \cup {None}
  <2>1. Intact(D \ gone)
    <3> HIDE DEF gone
    <3> QED BY <1>3, <1>6, DetachedIntact DEF Kept
  <2>2. Upheld(old, D \ gone)
    BY <1>1, <1>7, <2>1 DEF Intact
  <2>3. Records(old)
    BY <1>2 DEF Records, RoutineKinds
  <2>4. old.deps \subseteq Keys(D \ gone) \cup {None}
    BY <2>2, <2>3 DEF Upheld
  <2>5. old.deps = TypesOf(old.columns)
    BY <1>2 DEF IsFrom
  <2>6. TypesOf(columns) \subseteq TypesOf(old.columns)
    BY DEF TypesOf
  <2> QED BY <2>4, <2>5, <2>6
<1>9. ASSUME NEW x \in D \ gone, NEW rc \in x.cols,
             Records(x), rc[1] = old.key, rc[2] \in DOMAIN old.columns
      PROVE  rc[2] \in DOMAIN columns
  <2>1. rc = <<rc[1], rc[2]>>
    BY <1>3 DEF Formed
  <2>2. x \notin users
    BY <1>9 DEF WithAttached
  <2>3. rc[2] \notin dropped
    BY <1>1, <1>9, <2>1, <2>2 DEF UsersOf, UsesColumn
  <2> QED BY <1>9, <2>3
<1> HIDE DEF gone, columns, old
<1>10. Kept(Altered(old, gone, columns, D), f, t)
  BY <1>1, <1>2, <1>6, <1>7, <1>8, <1>9, AlteredIntact
<1> QED BY <1>10 DEF gone, columns, old

LEMMA ExecuteIntact ==
    ASSUME NEW f, NEW t, Shaped(f, t), NEW D, Kept(D, f, t),
           NEW s, s.o \in f \cup t, Fits(s), CanExecute(s, D)
    PROVE  Kept(Execute(s, D), f, t)
<1>1. CASE s.does = "create"
  BY <1>1, CreateIntact
<1>2. CASE s.does = "drop"
  BY <1>2, DropIntact
<1>3. CASE s.does \in {"add", "retype"}
  BY <1>3, MoreColumnsIntact
<1>4. CASE s.does = "add values"
  <2>1. s.o.kind = "enum" /\ Has(D, s.o.key)
    BY <1>4 DEF Fits, CanExecute
  <2>2. Execute(s, D) = (D \ {At(D, s.o.key)}) \cup {s.o}
    BY <1>4 DEF Execute
  <2> QED BY <2>1, <2>2, EnumIntact
<1>5. CASE s.does = "drop columns"
  <2>1. s.o.kind = "table" /\ CanDropColumns(s.o.key, s.columns, D)
    BY <1>5 DEF Fits, CanExecute
  <2> DEFINE old == At(D, s.o.key)
             users == UsersOf(s.o.key, s.columns \cap DOMAIN old.columns, D)
  <2>2. GoneWithColumns(s, D) = UNION {WithAttached(p, D) : p \in users}
    BY <1>5 DEF GoneWithColumns
  <2>3. ColumnsAfter(s, old.columns) = [c \in DOMAIN old.columns \ s.columns |-> old.columns[c]]
    BY <1>5 DEF ColumnsAfter
  <2>4. Execute(s, D) = Altered(old, GoneWithColumns(s, D), ColumnsAfter(s, old.columns), D)
    BY <1>5 DEF Execute
  <2>5. Kept(Altered(old, UNION {WithAttached(p, D) : p \in users},
                     [c \in DOMAIN old.columns \ s.columns |-> old.columns[c]], D), f, t)
    BY <2>1, FewerColumnsIntact, Zenon
  <2> HIDE DEF old, users
  <2> QED BY <2>2, <2>3, <2>4, <2>5, Zenon
<1> QED BY <1>1, <1>2, <1>3, <1>4, <1>5 DEF CanExecute

-----------------------------------------------------------------------------
(* No two operations of a plan have the same key. *)

Distinct(operations) ==
    /\ IsFiniteSet(operations)
    /\ \A op, p \in operations : Id(op) = Id(p) => op = p

\* The image of a finite set; nothing is lost of it when the function is injective.
LEMMA ImageFinite ==
    ASSUME NEW S, IsFiniteSet(S), NEW g, S \subseteq DOMAIN g
    PROVE  /\ IsFiniteSet({g[x] : x \in S})
           /\ (\A x, y \in S : g[x] = g[y] => x = y) =>
                 Cardinality({g[x] : x \in S}) = Cardinality(S)
<1> DEFINE I == {g[x] : x \in S}
           h == [x \in S |-> g[x]]
<1>1. h \in Surjection(S, I)
  BY DEF Surjection
<1>2. (\A x, y \in S : g[x] = g[y] => x = y) => h \in Injection(S, I)
  BY DEF Injection, IsInjective
<1> HIDE DEF h, I
<1>3. IsFiniteSet(I) /\ (h \in Injection(S, I) => Cardinality(I) = Cardinality(S))
  BY <1>1, FS_Surjection
<1> QED BY <1>2, <1>3 DEF I

\* Marking and proving an operation leaves its key alone.
LEMMA IdKept ==
    ASSUME NEW op
    PROVE  /\ \A keys : Id(Mark(op, keys)) = Id(op)
           /\ \A operations, f, t : Id(Proved(op, operations, f, t)) = Id(op)
BY DEF Mark, Proved, Id, Subject

LEMMA CreateId ==
    ASSUME NEW o, o # None, NEW c
    PROVE  /\ Id(Create(o, c)) = <<o.key, FALSE>>
           /\ Id(Drop(o, c)) = <<o.key, FALSE>>
           /\ Id(PreDrop(o, c)) = <<o.key, TRUE>>
BY DEF Create, Drop, PreDrop, MakeOperation, Id, Subject

LEMMA ChangedId ==
    ASSUME NEW before, NEW after, after # None, NEW c
    PROVE  Id(ChangedOperation(before, after, c)) = <<after.key, FALSE>>
BY DEF ChangedOperation, AddEnumValues, AlterTable, Replace, Id, Subject

\* Operations with the keys of the definitions they are made from.
LEMMA MadeDistinct ==
    ASSUME NEW S, IsFiniteSet(S), Unique(S), NEW g, S \subseteq DOMAIN g,
           NEW pre, \A x \in S : Id(g[x]) = <<x.key, pre>>
    PROVE  /\ Distinct({g[x] : x \in S})
           /\ \A op \in {g[x] : x \in S} : \E x \in S : Id(op) = <<x.key, pre>>
<1>1. ASSUME NEW x \in S, NEW y \in S, Id(g[x]) = Id(g[y]) PROVE x = y
  <2>1. <<x.key, pre>> = <<y.key, pre>>
    BY <1>1
  <2>2. x.key = y.key
    BY <2>1
  <2> QED BY <2>2 DEF Unique
<1>2. IsFiniteSet({g[x] : x \in S})
  BY ImageFinite
<1> QED BY <1>1, <1>2 DEF Distinct

LEMMA DistinctUnion ==
    ASSUME NEW left, NEW right, Distinct(left), Distinct(right),
           \A op \in left, p \in right : Id(op) # Id(p)
    PROVE  Distinct(left \cup right)
<1>1. IsFiniteSet(left \cup right)
  BY FS_Union DEF Distinct
<1>2. ASSUME NEW op \in left \cup right, NEW p \in left \cup right, Id(op) = Id(p) PROVE op = p
  BY <1>2 DEF Distinct
<1> QED BY <1>1, <1>2 DEF Distinct

LEMMA DirectDistinct ==
    ASSUME NEW f, NEW t, WellFormed(f, t), None \notin f \cup t, NEW c
    PROVE  Distinct(ChangedAndDropped(f, t, c) \cup Created(f, t, c))
<1> DEFINE kept == {p \in f : Has(t, p.key) /\ At(t, p.key) # p}
           gone == {p \in f : ~Has(t, p.key) /\ ~DroppedWithOwner(p, f, t)}
           new == {p \in t : ~Has(f, p.key)}
           change == [o \in f |-> ChangedOperation(o, At(t, o.key), c)]
           drop == [o \in f |-> Drop(o, c)]
           create == [o \in t |-> Create(o, c)]
           changed == {change[o] : o \in kept}
           dropped == {drop[o] : o \in gone}
           created == {create[o] : o \in new}
<1>1. \A o \in kept : o \in f /\ Id(change[o]) = <<o.key, FALSE>>
  <2> SUFFICES ASSUME NEW o \in kept PROVE Id(change[o]) = <<o.key, FALSE>>
    OBVIOUS
  <2>1. At(t, o.key) \in t /\ At(t, o.key).key = o.key
    BY AtIs
  <2>2. change[o] = ChangedOperation(o, At(t, o.key), c)
    OBVIOUS
  <2> HIDE DEF kept, change
  <2> QED BY <2>1, <2>2, ChangedId
<1>2. \A o \in gone : o \in f /\ Id(drop[o]) = <<o.key, FALSE>>
  BY CreateId
<1>3. \A o \in new : o \in t /\ Id(create[o]) = <<o.key, FALSE>>
  BY CreateId
<1>4. IsFiniteSet(kept) /\ IsFiniteSet(gone) /\ IsFiniteSet(new)
  BY FS_Subset DEF WellFormed
<1>5. /\ \A o \in kept, p \in gone : o.key # p.key
      /\ \A o \in kept \cup gone, p \in new : o.key # p.key
  BY DEF Has, Keys
<1>6. ChangedAndDropped(f, t, c) \cup Created(f, t, c) = (changed \cup dropped) \cup created
  BY DEF ChangedAndDropped, Created
<1>7. kept \subseteq DOMAIN change /\ gone \subseteq DOMAIN drop /\ new \subseteq DOMAIN create
  OBVIOUS
<1>11. Unique(kept) /\ Unique(gone) /\ Unique(new)
  BY DEF WellFormed, Unique
<1> HIDE DEF kept, gone, new, change, drop, create
<1>8. Distinct(changed) /\ \A op \in changed : \E o \in kept : Id(op) = <<o.key, FALSE>>
  BY <1>1, <1>4, <1>7, <1>11, MadeDistinct
<1>9. Distinct(dropped) /\ \A op \in dropped : \E o \in gone : Id(op) = <<o.key, FALSE>>
  BY <1>2, <1>4, <1>7, <1>11, MadeDistinct
<1>10. Distinct(created) /\ \A op \in created : \E o \in new : Id(op) = <<o.key, FALSE>>
  BY <1>3, <1>4, <1>7, <1>11, MadeDistinct
<1> HIDE DEF changed, dropped, created
<1>12. \A j, k : <<j, FALSE>> = <<k, FALSE>> => j = k
  OBVIOUS
<1>13. \A op \in changed, p \in dropped : Id(op) # Id(p)
  BY <1>5, <1>8, <1>9, <1>12
<1>14. \A op \in changed, p \in created : Id(op) # Id(p)
  BY <1>5, <1>8, <1>10, <1>12
<1>15. \A op \in dropped, p \in created : Id(op) # Id(p)
  BY <1>5, <1>9, <1>10, <1>12
<1>16. Distinct(changed \cup dropped)
  BY <1>8, <1>9, <1>13, DistinctUnion
<1> QED BY <1>6, <1>10, <1>14, <1>15, <1>16, DistinctUnion

LEMMA DependentsDistinct ==
    ASSUME NEW f, NEW t, WellFormed(f, t), None \notin f \cup t, NEW c,
           NEW operations, Distinct(operations), \A op \in operations : op.pre \in BOOLEAN,
           NEW affected \in SUBSET t, NEW names, NEW replaced
    PROVE  Distinct(WithDependents(operations, f, t, c, affected, names, replaced))
<1> DEFINE preDropped == {o \in affected : IsPreDropped(o, f, names)}
           comments == {o \in t : CommentsOn(o, replaced \cup Keys(affected))}
           first == {p \in preDropped : <<p.key, TRUE>> \notin Ids(operations)}
           then == {p \in affected \cup comments :
                       \A op \in operations : op.pre \/ Subject(op).key # p.key}
           mark == [op \in operations |-> Mark(op, Keys(preDropped))]
           preDrop == [o \in t |-> PreDrop(o, c)]
           create == [o \in t |-> Create(o, c)]
           marked == {mark[op] : op \in operations}
           dropped == {preDrop[o] : o \in first}
           created == {create[o] : o \in then}
<1>1. WithDependents(operations, f, t, c, affected, names, replaced)
        = (marked \cup dropped) \cup created
  BY DEF WithDependents
<1>2. \A op \in operations : Id(mark[op]) = Id(op)
  BY IdKept
<1>3. \A o \in first : o \in t /\ Id(preDrop[o]) = <<o.key, TRUE>>
  BY CreateId
<1>4. \A o \in then : o \in t /\ Id(create[o]) = <<o.key, FALSE>>
  BY CreateId
<1>5. IsFiniteSet(first) /\ IsFiniteSet(then)
  BY FS_Subset DEF WellFormed
<1>6. Unique(first) /\ Unique(then)
  BY DEF WellFormed, Unique
<1>7. operations \subseteq DOMAIN mark /\ first \subseteq DOMAIN preDrop /\ then \subseteq DOMAIN create
  OBVIOUS
<1>8. \A op \in operations, o \in first : Id(op) # <<o.key, TRUE>>
  BY DEF Ids
<1>9. \A op \in operations, o \in then : Id(op) # <<o.key, FALSE>>
  <2> SUFFICES ASSUME NEW op \in operations, NEW o \in then, <<Subject(op).key, op.pre>> = <<o.key, FALSE>>
               PROVE  FALSE
    BY DEF Id
  <2>1. Subject(op).key = o.key /\ op.pre = FALSE
    OBVIOUS
  <2> QED BY <2>1
<1> HIDE DEF preDropped, comments, first, then, mark, preDrop, create
<1>10. Distinct(marked) /\ \A op \in marked : \E p \in operations : Id(op) = Id(p)
  <2>1. IsFiniteSet(marked)
    BY <1>7, ImageFinite DEF Distinct
  <2> QED BY <1>2, <2>1 DEF Distinct
<1>11. Distinct(dropped) /\ \A op \in dropped : \E o \in first : Id(op) = <<o.key, TRUE>>
  BY <1>3, <1>5, <1>6, <1>7, MadeDistinct
<1>12. Distinct(created) /\ \A op \in created : \E o \in then : Id(op) = <<o.key, FALSE>>
  BY <1>4, <1>5, <1>6, <1>7, MadeDistinct
<1> HIDE DEF marked, dropped, created
<1>13. \A op \in marked, p \in dropped : Id(op) # Id(p)
  BY <1>8, <1>10, <1>11
<1>14. \A op \in marked, p \in created : Id(op) # Id(p)
  BY <1>9, <1>10, <1>12
<1>15. \A op \in dropped, p \in created : Id(op) # Id(p)
  <2>1. \A j, k : <<j, TRUE>> # <<k, FALSE>>
    OBVIOUS
  <2> QED BY <1>11, <1>12, <2>1
<1>16. Distinct(marked \cup dropped)
  BY <1>10, <1>11, <1>13, DistinctUnion
<1> QED BY <1>1, <1>12, <1>14, <1>15, <1>16, DistinctUnion

LEMMA DependentsTold ==
    ASSUME NEW f, NEW t, NEW c, NEW affected, NEW names, NEW replaced,
           NEW operations, \A op \in operations : op.pre \in BOOLEAN
    PROVE  \A op \in WithDependents(operations, f, t, c, affected, names, replaced) :
               op.pre \in BOOLEAN
<1>1. \A op \in operations : \A keys : Mark(op, keys).pre \in BOOLEAN
  BY DEF Mark
<1>2. \A o : PreDrop(o, c).pre \in BOOLEAN /\ Create(o, c).pre \in BOOLEAN
  BY DEF PreDrop, Create, MakeOperation
<1> QED BY <1>1, <1>2 DEF WithDependents

\* No two operations of a plan have the same key (planSchemaDiff: operationKeys, and
\* the guards of its closures).
THEOREM PlanDistinct ==
    ASSUME NEW f, NEW t, WellFormed(f, t), None \notin f \cup t, NEW c
    PROVE  Distinct(PlanSchemaDiff(f, t, c))
<1> DEFINE S == f \cup t
           T == Keys(S)
           direct == ChangedAndDropped(f, t, c) \cup Created(f, t, c)
           replaced == WithReplacedDependents(direct, f, t, c)
           all == WithColumnDependents(replaced, f, t, c)
           prove == [op \in all |-> Proved(op, all, f, t)]
           proved == {prove[op] : op \in all}
<1>1. SpreadsFrom(T, f, t)
  BY DEF SpreadsFrom, Keys
<1>2. Distinct(direct) /\ \A op \in direct : op.pre \in BOOLEAN
  BY <1>1, DirectDistinct, DirectOn DEF AllOn, IsOn
<1>3. Distinct(replaced) /\ \A op \in replaced : op.pre \in BOOLEAN
  <2> HIDE DEF direct
  <2> DEFINE start == {Subject(op).key : op \in
                          {p \in direct : p.kind = "replace"
                                          /\ p.after.kind \in ReplacedDependencyKinds}}
             names == AffectedNames(f, t, start, {})
             affected == {o \in t : Affected(o, f, names)}
  <2>1. affected \in SUBSET t
    OBVIOUS
  <2>2. replaced = IF start = {} THEN direct
                   ELSE WithDependents(direct, f, t, c, affected, names, start)
    BY DEF WithReplacedDependents
  <2> HIDE DEF start, names, affected, replaced
  <2>3. Distinct(replaced)
    BY <1>2, <2>1, <2>2, DependentsDistinct
  <2>4. \A op \in replaced : op.pre \in BOOLEAN
    BY <1>2, <2>2, DependentsTold
  <2> QED BY <2>3, <2>4
<1>4. Distinct(all)
  <2> HIDE DEF replaced
  <2> DEFINE retyped == UNION {RetypedIn(op) : op \in replaced}
             names == AffectedNames(f, t, {}, retyped)
             affected == {o \in t : DrawnIn(o, f, names, retyped)}
  <2>1. affected \in SUBSET t
    OBVIOUS
  <2>2. all = IF retyped = {} THEN replaced
              ELSE WithDependents(replaced, f, t, c, affected, names, {})
    BY DEF WithColumnDependents
  <2> HIDE DEF retyped, names, affected, all
  <2> QED BY <1>3, <2>1, <2>2, DependentsDistinct
<1>5. Distinct(proved)
  <2> HIDE DEF all
  <2>1. \A op \in all : Id(prove[op]) = Id(op)
    BY IdKept
  <2> HIDE DEF prove
  <2>2. IsFiniteSet(proved)
    <3>1. all \subseteq DOMAIN prove
      BY DEF prove
    <3> QED BY <1>4, <3>1, ImageFinite DEF Distinct
  <2> QED BY <1>4, <2>1, <2>2 DEF Distinct
<1>6. PlanSchemaDiff(f, t, c) \subseteq proved
  BY DEF PlanSchemaDiff
<1> HIDE DEF proved
<1> QED BY <1>5, <1>6, FS_Subset DEF Distinct

-----------------------------------------------------------------------------
(* The types, with the specification *)

\* The plan has one operation for each key, the catalog is intact and from the two
\* schemas, and nothing is run before the plan is.
OpsInv ==
    /\ Shaped(from, to) /\ Distinct(ops)
    /\ sorted \subseteq ops /\ edges \subseteq ops \X ops
    /\ phase = "diff" => sorted = {}
KeptInv == Kept(db, from, to) /\ rows \subseteq TableRows(from)
RunInv ==
    /\ phase \in {"diff", "refused", "sorting", "cyclic", "rendered", "running", "failed", "finished"}
    /\ verdict \in {None, "accepted", "drift", "rejected"}
    /\ phase \notin {"running", "failed", "finished"} => at = 0
    /\ at \in 0..Len(Script) /\ runs \in 0..MaxRuns
TypeInv == TouchInv /\ OpsInv /\ KeptInv /\ RunInv

LEMMA ScriptLength ==
    ASSUME NEW left, NEW right, NEW S, NEW T,
           IsAboutTouched(left, S, T), IsAboutTouched(right, S, T)
    PROVE  Len(left \o right) \in Nat
BY TouchedConcat DEF IsAboutTouched

LEMMA TypeInit == Init => TypeInv
<1> SUFFICES ASSUME Init PROVE TypeInv
  OBVIOUS
<1>1. TouchInv
  BY TouchInit
<1>2. Shaped(from, to)
  <2>1. PICK c \in Cases : from = c[1] /\ to = c[2]
    BY DEF Init
  <2>2. WellFormed(from, to)
    BY <1>1 DEF TouchInv, PlanTouch
  <2>3. WellShaped(from \cup to)
    BY <2>1, ShapesAssumption
  <2>4. \A o \in to : \A rc \in o.cols : rc[1] \in Uses(o, to)
    BY <2>1, SchemasAssumption
  <2>5. \A o, p \in from \cup to : o.key = p.key => o.kind = p.kind
    BY <2>2 DEF WellFormed, Unique, KindsAgree
  <2>6. \A o \in from \cup to : Fields \subseteq DOMAIN o
    BY <2>1, SchemasAssumption
  <2> QED BY <2>2, <2>3, <2>4, <2>5, <2>6 DEF Shaped
<1>3. Distinct({})
  BY FS_EmptySet DEF Distinct
<1>4. OpsInv
  BY <1>2, <1>3 DEF Init, OpsInv
<1>5. Intact(from)
  <2>1. \A o, p \in from : o.key = p.key => o = p
    BY <1>2 DEF Shaped, WellFormed, Unique
  <2>2. ASSUME NEW o \in from PROVE Upheld(o, from)
    <3>1. Satisfied(o, from)
      BY <1>2 DEF Shaped, WellFormed, Consistent
    <3> QED BY <3>1, SatisfiedIsUpheld
  <2> QED BY <2>1, <2>2 DEF Intact
<1>6. KeptInv
  BY <1>2, <1>5, OwnIsFrom DEF Init, KeptInv, Kept
<1>7. RunInv
  <2>1. Len(Script) \in Nat
    BY <1>1, ScriptLength DEF TouchInv, FileTouch, Script
  <2> QED BY <2>1, RunsAssumption DEF Init, RunInv
<1> QED BY <1>1, <1>4, <1>6, <1>7 DEF TypeInv

LEMMA TypePlan == TypeInv /\ Plan => TypeInv'
<1> SUFFICES ASSUME TypeInv, Plan PROVE TypeInv'
  OBVIOUS
<1>1. TouchInv'
  BY TouchKept DEF TypeInv, Next
<1>2. Distinct(ops')
  BY PlanDistinct DEF TypeInv, OpsInv, Shaped, WellShaped, Plan
<1>3. OpsInv'
  <2>1. edges' \subseteq ops' \X ops' /\ sorted' = {}
    BY DEF Plan, Edges, TypeInv, OpsInv
  <2>2. phase' # "diff" /\ from' = from /\ to' = to
    BY DEF Plan, diff
  <2> QED BY <1>2, <2>1, <2>2 DEF TypeInv, OpsInv
<1>4. KeptInv' /\ RunInv'
  BY DEF TypeInv, KeptInv, RunInv, Plan, diff, Script
<1> QED BY <1>1, <1>3, <1>4 DEF TypeInv

LEMMA TypeSort == TypeInv /\ (Sort \/ Sorted) => TypeInv'
<1> SUFFICES ASSUME TypeInv, Sort \/ Sorted PROVE TypeInv'
  OBVIOUS
<1>1. TouchInv'
  BY TouchKept DEF TypeInv, Next
<1>2. OpsInv'
  BY DEF TypeInv, OpsInv, Sort, Sorted, Ready, diff
<1>3. KeptInv'
  BY DEF TypeInv, KeptInv, Sort, Sorted, diff
<1>4. RunInv'
  <2>1. Len(Script') \in Nat
    BY <1>1, ScriptLength DEF TouchInv, FileTouch, Script
  <2>2. at = 0 /\ at' = at
    BY DEF TypeInv, RunInv, Sort, Sorted
  <2> QED BY <2>1, <2>2 DEF TypeInv, RunInv, Sort, Sorted
<1> QED BY <1>1, <1>2, <1>3, <1>4 DEF TypeInv

LEMMA TypeRun == TypeInv /\ Run => TypeInv'
<1> SUFFICES ASSUME TypeInv, Run PROVE TypeInv'
  OBVIOUS
<1>1. TouchInv'
  BY TouchKept DEF TypeInv, Next
<1> DEFINE s == Script[at + 1]
<1>2. KeptInv'
  <2>1. s.o \in from \cup to /\ Fits(s)
    BY NextStatement DEF TypeInv, Run
  <2>2. CanExecute(s, db) /\ db' = Execute(s, db) /\ rows' = rows \ RowsLost(s)
        /\ from' = from /\ to' = to
    BY DEF Run, diff
  <2> HIDE DEF s
  <2>3. Kept(db', from, to)
    BY <2>1, <2>2, ExecuteIntact DEF TypeInv, OpsInv, KeptInv
  <2> QED BY <2>2, <2>3 DEF TypeInv, KeptInv
<1>3. OpsInv'
  BY DEF TypeInv, OpsInv, Run, diff, plan
<1>4. RunInv'
  <2>1. Len(Script) \in Nat
    BY ScriptLength DEF TypeInv, TouchInv, FileTouch, Script
  <2>2. Script' = Script
    BY DEF Run, plan, Script
  <2> QED BY <2>1, <2>2 DEF TypeInv, RunInv, Run
<1> QED BY <1>1, <1>2, <1>3, <1>4 DEF TypeInv

LEMMA TypeOthers == TypeInv /\ (Verify \/ Fail \/ Finish \/ Rerun \/ UNCHANGED vars) => TypeInv'
<1> SUFFICES ASSUME TypeInv, Verify \/ Fail \/ Finish \/ Rerun \/ UNCHANGED vars PROVE TypeInv'
  OBVIOUS
<1>1. TouchInv'
  BY TouchKept DEF TypeInv, Next
<1>2. OpsInv' /\ KeptInv'
  BY DEF TypeInv, OpsInv, KeptInv, Verify, Fail, Finish, Rerun, vars, diff, plan
<1>3. RunInv'
  <2>1. Len(Script) \in Nat
    BY ScriptLength DEF TypeInv, TouchInv, FileTouch, Script
  <2>2. Script' = Script
    BY DEF Verify, Fail, Finish, Rerun, vars, plan, Script
  <2>3. CASE Verify
    <3>1. Verdict(from, to, file, companion, config) \in {"accepted", "drift", "rejected"}
      BY DEF Verdict, Compared
    <3> QED BY <2>1, <2>2, <2>3, <3>1, RunsAssumption DEF TypeInv, RunInv, Verify
  <2>4. CASE Rerun
    BY <2>1, <2>2, <2>4, RunsAssumption DEF TypeInv, RunInv, Rerun
  <2>5. CASE Fail \/ Finish \/ UNCHANGED vars
    BY <2>1, <2>2, <2>5 DEF TypeInv, RunInv, Fail, Finish, vars
  <2> QED BY <2>3, <2>4, <2>5
<1> QED BY <1>1, <1>2, <1>3 DEF TypeInv

\* Whatever the schemas and the order of the operations, a plan has no two operations
\* with one key, of one object and both or neither the pre-drop of it (identityIndex
\* and operationKeys rest on that), and PostgreSQL keeps its catalog intact under every
\* statement that it does not refuse, in every run of the file and after every stop.
THEOREM PlanTyped == Spec => []TypeOK
<1>1. TypeInv /\ [Next]_vars => TypeInv'
  BY TypePlan, TypeSort, TypeRun, TypeOthers DEF Next
<1>2. Spec => []TypeInv
  BY TypeInit, <1>1, PTL DEF Spec
<1>3. TypeInv => TypeOK
  <2> SUFFICES ASSUME TypeInv PROVE TypeOK
    OBVIOUS
  <2>1. Cardinality({Id(op) : op \in ops}) = Cardinality(ops)
    <3> DEFINE g == [op \in ops |-> Id(op)]
    <3>1. {Id(op) : op \in ops} = {g[op] : op \in ops}
      OBVIOUS
    <3>2. /\ IsFiniteSet(ops) /\ ops \subseteq DOMAIN g
          /\ \A op, p \in ops : g[op] = g[p] => op = p
      BY DEF TypeInv, OpsInv, Distinct
    <3> HIDE DEF g
    <3>3. Cardinality({g[op] : op \in ops}) = Cardinality(ops)
      BY <3>2, ImageFinite
    <3> QED BY <3>1, <3>3
  <2> QED BY <2>1 DEF TypeInv, OpsInv, KeptInv, Kept, RunInv, TypeOK
<1> QED BY <1>2, <1>3, PTL
================================================================================
