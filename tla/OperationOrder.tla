----------------------------- MODULE OperationOrder -----------------------------
(***************************************************************************)
(* How the planner orders the operations of a migration                    *)
(* (src/planner/order.ts): dependencies become edges of a graph with a     *)
(* count of incoming edges per operation, the sort takes the least ready   *)
(* operation and gives its targets one incoming edge less, and what never  *)
(* becomes ready is reported as a dependency cycle and appended.           *)
(*                                                                         *)
(* Which pairs depend on each other is left open: every finite graph is a  *)
(* behaviour, edges are found in any order and more than once.             *)
(***************************************************************************)
EXTENDS Integers, Sequences, FiniteSets, SequencesExt

CONSTANTS Operation,    \* the keys of the operations of one plan
          Position      \* their place under compareOperations

ASSUME OperationsFinite == IsFiniteSet(Operation)

\* compareOperations ends with the key, so no two operations are equal.
ASSUME PositionTotal == /\ Position \in [Operation -> Nat]
                        /\ \A a, b \in Operation : Position[a] = Position[b] => a = b

VARIABLES phase,              \* "graph", "sort" or "done"
          outgoing,           \* graph.outgoing
          remainingIncoming,  \* incomingCount while building, its copy after
          ready,              \* the list the sort takes its next operation from
          sorted,             \* the operations taken so far
          diagnosed,          \* SUPA_PLAN_DEPENDENCY_CYCLE was reported
          cycle,              \* the operations its hint is chosen from
          result              \* what sortOperations returns

vars == <<phase, outgoing, remainingIncoming, ready, sorted, diagnosed, cycle, result>>

Predecessors(o) == {p \in Operation : o \in outgoing[p]}

Placed == {sorted[i] : i \in DOMAIN sorted}

\* Operations in the base order: as many come before one as its place says.
InBaseOrder(S) ==
  [i \in 1 .. Cardinality(S) |->
     CHOOSE o \in S : Cardinality({p \in S : Position[p] < Position[o]}) = i - 1]

Init == /\ phase = "graph"
        /\ outgoing = [o \in Operation |-> {}]
        /\ remainingIncoming = [o \in Operation |-> 0]
        /\ ready = {}
        /\ sorted = <<>>
        /\ diagnosed = FALSE
        /\ cycle = {}
        /\ result = <<>>

--------------------------------------------------------------------------------
(* Mutants: plausible errors in the actions below. *)

\* addEdge without its test for an edge that is already there.
AddEdgeTwice(from, to) ==
  /\ phase = "graph"
  /\ from # to
  /\ outgoing' = [o \in Operation |->
                    IF o = from THEN outgoing[from] \cup {to} ELSE outgoing[o]]
  /\ remainingIncoming' = [o \in Operation |->
                    IF o = to THEN remainingIncoming[to] + 1 ELSE remainingIncoming[o]]
  /\ UNCHANGED <<phase, ready, sorted, diagnosed, cycle, result>>

\* The sort starting from the whole base order.
StartWithAll ==
  /\ phase = "graph"
  /\ phase' = "sort"
  /\ ready' = Operation
  /\ UNCHANGED <<outgoing, remainingIncoming, sorted, diagnosed, cycle, result>>

\* The sort without ready.sort: the first operation pushed is taken, whichever it is.
PopUnsorted ==
  /\ phase = "sort"
  /\ \E o \in ready :
       /\ sorted' = Append(sorted, o)
       /\ remainingIncoming' = [t \in Operation |->
            IF t \in outgoing[o] THEN remainingIncoming[t] - 1 ELSE remainingIncoming[t]]
       /\ ready' = (ready \ {o}) \cup {t \in outgoing[o] : remainingIncoming'[t] = 0}
  /\ UNCHANGED <<phase, outgoing, diagnosed, cycle, result>>

\* The operations of a cycle left out of the plan.
FinishWithoutLeftover ==
  /\ phase = "sort"
  /\ ready = {}
  /\ phase' = "done"
  /\ diagnosed' = (Len(sorted) # Cardinality(Operation))
  /\ cycle' = IF diagnosed' THEN {o \in Operation : remainingIncoming[o] > 0} ELSE {}
  /\ result' = sorted
  /\ UNCHANGED <<outgoing, remainingIncoming, ready, sorted>>

--------------------------------------------------------------------------------
(* The actions. *)

\* A dependency between two operations was found.  One that is already an
\* edge changes nothing.
AddEdge(from, to) ==
  /\ phase = "graph"
  /\ from # to
  /\ to \notin outgoing[from]
  /\ outgoing' = [o \in Operation |->
                    IF o = from THEN outgoing[from] \cup {to} ELSE outgoing[o]]
  /\ remainingIncoming' = [o \in Operation |->
                    IF o = to THEN remainingIncoming[to] + 1 ELSE remainingIncoming[o]]
  /\ UNCHANGED <<phase, ready, sorted, diagnosed, cycle, result>>

\* The graph is complete: operations without an incoming edge are ready.
StartSort ==
  /\ phase = "graph"
  /\ phase' = "sort"
  /\ ready' = {o \in Operation : remainingIncoming[o] = 0}
  /\ UNCHANGED <<outgoing, remainingIncoming, sorted, diagnosed, cycle, result>>

\* One turn of the loop of topoSortOperations.
Pop ==
  /\ phase = "sort"
  /\ \E o \in ready :
       /\ \A p \in ready : Position[o] <= Position[p]
       /\ sorted' = Append(sorted, o)
       /\ remainingIncoming' = [t \in Operation |->
            IF t \in outgoing[o] THEN remainingIncoming[t] - 1 ELSE remainingIncoming[t]]
       /\ ready' = (ready \ {o}) \cup {t \in outgoing[o] : remainingIncoming'[t] = 0}
  /\ UNCHANGED <<phase, outgoing, diagnosed, cycle, result>>

\* Nothing is ready any more: what is left has a cycle behind it and is
\* appended in the base order.
Finish ==
  /\ phase = "sort"
  /\ ready = {}
  /\ phase' = "done"
  /\ diagnosed' = (Len(sorted) # Cardinality(Operation))
  /\ cycle' = IF diagnosed' THEN {o \in Operation : remainingIncoming[o] > 0} ELSE {}
  /\ result' = IF diagnosed' THEN sorted \o InBaseOrder(Operation \ Placed) ELSE sorted
  /\ UNCHANGED <<outgoing, remainingIncoming, ready, sorted>>

Next == \/ \E from, to \in Operation : AddEdge(from, to)
        \/ StartSort
        \/ Pop
        \/ Finish

Spec == Init /\ [][Next]_vars

--------------------------------------------------------------------------------
(* Properties. *)

\* Every variable has its type; a count of incoming edges is never negative.
TypeOK == /\ phase \in {"graph", "sort", "done"}
          /\ outgoing \in [Operation -> SUBSET Operation]
          /\ remainingIncoming \in [Operation -> Nat]
          /\ ready \in SUBSET Operation
          /\ sorted \in Seq(Operation)
          /\ diagnosed \in BOOLEAN
          /\ cycle \in SUBSET Operation

\* An operation is taken after all the operations it depends on, whatever the
\* order in which the graph's edges were found: no statement of a migration
\* runs before what it needs.
DependencyOrder ==
  \A i \in DOMAIN sorted : \A p \in Predecessors(sorted[i]) :
     \E j \in 1 .. (i - 1) : sorted[j] = p

\* A set of operations none of which can be the first of them to run.
Trap(S) == \A o \in S : S \cap Predecessors(o) # {}

Trapped == UNION {S \in SUBSET Operation : Trap(S)}

\* The planner reports a dependency cycle exactly when no order exists, and
\* the operations its hint is chosen from are exactly those on a cycle or
\* behind one: the counts that tell them are right at the end of the loop.
CycleExact ==
  phase = "done" => /\ diagnosed <=> Trapped # {}
                    /\ cycle = Trapped

\* The result lists every operation of the plan once, also when there is a
\* cycle; the operations that can be ordered come first, in an order that
\* respects every edge between them.
ResultTotal ==
  phase = "done" =>
    /\ Len(result) = Cardinality(Operation)
    /\ ToSet(result) = Operation
    /\ \A i, j \in DOMAIN result :
         (result[j] \notin Trapped /\ result[j] \in outgoing[result[i]]) => i < j

\* The sort implements the abstract order: its counts and its ready list only
\* ever select the least operation whose dependencies are all placed, so equal
\* plans give equal migrations whatever order the edges were found in.
Order == INSTANCE LinearExtension
ImplementsLinearExtension == Order!Spec
================================================================================
