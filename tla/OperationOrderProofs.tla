-------------------------- MODULE OperationOrderProofs --------------------------
(***************************************************************************)
(* Proofs about OperationOrder.  The invariant says what the counts mean:  *)
(* an operation's count is the number of its predecessors not yet placed,  *)
(* ready holds exactly the unplaced operations whose count is zero, and    *)
(* what is placed is closed under predecessors.  That the result is total  *)
(* rests on two uses of the pigeonhole: the sort repeats no operation, and *)
(* the ranks of the leftover operations fill 1 .. n.                       *)
(***************************************************************************)
EXTENDS OperationOrder, FiniteSetTheorems, TLAPS

Waiting(o) == Predecessors(o) \ Placed

Counts == \A o \in Operation : remainingIncoming[o] = Cardinality(Waiting(o))

\* Before the sort starts nothing is placed and nothing is ready.
NotStarted == phase = "graph" => sorted = <<>> /\ ready = {}

ReadyExact ==
  phase # "graph" => ready = {o \in Operation \ Placed : remainingIncoming[o] = 0}

PlacedOnce == /\ IsFiniteSet(Placed)
              /\ Cardinality(Placed) = Len(sorted)

TrapsUnplaced == \A S \in SUBSET Operation : Trap(S) => S \cap Placed = {}

IInv == /\ TypeOK
        /\ Counts
        /\ NotStarted
        /\ ReadyExact
        /\ PlacedOnce
        /\ DependencyOrder
        /\ TrapsUnplaced
        /\ CycleExact
        /\ ResultTotal

--------------------------------------------------------------------------------
(* Facts about the helpers. *)

\* The predecessors of an operation are operations, finitely many.
LEMMA PredecessorsFinite ==
  ASSUME NEW o
  PROVE  /\ Predecessors(o) \subseteq Operation
         /\ IsFiniteSet(Predecessors(o))
         /\ IsFiniteSet(Waiting(o))
         /\ Cardinality(Waiting(o)) \in Nat
<1>1. Predecessors(o) \subseteq Operation
  BY DEF Predecessors
<1>2. IsFiniteSet(Predecessors(o))
  BY <1>1, OperationsFinite, FS_Subset
<1>3. Waiting(o) \subseteq Predecessors(o)
  BY DEF Waiting
<1>4. IsFiniteSet(Waiting(o))
  BY <1>2, <1>3, FS_Subset
<1> QED
  BY <1>1, <1>2, <1>4, FS_CardinalityType

\* An operation has no one to wait for exactly when its count would be zero.
LEMMA WaitingEmpty ==
  ASSUME NEW o
  PROVE  Cardinality(Waiting(o)) = 0 <=> Predecessors(o) \subseteq Placed
<1>1. Cardinality(Waiting(o)) = 0 <=> Waiting(o) = {}
  BY PredecessorsFinite, FS_EmptySet
<1> QED
  BY <1>1 DEF Waiting

\* Appending an operation places that operation and no other.
LEMMA AppendPlaces ==
  ASSUME sorted \in Seq(Operation), NEW o \in Operation, sorted' = Append(sorted, o)
  PROVE  /\ Placed' = Placed \cup {o}
         /\ Len(sorted') = Len(sorted) + 1
         /\ \A i \in DOMAIN sorted : sorted'[i] = sorted[i]
         /\ sorted'[Len(sorted) + 1] = o
         /\ DOMAIN sorted' = DOMAIN sorted \cup {Len(sorted) + 1}
<1>1. /\ Len(sorted') = Len(sorted) + 1
      /\ \A i \in DOMAIN sorted : sorted'[i] = sorted[i]
      /\ sorted'[Len(sorted) + 1] = o
      /\ DOMAIN sorted' = DOMAIN sorted \cup {Len(sorted) + 1}
  OBVIOUS
<1>2. Placed' = {sorted'[i] : i \in DOMAIN sorted'}
  BY DEF Placed
<1> QED
  BY <1>1, <1>2 DEF Placed

\* What is placed is closed under predecessors.
LEMMA PlacedClosed ==
  ASSUME sorted \in Seq(Operation), DependencyOrder
  PROVE  \A o \in Placed : Predecessors(o) \subseteq Placed
<1> SUFFICES ASSUME NEW i \in DOMAIN sorted, NEW p \in Predecessors(sorted[i])
             PROVE  p \in Placed
  BY DEF Placed
<1>1. PICK j \in 1 .. (i - 1) : sorted[j] = p
  BY DEF DependencyOrder
<1>2. j \in DOMAIN sorted
  OBVIOUS
<1> QED
  BY <1>1, <1>2 DEF Placed

\* Operations have different ranks among any set of them, and the ranks fill
\* an interval: the base order of a set lists each of its members once.
LEMMA BaseOrderTotal ==
  ASSUME NEW S \in SUBSET Operation
  PROVE  /\ Cardinality(S) \in Nat
         /\ InBaseOrder(S) \in [1 .. Cardinality(S) -> S]
         /\ \A o \in S : \E i \in 1 .. Cardinality(S) : InBaseOrder(S)[i] = o
<1> DEFINE Below(o) == {p \in S : Position[p] < Position[o]}
           n == Cardinality(S)
           rank == [o \in S |-> Cardinality(Below(o)) + 1]
<1>1. IsFiniteSet(S) /\ n \in Nat
  BY OperationsFinite, FS_Subset, FS_CardinalityType
<1>2. \A o \in S : Position[o] \in Nat
  BY PositionTotal
<1>3. \A o \in S : /\ IsFiniteSet(Below(o)) /\ Cardinality(Below(o)) \in Nat
                   /\ Cardinality(Below(o)) < n
  <2> SUFFICES ASSUME NEW o \in S
               PROVE  /\ IsFiniteSet(Below(o)) /\ Cardinality(Below(o)) \in Nat
                      /\ Cardinality(Below(o)) < n
    OBVIOUS
  <2>1. Below(o) \in SUBSET S /\ o \notin Below(o)
    BY <1>2
  <2>2. /\ IsFiniteSet(Below(o)) /\ Cardinality(Below(o)) <= n
        /\ (n = Cardinality(Below(o)) => S = Below(o))
    BY <1>1, <2>1, FS_Subset
  <2>3. Cardinality(Below(o)) \in Nat
    BY <2>2, FS_CardinalityType
  <2> HIDE DEF Below, n
  <2> QED
    BY <1>1, <2>1, <2>2, <2>3
<1>4. \A o, p \in S : Position[o] < Position[p] => Cardinality(Below(o)) < Cardinality(Below(p))
  <2> SUFFICES ASSUME NEW o \in S, NEW p \in S, Position[o] < Position[p]
               PROVE  Cardinality(Below(o)) < Cardinality(Below(p))
    OBVIOUS
  <2>1. /\ Below(o) \in SUBSET Below(p) /\ o \in Below(p) /\ o \notin Below(o)
    BY <1>2
  <2>2. /\ Cardinality(Below(o)) <= Cardinality(Below(p))
        /\ (Cardinality(Below(p)) = Cardinality(Below(o)) => Below(p) = Below(o))
    BY <1>3, <2>1, FS_Subset
  <2> HIDE DEF Below
  <2> QED
    BY <1>3, <2>1, <2>2
<1>5. \A o, p \in S : Cardinality(Below(o)) = Cardinality(Below(p)) => o = p
  <2> SUFFICES ASSUME NEW o \in S, NEW p \in S, Cardinality(Below(o)) = Cardinality(Below(p))
               PROVE  o = p
    OBVIOUS
  <2>1. Cardinality(Below(o)) \in Nat
    BY <1>3
  <2> HIDE DEF Below
  <2>2. Position[o] = Position[p]
    BY <1>2, <1>4, <2>1
  <2> QED
    BY <2>2, PositionTotal
<1> HIDE DEF Below, n
<1>6. rank \in Injection(S, 1 .. n)
  <2>1. rank \in [S -> 1 .. n]
    BY <1>1, <1>3
  <2>2. \A o, p \in S : rank[o] = rank[p] => o = p
    BY <1>3, <1>5
  <2> QED
    BY <2>1, <2>2 DEF Injection, IsInjective
<1>7. \A i \in 1 .. n : \E o \in S : Cardinality(Below(o)) = i - 1
  <2>1. IsFiniteSet(1 .. n) /\ Cardinality(1 .. n) = n
    BY <1>1, FS_Interval
  <2>2. rank \in Surjection(S, 1 .. n)
    BY <1>6, <2>1, FS_Injection DEF n
  <2>3. \A i \in 1 .. n : \E o \in S : rank[o] = i
    BY <2>2 DEF Surjection
  <2> QED
    BY <1>1, <1>3, <2>3
<1> DEFINE At(i) == CHOOSE o \in S : Cardinality(Below(o)) = i - 1
<1>8. \A i \in 1 .. n : At(i) \in S /\ Cardinality(Below(At(i))) = i - 1
  BY <1>7
<1>9. InBaseOrder(S) = [i \in 1 .. n |-> At(i)]
  BY DEF InBaseOrder, Below, n
<1> HIDE DEF At
<1>10. \A o \in S : \E i \in 1 .. n : InBaseOrder(S)[i] = o
  <2> SUFFICES ASSUME NEW o \in S
               PROVE  \E i \in 1 .. n : InBaseOrder(S)[i] = o
    OBVIOUS
  <2>1. PICK i \in 1 .. n : i = Cardinality(Below(o)) + 1
    BY <1>1, <1>3
  <2>2. Cardinality(Below(At(i))) = Cardinality(Below(o))
    BY <1>3, <1>8, <2>1
  <2>3. At(i) = o
    BY <1>5, <1>8, <2>2
  <2> QED
    BY <1>9, <2>3
<1>11. InBaseOrder(S) \in [1 .. n -> S]
  BY <1>8, <1>9
<1> QED
  BY <1>1, <1>10, <1>11 DEF n

\* The sort takes no operation twice.
LEMMA SortedOnce ==
  ASSUME sorted \in Seq(Operation), PlacedOnce,
         NEW i \in DOMAIN sorted, NEW j \in DOMAIN sorted, sorted[i] = sorted[j]
  PROVE  i = j
<1> DEFINE n == Len(sorted)
<1>1. n \in Nat /\ DOMAIN sorted = 1 .. n /\ sorted \in [1 .. n -> Operation]
  OBVIOUS
<1>2. Cardinality(Placed) = n
  BY DEF PlacedOnce
<1> HIDE DEF n
<1>3. IsFiniteSet(1 .. n) /\ Cardinality(1 .. n) = n
  BY <1>1, FS_Interval
<1>4. sorted \in Surjection(1 .. n, Placed)
  BY <1>1 DEF Surjection, Placed
<1>5. sorted \in Injection(1 .. n, Placed)
  BY <1>2, <1>3, <1>4, FS_Surjection
<1> QED
  BY <1>1, <1>5 DEF Injection, IsInjective

--------------------------------------------------------------------------------
(* The invariant, one lemma per action. *)

LEMMA InitInvariant == Init => IInv
<1> SUFFICES ASSUME Init PROVE IInv
  OBVIOUS
<1>1. Placed = {}
  BY DEF Init, Placed
<1>2. \A o \in Operation : Predecessors(o) = {}
  BY DEF Init, Predecessors
<1>3. TypeOK
  <2>1. /\ outgoing \in [Operation -> SUBSET Operation]
        /\ remainingIncoming \in [Operation -> Nat]
    BY DEF Init
  <2>2. sorted \in Seq(Operation)
    BY DEF Init
  <2>3. phase \in {"graph", "sort", "done"} /\ diagnosed \in BOOLEAN
    BY DEF Init
  <2> QED
    BY <2>1, <2>2, <2>3 DEF Init, TypeOK
<1>4. Counts
  <2>1. \A o \in Operation : Waiting(o) = {}
    BY <1>2 DEF Waiting
  <2> QED
    BY <2>1, FS_EmptySet DEF Counts, Init
<1>5. NotStarted /\ ReadyExact
  BY DEF Init, NotStarted, ReadyExact
<1>6. PlacedOnce
  BY <1>1, FS_EmptySet DEF PlacedOnce, Init
<1>7. DependencyOrder
  BY DEF DependencyOrder, Init
<1>8. TrapsUnplaced
  BY <1>1 DEF TrapsUnplaced
<1>9. CycleExact /\ ResultTotal
  BY DEF CycleExact, ResultTotal, Init
<1> QED
  BY <1>3, <1>4, <1>5, <1>6, <1>7, <1>8, <1>9 DEF IInv

\* Adding an edge: one count grows by one, with the one set it counts.
LEMMA AddEdgeInvariant ==
  ASSUME IInv, NEW a \in Operation, NEW b \in Operation, AddEdge(a, b)
  PROVE  IInv'
<1> USE DEF IInv
<1>1. /\ phase = "graph" /\ phase' = "graph"
      /\ b \notin outgoing[a]
      /\ outgoing' = [o \in Operation |->
                        IF o = a THEN outgoing[a] \cup {b} ELSE outgoing[o]]
      /\ remainingIncoming' = [o \in Operation |->
                        IF o = b THEN remainingIncoming[b] + 1 ELSE remainingIncoming[o]]
      /\ ready' = ready /\ sorted' = sorted
      /\ diagnosed' = diagnosed /\ cycle' = cycle
  BY DEF AddEdge
<1>2. sorted = <<>> /\ ready = {} /\ sorted' = <<>> /\ ready' = {}
  BY <1>1 DEF NotStarted
<1>3. Placed = {} /\ Placed' = {}
  BY <1>2 DEF Placed
<1>4. TypeOK'
  BY <1>1 DEF TypeOK
<1>5. Counts'
  <2> SUFFICES ASSUME NEW o \in Operation
               PROVE  remainingIncoming'[o] = Cardinality(Waiting(o)')
    BY DEF Counts
  <2>1. remainingIncoming[o] = Cardinality(Waiting(o))
    BY DEF Counts
  <2>2. CASE o = b
    <3>1. Waiting(o)' = Waiting(o) \cup {a} /\ a \notin Waiting(o)
      BY <1>1, <1>3, <2>2 DEF Waiting, Predecessors, TypeOK
    <3>2. Cardinality(Waiting(o)') = Cardinality(Waiting(o)) + 1
      BY <3>1, PredecessorsFinite, FS_AddElement
    <3> QED
      BY <1>1, <2>1, <2>2, <3>2
  <2>3. CASE o # b
    <3>1. Waiting(o)' = Waiting(o)
      BY <1>1, <1>3, <2>3 DEF Waiting, Predecessors, TypeOK
    <3> QED
      BY <1>1, <2>1, <2>3, <3>1
  <2> QED
    BY <2>2, <2>3
<1>6. NotStarted' /\ ReadyExact'
  BY <1>1, <1>2 DEF NotStarted, ReadyExact
<1>7. PlacedOnce'
  BY <1>2, <1>3, FS_EmptySet DEF PlacedOnce
<1>8. DependencyOrder'
  BY <1>2 DEF DependencyOrder
<1>9. TrapsUnplaced'
  BY <1>3 DEF TrapsUnplaced
<1>10. CycleExact' /\ ResultTotal'
  BY <1>1 DEF CycleExact, ResultTotal
<1> QED
  BY <1>4, <1>5, <1>6, <1>7, <1>8, <1>9, <1>10

LEMMA StartSortInvariant ==
  ASSUME IInv, StartSort
  PROVE  IInv'
<1> USE DEF IInv
<1>1. /\ phase = "graph" /\ phase' = "sort"
      /\ ready' = {o \in Operation : remainingIncoming[o] = 0}
      /\ outgoing' = outgoing /\ remainingIncoming' = remainingIncoming
      /\ sorted' = sorted /\ diagnosed' = diagnosed /\ cycle' = cycle
  BY DEF StartSort
<1>2. sorted = <<>> /\ Placed = {} /\ Placed' = {}
  BY <1>1 DEF NotStarted, Placed
<1>3. TypeOK'
  BY <1>1 DEF TypeOK
<1>4. Counts'
  BY <1>1 DEF Counts, Waiting, Predecessors, Placed
<1>5. NotStarted' /\ ReadyExact'
  BY <1>1, <1>2 DEF NotStarted, ReadyExact
<1>6. PlacedOnce'
  BY <1>1, <1>2 DEF PlacedOnce
<1>7. DependencyOrder'
  BY <1>1, <1>2 DEF DependencyOrder
<1>8. TrapsUnplaced'
  BY <1>2 DEF TrapsUnplaced
<1>9. CycleExact' /\ ResultTotal'
  BY <1>1 DEF CycleExact, ResultTotal
<1> QED
  BY <1>3, <1>4, <1>5, <1>6, <1>7, <1>8, <1>9

\* Taking an operation: its predecessors are placed, and each target loses the
\* one predecessor it no longer waits for.
LEMMA PopInvariant ==
  ASSUME IInv, Pop
  PROVE  IInv'
<1> USE DEF IInv
<1>1. PICK o \in ready :
        /\ sorted' = Append(sorted, o)
        /\ remainingIncoming' = [t \in Operation |->
             IF t \in outgoing[o] THEN remainingIncoming[t] - 1 ELSE remainingIncoming[t]]
        /\ ready' = (ready \ {o}) \cup {t \in outgoing[o] : remainingIncoming'[t] = 0}
  BY DEF Pop
<1>2. /\ phase = "sort" /\ phase' = "sort" /\ outgoing' = outgoing
      /\ diagnosed' = diagnosed /\ cycle' = cycle
  BY DEF Pop
<1>3. /\ sorted \in Seq(Operation) /\ o \in Operation /\ o \notin Placed
      /\ remainingIncoming[o] = 0 /\ outgoing[o] \subseteq Operation
      /\ remainingIncoming \in [Operation -> Nat]
  BY <1>1, <1>2 DEF ReadyExact, TypeOK
<1>4. Placed' = Placed \cup {o}
  BY <1>1, <1>3, AppendPlaces
<1>5. Predecessors(o) \subseteq Placed
  BY <1>3, WaitingEmpty DEF Counts
<1>6. \A t \in Operation : Predecessors(t)' = Predecessors(t)
  BY <1>2 DEF Predecessors
<1>7. Counts' /\ \A t \in outgoing[o] : remainingIncoming[t] > 0
  <2>1. ASSUME NEW t \in Operation, t \in outgoing[o]
        PROVE  /\ remainingIncoming'[t] = Cardinality(Waiting(t)')
               /\ remainingIncoming[t] > 0
    <3>1. o \in Waiting(t) /\ Waiting(t)' = Waiting(t) \ {o}
      BY <1>3, <1>4, <1>6, <2>1 DEF Waiting, Predecessors
    <3>2. Cardinality(Waiting(t) \ {o}) = Cardinality(Waiting(t)) - 1
      BY <3>1, PredecessorsFinite, FS_RemoveElement
    <3>3. remainingIncoming[t] = Cardinality(Waiting(t))
      BY DEF Counts
    <3>4. remainingIncoming[t] # 0
      BY <3>1, <3>3, PredecessorsFinite, FS_EmptySet
    <3> QED
      BY <1>1, <1>3, <2>1, <3>1, <3>2, <3>3, <3>4
  <2>2. ASSUME NEW t \in Operation, t \notin outgoing[o]
        PROVE  remainingIncoming'[t] = Cardinality(Waiting(t)')
    <3>1. Waiting(t)' = Waiting(t)
      BY <1>4, <1>6, <2>2 DEF Waiting, Predecessors
    <3> QED
      BY <1>1, <2>2, <3>1 DEF Counts
  <2>3. \A t \in Operation : remainingIncoming'[t] = Cardinality(Waiting(t)')
    BY <2>1, <2>2
  <2>4. Counts'
    BY <2>3 DEF Counts
  <2> QED
    BY <1>3, <2>1, <2>4
<1>8. TypeOK'
  <2>1. remainingIncoming' \in [Operation -> Nat]
    BY <1>1, <1>3, <1>7
  <2>2. sorted' \in Seq(Operation)
    BY <1>1, <1>3
  <2>3. ready' \subseteq Operation
    BY <1>1, <1>3 DEF TypeOK
  <2> QED
    BY <1>2, <2>1, <2>2, <2>3 DEF TypeOK
<1>9. NotStarted'
  BY <1>2 DEF NotStarted
<1>10. ReadyExact'
  <2>1. o \notin outgoing[o]
    BY <1>3, <1>7
  <2>2. \A t \in outgoing[o] : t \notin Placed
    BY <1>3, PlacedClosed DEF Predecessors
  <2>3. ASSUME NEW t \in Operation
        PROVE  t \in ready' <=> t \notin Placed' /\ remainingIncoming'[t] = 0
    <3>1. t \in ready <=> t \notin Placed /\ remainingIncoming[t] = 0
      BY <1>2 DEF ReadyExact
    <3>2. CASE t \in outgoing[o]
      BY <1>1, <1>4, <1>7, <2>1, <2>2, <3>1, <3>2
    <3>3. CASE t \notin outgoing[o]
      BY <1>1, <1>4, <3>1, <3>3
    <3> QED
      BY <3>2, <3>3
  <2> QED
    BY <1>8, <2>3 DEF ReadyExact, TypeOK
<1>11. PlacedOnce'
  <2>1. IsFiniteSet(Placed) /\ Cardinality(Placed) = Len(sorted)
    BY DEF PlacedOnce
  <2>2. /\ IsFiniteSet(Placed \cup {o})
        /\ Cardinality(Placed \cup {o}) = Cardinality(Placed) + 1
    BY <1>3, <2>1, FS_AddElement
  <2>3. Len(sorted') = Len(sorted) + 1
    BY <1>1, <1>3, AppendPlaces
  <2> QED
    BY <1>4, <2>1, <2>2, <2>3 DEF PlacedOnce
<1>12. DependencyOrder'
  <2> DEFINE n == Len(sorted) + 1
  <2>1. /\ \A i \in DOMAIN sorted : sorted'[i] = sorted[i]
        /\ sorted'[n] = o
        /\ DOMAIN sorted' = DOMAIN sorted \cup {n}
        /\ DOMAIN sorted = 1 .. Len(sorted)
        /\ Len(sorted) \in Nat
    BY <1>1, <1>3, AppendPlaces
  <2> SUFFICES ASSUME NEW i \in DOMAIN sorted', NEW p \in Predecessors(sorted[i])'
               PROVE  \E j \in 1 .. (i - 1) : sorted'[j] = p
    BY DEF DependencyOrder
  <2>2. p \in Predecessors(sorted'[i])
    BY <1>2 DEF Predecessors
  <2>3. CASE i \in DOMAIN sorted
    <3>1. PICK j \in 1 .. (i - 1) : sorted[j] = p
      BY <2>1, <2>2, <2>3 DEF DependencyOrder
    <3>2. sorted'[j] = p
      BY <2>1, <2>3, <3>1
    <3> QED
      BY <3>2
  <2>4. CASE i = n
    <3>1. p \in Placed
      BY <1>5, <2>1, <2>2, <2>4
    <3>2. PICK j \in DOMAIN sorted : sorted[j] = p
      BY <3>1 DEF Placed
    <3> QED
      BY <2>1, <2>4, <3>2
  <2> QED
    BY <2>1, <2>3, <2>4
<1>13. TrapsUnplaced'
  <2> SUFFICES ASSUME NEW S \in SUBSET Operation, Trap(S)'
               PROVE  S \cap Placed' = {}
    BY DEF TrapsUnplaced
  <2>1. Trap(S)
    BY <1>6 DEF Trap
  <2>2. S \cap Placed = {}
    BY <2>1 DEF TrapsUnplaced
  <2>3. o \notin S
    BY <1>5, <2>1, <2>2 DEF Trap
  <2> QED
    BY <1>4, <2>2, <2>3
<1>14. CycleExact' /\ ResultTotal'
  BY <1>2 DEF CycleExact, ResultTotal
<1> QED
  BY <1>7, <1>8, <1>9, <1>10, <1>11, <1>12, <1>13, <1>14

\* What Finish returns: the sorted operations, then those left over.
LEMMA ResultOfFinish ==
  ASSUME IInv, Finish, Trapped = Operation \ Placed
  PROVE  ResultTotal'
<1> USE DEF IInv
<1> DEFINE n == Len(sorted)
           rest == Operation \ Placed
           m == Cardinality(rest)
           base == InBaseOrder(rest)
<1>1. /\ outgoing' = outgoing
      /\ result' = IF n # Cardinality(Operation) THEN sorted \o base ELSE sorted
  BY DEF Finish
<1>2. Trapped' = rest
  BY <1>1 DEF Trapped, Trap, Predecessors
<1>3. /\ n \in Nat /\ DOMAIN sorted = 1 .. n /\ sorted \in [1 .. n -> Operation]
      /\ sorted \in Seq(Operation)
  BY DEF TypeOK
<1>4. /\ m \in Nat /\ base \in [1 .. m -> rest]
      /\ \A o \in rest : \E i \in 1 .. m : base[i] = o
  BY BaseOrderTotal
<1>5. Cardinality(Operation) = n + m
  <2>1. Placed \in SUBSET Operation /\ Placed \cup rest = Operation /\ Placed \cap rest = {}
    BY <1>3 DEF Placed
  <2>2. IsFiniteSet(Placed) /\ IsFiniteSet(rest) /\ Cardinality(Placed) = n
    BY OperationsFinite, FS_Subset DEF PlacedOnce
  <2>3. Cardinality(Placed \cup rest) = Cardinality(Placed) + m - Cardinality(Placed \cap rest)
    BY <2>2, FS_Union
  <2>4. Cardinality(Placed \cap rest) = 0
    BY <2>1, FS_EmptySet
  <2>5. n \in Nat /\ m \in Nat
    BY <1>3, <1>4
  <2> HIDE DEF n, m, rest
  <2> QED
    BY <2>1, <2>2, <2>3, <2>4, <2>5
<1> HIDE DEF n, m, base
<1>6. /\ Len(result') = n + m /\ DOMAIN result' = 1 .. n + m
      /\ \A i \in 1 .. n : result'[i] = sorted[i]
      /\ \A i \in 1 .. m : result'[n + i] = base[i]
  <2>1. CASE m = 0
    <3>1. result' = sorted
      BY <1>1, <1>3, <1>5, <2>1
    <3> QED
      BY <1>3, <2>1, <3>1 DEF n
  <2>2. CASE m # 0
    <3>1. result' = sorted \o base
      BY <1>1, <1>3, <1>4, <1>5, <2>2
    <3>2. base \in Seq(rest) /\ Len(base) = m
      BY <1>4
    <3>3. base \in Seq(Operation)
      BY <1>4
    <3>4. /\ Len(sorted \o base) = Len(sorted) + Len(base)
          /\ DOMAIN (sorted \o base) = 1 .. Len(sorted) + Len(base)
          /\ \A i \in 1 .. Len(sorted) : (sorted \o base)[i] = sorted[i]
          /\ \A i \in 1 .. Len(base) : (sorted \o base)[Len(sorted) + i] = base[i]
      BY <1>3, <3>3
    <3> QED
      BY <3>1, <3>2, <3>4 DEF n
  <2> QED
    BY <2>1, <2>2
<1>7. \A k \in 1 .. n + m : k \in 1 .. n \/ \E i \in 1 .. m : k = n + i
  <2> SUFFICES ASSUME NEW k \in 1 .. n + m, k \notin 1 .. n
               PROVE  \E i \in 1 .. m : k = n + i
    OBVIOUS
  <2>1. k - n \in 1 .. m /\ k = n + (k - n)
    BY <1>3, <1>4
  <2> QED
    BY <2>1
<1>8. \A k \in 1 .. n + m : \/ k \in 1 .. n /\ result'[k] = sorted[k] /\ result'[k] \in Placed
                            \/ result'[k] \in rest
  <2>1. \A k \in 1 .. n : sorted[k] \in Placed
    BY <1>3 DEF Placed
  <2> QED
    BY <1>4, <1>6, <1>7, <2>1
<1>9. ToSet(result)' = Operation
  <2>1. ToSet(result)' = {result'[k] : k \in 1 .. n + m}
    BY <1>6 DEF ToSet
  <2>2. ToSet(result)' \subseteq Operation
    BY <1>3, <1>8, <2>1
  <2>3. ASSUME NEW o \in Operation PROVE o \in ToSet(result)'
    <3>1. CASE o \in Placed
      <4>1. PICK k \in 1 .. n : sorted[k] = o
        BY <1>3, <3>1 DEF Placed
      <4>2. k \in 1 .. n + m
        BY <1>3, <1>4
      <4> QED
        BY <1>6, <2>1, <4>1, <4>2
    <3>2. CASE o \in rest
      <4>1. PICK i \in 1 .. m : base[i] = o
        BY <1>4, <3>2
      <4>2. n + i \in 1 .. n + m
        BY <1>3, <1>4
      <4> QED
        BY <1>6, <2>1, <4>1, <4>2
    <3> QED
      BY <3>1, <3>2
  <2> QED
    BY <2>2, <2>3
<1>10. ASSUME NEW i \in 1 .. n + m, NEW j \in 1 .. n + m,
              result'[j] \notin rest, result'[j] \in outgoing[result'[i]]
       PROVE  i < j
  <2>1. j \in 1 .. n /\ result'[j] = sorted[j]
    BY <1>8, <1>10
  <2>2. result'[i] \in Predecessors(sorted[j])
    BY <1>3, <1>8, <1>10, <2>1 DEF Predecessors
  <2>3. PICK k \in 1 .. (j - 1) : sorted[k] = result'[i]
    BY <1>3, <2>1, <2>2 DEF DependencyOrder
  <2>4. k \in 1 .. n /\ k < j
    BY <1>3, <2>1
  <2>5. result'[i] \notin rest
    BY <1>3, <2>3, <2>4 DEF Placed
  <2>6. i \in 1 .. n /\ sorted[i] = sorted[k]
    BY <1>8, <2>3, <2>5
  <2>7. i = k
    BY <1>3, <2>4, <2>6, SortedOnce
  <2> QED
    BY <2>4, <2>7
<1> QED
  BY <1>1, <1>2, <1>5, <1>6, <1>9, <1>10 DEF ResultTotal

\* The loop ends: what is not placed is a trap, and the largest there is.
LEMMA FinishInvariant ==
  ASSUME IInv, Finish
  PROVE  IInv'
<1> USE DEF IInv
<1>1. /\ phase = "sort" /\ ready = {} /\ phase' = "done"
      /\ diagnosed' = (Len(sorted) # Cardinality(Operation))
      /\ cycle' = IF diagnosed' THEN {o \in Operation : remainingIncoming[o] > 0} ELSE {}
      /\ outgoing' = outgoing /\ remainingIncoming' = remainingIncoming
      /\ ready' = ready /\ sorted' = sorted
  BY DEF Finish
<1>2. Placed' = Placed /\ Placed \subseteq Operation
  BY <1>1 DEF Placed, TypeOK
<1>3. Trapped' = Trapped /\ \A S : Trap(S)' <=> Trap(S)
  BY <1>1 DEF Trapped, Trap, Predecessors
<1>4. \A o \in Operation : remainingIncoming[o] > 0 <=> o \notin Placed
  <2> SUFFICES ASSUME NEW o \in Operation
               PROVE  remainingIncoming[o] > 0 <=> o \notin Placed
    OBVIOUS
  <2>1. remainingIncoming[o] \in Nat /\ remainingIncoming[o] = Cardinality(Waiting(o))
    BY DEF TypeOK, Counts
  <2>2. o \notin Placed => remainingIncoming[o] # 0
    BY <1>1 DEF ReadyExact
  <2>3. o \in Placed => remainingIncoming[o] = 0
    BY <2>1, PlacedClosed, WaitingEmpty DEF TypeOK
  <2> QED
    BY <2>1, <2>2, <2>3
<1>5. Trap(Operation \ Placed)
  <2> SUFFICES ASSUME NEW o \in Operation \ Placed
               PROVE  (Operation \ Placed) \cap Predecessors(o) # {}
    BY DEF Trap
  <2>1. Cardinality(Waiting(o)) # 0
    BY <1>4 DEF Counts
  <2>2. ~(Predecessors(o) \subseteq Placed)
    BY <2>1, WaitingEmpty
  <2> QED
    BY <2>2, PredecessorsFinite
<1>6. Trapped = Operation \ Placed
  <2>1. Trapped \subseteq Operation \ Placed
    BY DEF Trapped, TrapsUnplaced
  <2>2. Operation \ Placed \subseteq Trapped
    BY <1>5 DEF Trapped
  <2> QED
    BY <2>1, <2>2
<1>7. diagnosed' <=> Placed # Operation
  <2>1. Placed # Operation => Cardinality(Placed) # Cardinality(Operation)
    BY <1>2, OperationsFinite, FS_Subset
  <2>2. Cardinality(Placed) = Len(sorted)
    BY DEF PlacedOnce
  <2> QED
    BY <1>1, <2>1, <2>2
<1>8. CycleExact'
  <2>1. diagnosed' <=> Trapped # {}
    BY <1>2, <1>6, <1>7
  <2>2. {o \in Operation : remainingIncoming[o] > 0} = Operation \ Placed
    BY <1>4
  <2>3. cycle' = Trapped
    BY <1>1, <1>6, <2>1, <2>2
  <2> QED
    BY <1>3, <2>1, <2>3 DEF CycleExact
<1>9. TypeOK'
  BY <1>1 DEF TypeOK
<1>10. Counts'
  BY <1>1 DEF Counts, Waiting, Predecessors, Placed
<1>11. NotStarted' /\ ReadyExact'
  BY <1>1, <1>2 DEF NotStarted, ReadyExact
<1>12. PlacedOnce'
  BY <1>1, <1>2 DEF PlacedOnce
<1>13. DependencyOrder'
  BY <1>1 DEF DependencyOrder, Predecessors
<1>14. TrapsUnplaced'
  BY <1>2, <1>3 DEF TrapsUnplaced
<1>15. ResultTotal'
  BY <1>6, ResultOfFinish
<1> QED
  BY <1>15, <1>8, <1>9, <1>10, <1>11, <1>12, <1>13, <1>14

LEMMA StutterInvariant ==
  ASSUME IInv, UNCHANGED vars
  PROVE  IInv'
<1> USE DEF IInv
<1>1. /\ phase' = phase /\ outgoing' = outgoing
      /\ remainingIncoming' = remainingIncoming /\ ready' = ready
      /\ sorted' = sorted /\ diagnosed' = diagnosed /\ cycle' = cycle
      /\ result' = result
  BY DEF vars
<1>2. Placed' = Placed
  BY <1>1 DEF Placed
<1>3. \A S : Trap(S)' <=> Trap(S)
  BY <1>1 DEF Trap, Predecessors
<1>4. TypeOK' /\ NotStarted'
  BY <1>1 DEF TypeOK, NotStarted
<1>5. Counts'
  BY <1>1 DEF Counts, Waiting, Predecessors, Placed
<1>6. ReadyExact' /\ PlacedOnce'
  BY <1>1, <1>2 DEF ReadyExact, PlacedOnce
<1>7. DependencyOrder'
  BY <1>1 DEF DependencyOrder, Predecessors
<1>8. TrapsUnplaced'
  BY <1>2, <1>3 DEF TrapsUnplaced
<1>9. CycleExact' /\ ResultTotal'
  <2>1. Trapped' = Trapped
    BY <1>1 DEF Trapped, Trap, Predecessors
  <2>2. ToSet(result)' = ToSet(result)
    BY <1>1 DEF ToSet
  <2> QED
    BY <1>1, <2>1, <2>2 DEF CycleExact, ResultTotal
<1> QED
  BY <1>4, <1>5, <1>6, <1>7, <1>8, <1>9

THEOREM InvariantHolds == Spec => []IInv
<1>1. Init => IInv
  BY InitInvariant
<1>2. IInv /\ [Next]_vars => IInv'
  BY AddEdgeInvariant, StartSortInvariant, PopInvariant, FinishInvariant,
     StutterInvariant DEF Next
<1> QED
  BY <1>1, <1>2, PTL DEF Spec

--------------------------------------------------------------------------------
(* What a reader wants to know. *)

\* Every variable keeps its type, for every plan.
THEOREM TypeCorrect == Spec => []TypeOK
<1>1. IInv => TypeOK
  BY DEF IInv
<1> QED
  BY <1>1, InvariantHolds, PTL

\* No operation is placed before one it depends on, for every plan and every
\* set of dependencies.
THEOREM OrderCorrect == Spec => []DependencyOrder
<1>1. IInv => DependencyOrder
  BY DEF IInv
<1> QED
  BY <1>1, InvariantHolds, PTL

\* A cycle is reported exactly when there is no order, with exactly the
\* operations on it or behind it.
THEOREM CycleCorrect == Spec => []CycleExact
<1>1. IInv => CycleExact
  BY DEF IInv
<1> QED
  BY <1>1, InvariantHolds, PTL

\* Every operation of the plan is in the result once, cycle or not, and those
\* not behind a cycle come in an order that respects all their edges.
THEOREM ResultCorrect == Spec => []ResultTotal
<1>1. IInv => ResultTotal
  BY DEF IInv
<1> QED
  BY <1>1, InvariantHolds, PTL

\* The sort's ready list is the abstract order's set of candidates.
LEMMA ReadyIsFree ==
  ASSUME IInv, phase # "graph"
  PROVE  ready = Order!Free
<1> USE DEF IInv
<1>1. \A o \in Operation : remainingIncoming[o] = 0 <=> Predecessors(o) \subseteq Placed
  BY WaitingEmpty DEF Counts
<1>2. Order!Placed = Placed /\ \A o : Order!Predecessors(o) = Predecessors(o)
  BY DEF Placed, Order!Placed, Predecessors, Order!Predecessors
<1> QED
  BY <1>1, <1>2 DEF ReadyExact, Order!Free

\* Every step of the sort is a step of the abstract order or changes nothing
\* of it: the counts implement "all its dependencies are placed".
THEOREM Refinement == Spec => Order!Spec
<1>1. Init => Order!Init
  BY DEF Init, Order!Init
<1>2. IInv /\ [Next]_vars => [Order!Next]_<<outgoing, sorted>>
  <2> SUFFICES ASSUME IInv, [Next]_vars
               PROVE  Order!Next \/ UNCHANGED <<outgoing, sorted>>
    OBVIOUS
  <2>1. ASSUME NEW a \in Operation, NEW b \in Operation, AddEdge(a, b)
        PROVE  Order!Constrain
    BY <2>1 DEF AddEdge, Order!Constrain, IInv, NotStarted
  <2>2. CASE StartSort
    BY <2>2 DEF StartSort
  <2>3. CASE Pop
    <3>1. ready = Order!Free
      BY <2>3, ReadyIsFree DEF Pop
    <3>2. Order!Extend
      BY <2>3, <3>1 DEF Pop, Order!Extend
    <3> QED
      BY <3>2 DEF Order!Next
  <2>4. CASE Finish
    BY <2>4 DEF Finish
  <2>5. CASE UNCHANGED vars
    BY <2>5 DEF vars
  <2> QED
    BY <2>1, <2>2, <2>3, <2>4, <2>5 DEF Next, Order!Next
<1> QED
  BY <1>1, <1>2, InvariantHolds, PTL DEF Spec, Order!Spec

\* The same, for the property the run checks.
THEOREM ImplementsOrder == Spec => ImplementsLinearExtension
BY Refinement DEF ImplementsLinearExtension
================================================================================
