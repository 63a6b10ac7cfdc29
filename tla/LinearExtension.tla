---------------------------- MODULE LinearExtension ----------------------------
(***************************************************************************)
(* What an ordering of migration operations promises, without saying how   *)
(* it is computed.  Dependencies are fixed first.  Then the order grows by *)
(* one operation at a time: always the operation that comes first in the   *)
(* base order among those whose dependencies are all placed.  The order is *)
(* therefore a function of the dependencies and of the base order alone.   *)
(***************************************************************************)
EXTENDS Integers, Sequences, FiniteSets

CONSTANTS Operation,    \* the operations of one plan
          Position      \* the base order: the rank, ordinal and key of each

VARIABLES outgoing,     \* outgoing[a]: the operations that must follow a
          sorted        \* the order, as far as it is fixed

Predecessors(o) == {p \in Operation : o \in outgoing[p]}

Placed == {sorted[i] : i \in DOMAIN sorted}

\* The operations that may come next.
Free == {o \in Operation \ Placed : Predecessors(o) \subseteq Placed}

Init == /\ outgoing = [o \in Operation |-> {}]
        /\ sorted = <<>>

Constrain == /\ sorted = <<>>
             /\ \E a, b \in Operation :
                  outgoing' = [o \in Operation |->
                                 IF o = a THEN outgoing[a] \cup {b} ELSE outgoing[o]]
             /\ UNCHANGED sorted

Extend == /\ \E o \in Free : /\ \A p \in Free : Position[o] <= Position[p]
                             /\ sorted' = Append(sorted, o)
          /\ UNCHANGED outgoing

Next == Constrain \/ Extend

Spec == Init /\ [][Next]_<<outgoing, sorted>>
================================================================================
