---------------------------- MODULE IterationProofs ----------------------------
(***************************************************************************)
(* Facts about natural numbers and about what a loop computes that several *)
(* proofs need: a set of naturals has a least element, and a function that *)
(* is defined by its value at 0 and a step from each number to the next    *)
(* exists, and stays where the step stays.  Both rest on < being           *)
(* well-founded.                                                           *)
(***************************************************************************)
EXTENDS Naturals, WellFoundedInduction, TLAPS

NatLess == {p \in Nat \X Nat : p[1] < p[2]}

\* Every set of natural numbers that is not empty has a least element.
LEMMA LeastNatural ==
  ASSUME NEW T \in SUBSET Nat, T # {}
  PROVE  \E n \in T : \A m \in T : n <= m
<1>1. IsWellFoundedOn(NatLess, Nat)
  BY NatLessThanWellFounded DEF OpToRel, NatLess
<1>2. PICK n \in T : \A m \in T : ~ (<<m, n>> \in NatLess)
  BY <1>1, WFMin
<1>3. ASSUME NEW m \in T PROVE n <= m
  <2>1. m \in Nat /\ n \in Nat
    OBVIOUS
  <2>2. <<m, n>> \in NatLess <=> m < n
    BY <2>1 DEF NatLess
  <2>3. ~ (<<m, n>> \in NatLess)
    BY <1>2
  <2> QED
    BY <2>1, <2>2, <2>3
<1> QED
  BY <1>3

\* A set of naturals that has 0 and with each number the next one has them all.
LEMMA AllNaturals ==
  ASSUME NEW T \in SUBSET Nat, 0 \in T, \A n \in T : n + 1 \in T
  PROVE  T = Nat
<1> SUFFICES ASSUME Nat \ T # {} PROVE FALSE
  OBVIOUS
<1>1. PICK n \in Nat \ T : \A m \in Nat \ T : n <= m
  BY LeastNatural
<1>2. n - 1 \in Nat /\ (n - 1) + 1 = n
  BY <1>1
<1>3. n - 1 \in T
  BY <1>1, <1>2
<1> QED
  BY <1>1, <1>2, <1>3

\* The first n rounds of a loop that starts with `start` and goes on by `step`, which
\* is told the round.
Rounds(X, start, step, n) ==
  {g \in [0 .. n -> X] : g[0] = start /\ \A i \in 1 .. n : g[i] = step[<<i, g[i - 1]>>]}

\* What a loop has computed is a function of the number of rounds.
LEMMA RoundsExist ==
  ASSUME NEW X, NEW start \in X, NEW step \in [Nat \X X -> X]
  PROVE  \A n \in Nat : Rounds(X, start, step, n) # {}
<1> DEFINE T == {n \in Nat : Rounds(X, start, step, n) # {}}
<1>1. 0 \in T
  <2>1. [i \in 0 .. 0 |-> start] \in Rounds(X, start, step, 0)
    BY DEF Rounds
  <2> QED
    BY <2>1
<1>2. ASSUME NEW n \in T PROVE n + 1 \in T
  <2>1. PICK g \in [0 .. n -> X] :
            g[0] = start /\ \A i \in 1 .. n : g[i] = step[<<i, g[i - 1]>>]
    BY DEF Rounds
  <2> DEFINE h == [i \in 0 .. n + 1 |-> IF i <= n THEN g[i] ELSE step[<<i, g[n]>>]]
  <2>2. h \in [0 .. n + 1 -> X]
    BY <2>1
  <2>3. h[0] = start
    BY <2>1
  <2>4. ASSUME NEW i \in 1 .. n + 1 PROVE h[i] = step[<<i, h[i - 1]>>]
    <3>1. i - 1 \in 0 .. n /\ h[i - 1] = g[i - 1]
      BY <2>4
    <3>2. CASE i <= n
      BY <2>1, <3>1, <3>2
    <3>3. CASE i = n + 1
      BY <3>1, <3>3
    <3> QED
      BY <3>2, <3>3
  <2>5. h \in Rounds(X, start, step, n + 1)
    BY <2>2, <2>3, <2>4 DEF Rounds
  <2> QED
    BY <2>5
<1> HIDE DEF T
<1>3. T = Nat
  <2>1. T \in SUBSET Nat
    BY DEF T
  <2> QED
    BY <1>1, <1>2, <2>1, AllNaturals
<1> QED
  BY <1>3 DEF T

\* A loop stays in the set that its step stays in.
LEMMA LoopStays ==
  ASSUME NEW X, NEW start \in X, NEW step \in [Nat \X X -> X], NEW m \in Nat, NEW f,
         f[0] = start, \A n \in 1 .. m : f[n - 1] \in X => f[n] = step[<<n, f[n - 1]>>]
  PROVE  \A n \in 0 .. m : f[n] \in X
<1> DEFINE T == {n \in Nat : n <= m => f[n] \in X}
<1>1. 0 \in T
  OBVIOUS
<1>2. ASSUME NEW n \in T PROVE n + 1 \in T
  <2> SUFFICES ASSUME n + 1 <= m PROVE f[n + 1] \in X
    OBVIOUS
  <2>1. f[n] \in X /\ n + 1 \in 1 .. m /\ (n + 1) - 1 = n /\ <<n + 1, f[n]>> \in Nat \X X
    OBVIOUS
  <2> QED
    BY <2>1
<1> HIDE DEF T
<1>3. T = Nat
  <2>1. T \in SUBSET Nat
    BY DEF T
  <2> QED
    BY <1>1, <1>2, <2>1, AllNaturals
<1> QED
  BY <1>3 DEF T

LEMMA RoundsAgree ==
  ASSUME NEW X, NEW start, NEW step, NEW n \in Nat, NEW m \in Nat,
         NEW g \in Rounds(X, start, step, n), NEW h \in Rounds(X, start, step, m)
  PROVE  \A i \in Nat : i <= n /\ i <= m => g[i] = h[i]
<1> DEFINE T == {i \in Nat : i <= n /\ i <= m => g[i] = h[i]}
<1>1. 0 \in T
  BY DEF Rounds
<1>2. ASSUME NEW i \in T PROVE i + 1 \in T
  <2> SUFFICES ASSUME i + 1 <= n, i + 1 <= m PROVE g[i + 1] = h[i + 1]
    OBVIOUS
  <2>1. g[i] = h[i]
    OBVIOUS
  <2>2. i + 1 \in 1 .. n /\ i + 1 \in 1 .. m /\ (i + 1) - 1 = i
    OBVIOUS
  <2> QED
    BY <2>1, <2>2 DEF Rounds
<1> HIDE DEF T
<1>3. T = Nat
  <2>1. T \in SUBSET Nat
    BY DEF T
  <2> QED
    BY <1>1, <1>2, <2>1, AllNaturals
<1> QED
  BY <1>3 DEF T

\* A loop without an end, whose step is the same in each round.
LEMMA IterationExists ==
  ASSUME NEW X, NEW start \in X, NEW step \in [X -> X]
  PROVE  \E f \in [Nat -> X] : /\ f[0] = start
                               /\ \A n \in Nat \ {0} : f[n] = step[f[n - 1]]
<1> DEFINE round == [p \in Nat \X X |-> step[p[2]]]
           some(n) == CHOOSE g \in Rounds(X, start, round, n) : TRUE
           f == [n \in Nat |-> some(n)[n]]
<1>0. round \in [Nat \X X -> X] /\ \A n \in Nat, x \in X : round[<<n, x>>] = step[x]
  OBVIOUS
<1> HIDE DEF round
<1>1. ASSUME NEW n \in Nat PROVE some(n) \in Rounds(X, start, round, n)
  <2>1. Rounds(X, start, round, n) # {}
    BY <1>0, RoundsExist
  <2> QED
    BY <2>1
<1> HIDE DEF some
<1>2. f \in [Nat -> X]
  BY <1>1 DEF Rounds
<1>3. f[0] = start
  BY <1>1 DEF Rounds
<1>4. ASSUME NEW n \in Nat \ {0} PROVE f[n] = step[f[n - 1]]
  <2>1. n - 1 \in Nat /\ n - 1 <= n
    OBVIOUS
  <2>2. some(n)[n - 1] = some(n - 1)[n - 1]
    BY <1>1, <2>1, RoundsAgree
  <2>3. some(n)[n] = round[<<n, some(n)[n - 1]>>] /\ some(n)[n - 1] \in X
    BY <1>1, <2>1 DEF Rounds
  <2> QED
    BY <1>0, <2>1, <2>2, <2>3
<1> QED
  BY <1>2, <1>3, <1>4
================================================================================
