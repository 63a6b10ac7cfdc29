------------------------ MODULE PrivilegeHistoryProofs ------------------------
(***************************************************************************)
(* The three properties of PrivilegeHistory for every kind of object,      *)
(* every set of rights that statements name and histories of every length. *)
(* ReplayNeverWidens: what a model grants is what its GRANT names and no   *)
(* later REVOKE of it takes back (Held); each lane of the normalisation    *)
(* grants no more than it was given, under what replay makes of a model    *)
(* (Fit).  SourcesAgree: the lanes keep the net grant of statements by     *)
(* name (Net).  DeploysExactly: a migration drops, then creates and        *)
(* replaces, at most one grant and one revoke (Migrated as AfterDrops and  *)
(* Put); what a grant reverses is what it gave.                            *)
(***************************************************************************)
EXTENDS PrivilegeHistory, IterationProofs

\* What a revoke of these rights takes.
Gone(r, rights) == r \in rights \/ <<r[1], Whole>> \in rights

\* The model O grants r, in a grant and in no later revoke.
Held(O, r) ==
  \E g \in Grants(O) : /\ r \in g.rights
                       /\ \A v \in Revokes(O) : g.ordinal < v.ordinal => ~Gone(r, v.rights)

\* The same for the right to grant it on.
HeldOption(O, r) ==
  \E g \in Grants(O) : /\ r \in g.options
                       /\ \A v \in Revokes(O) : g.ordinal < v.ordinal => ~Gone(r, v.rights)

\* M grants no more than O.
Within(M, O) == \A r : (Held(M, r) => Held(O, r)) /\ (HeldOption(M, r) => HeldOption(O, r))

\* Objects of statements 1 to b, one for a statement; an option is on a right
\* that is granted, or granted on the whole object.
Typed(k, O, b) ==
  \A o \in O : /\ o.verb \in {"GRANT", "REVOKE"}
               /\ o.rights \in SUBSET Rights(k)
               /\ o.options \in SUBSET Rights(k)
               /\ \A r \in o.options : Gone(r, o.rights)
               /\ o.ordinal \in 1 .. b
Distinct(O) == \A o, p \in O : o.ordinal = p.ordinal => o = p

\* At most one grant and one revoke.
Single(O) == \A o, p \in O : o.verb = p.verb => o = p

\* Revokes come after grants, or there is but one.
InOrder(O) == \A g \in Grants(O), v \in Revokes(O) : g.ordinal < v.ordinal
Fit(O) == \/ InOrder(O)
          \/ \A v, w \in Revokes(O) : v = w

--------------------------------------------------------------------------------
(* Absorption and the ordinals *)

LEMMA AbsorbedGone ==
  ASSUME NEW k, NEW rights \in SUBSET Rights(k)
  PROVE  /\ Absorbed(rights) \in SUBSET rights
         /\ \A r : Gone(r, Absorbed(rights)) <=> Gone(r, rights)
<1>1. Absorbed(rights) \in SUBSET rights
  BY DEF Absorbed
<1>2. ASSUME NEW r, Gone(r, rights) PROVE Gone(r, Absorbed(rights))
  <2>1. CASE <<r[1], Whole>> \in rights
    BY <2>1 DEF Absorbed, Gone
  <2>2. CASE r \in rights /\ <<r[1], Whole>> \notin rights
    BY <2>2 DEF Absorbed, Gone
  <2> QED
    BY <1>2, <2>1, <2>2 DEF Gone
<1> QED
  BY <1>1, <1>2 DEF Gone

LEMMA EarliestIs ==
  ASSUME NEW k, NEW O, NEW b \in Nat, Typed(k, O, b), O # {}
  PROVE  /\ \E o \in O : Earliest(O) = o.ordinal
         /\ \A o \in O : Earliest(O) <= o.ordinal
<1> DEFINE T == {o.ordinal : o \in O}
<1>1. T \in SUBSET Nat /\ T # {}
  BY DEF Typed
<1>2. PICK n \in T : \A m \in T : n <= m
  BY <1>1, LeastNatural
<1>3. \A o \in O : n <= o.ordinal
  BY <1>2
<1>4. Earliest(O) \in T /\ \A o \in O : Earliest(O) <= o.ordinal
  BY <1>2, <1>3 DEF Earliest
<1> QED
  BY <1>4

LEMMA LatestIs ==
  ASSUME NEW k, NEW O, NEW b \in Nat, Typed(k, O, b), O # {}
  PROVE  /\ \E o \in O : Latest(O) = o.ordinal
         /\ \A o \in O : o.ordinal <= Latest(O)
<1> DEFINE T == {n \in Nat : \A o \in O : o.ordinal <= n}
<1>1. b \in T
  BY DEF Typed
<1>2. PICK n \in T : \A m \in T : n <= m
  BY <1>1, LeastNatural
<1>3. \E o \in O : n = o.ordinal
  <2> SUFFICES ASSUME \A o \in O : n # o.ordinal PROVE FALSE
    OBVIOUS
  <2>1. \A o \in O : o.ordinal \in Nat /\ o.ordinal < n
    BY <1>2 DEF Typed
  <2>2. n - 1 \in Nat
    BY <2>1, O # {}, SMT
  <2>3. n - 1 \in T
    BY <2>1, <2>2
  <2> QED
    BY <1>2, <2>3
<1>4. Latest(O) \in {o.ordinal : o \in O} /\ \A o \in O : o.ordinal <= Latest(O)
  BY <1>2, <1>3 DEF Latest
<1> QED
  BY <1>4

--------------------------------------------------------------------------------
(* The lanes *)

\* A subset of a fit model is fit.
LEMMA SubsetKeeps ==
  ASSUME NEW k, NEW O, NEW b, Typed(k, O, b), Distinct(O), NEW M \in SUBSET O
  PROVE  Typed(k, M, b) /\ Distinct(M) /\ (Fit(O) => Fit(M))
<1>1. Grants(M) \subseteq Grants(O) /\ Revokes(M) \subseteq Revokes(O)
  BY DEF Grants, Revokes
<1>2. Typed(k, M, b) /\ Distinct(M)
  BY DEF Typed, Distinct
<1>3. Fit(O) => Fit(M)
  BY <1>1 DEF Fit, InOrder
<1> QED
  BY <1>2, <1>3

\* A revoke of statement n is left out together with every grant before it.
LEMMA ClearKeeps ==
  ASSUME NEW k, NEW O, NEW b \in Nat, Typed(k, O, b), Distinct(O), NEW n \in Nat,
         NEW clearing \in SUBSET {v \in Revokes(O) : v.ordinal = n}
  PROVE  Within(O \ (clearing \cup {g \in Grants(O) : g.ordinal < n}), O)
<1> DEFINE M == O \ (clearing \cup {g \in Grants(O) : g.ordinal < n})
<1>1. ASSUME NEW g \in Grants(M), NEW v \in Revokes(O), g.ordinal < v.ordinal
      PROVE  g \in Grants(O) /\ v \in Revokes(M)
  <2>1. g \in Grants(O) /\ ~(g.ordinal < n)
    BY DEF Grants
  <2>2. g.ordinal \in Nat /\ v.ordinal \in Nat
    BY <2>1 DEF Typed, Grants, Revokes
  <2>3. v.ordinal # n
    BY <1>1, <2>1, <2>2
  <2>4. v \notin clearing
    BY <2>3
  <2>5. v \notin Grants(O)
    BY DEF Grants, Revokes
  <2> QED
    BY <2>1, <2>4, <2>5 DEF Revokes
<1>2. Grants(M) \subseteq Grants(O)
  BY DEF Grants
<1> HIDE DEF M
<1> QED
  BY <1>1, <1>2 DEF Within, Held, HeldOption, M

\* What lane 1 leaves out when the loop comes to statement n.
Clearing(k, rest, n) == {v \in Revokes(rest) : v.ordinal = n /\ Clears(k, v, rest)}
LeftOut(k, rest, n) == Clearing(k, rest, n) \cup {g \in Grants(rest) : g.ordinal < n}

\* The loop of lane 1 stays in a set of models that its body stays in.
LEMMA ClearedStays ==
  ASSUME NEW k, NEW O, NEW b \in Nat, Typed(k, O, b), NEW X, O \in X,
         \A n \in Nat, rest \in X : Clearing(k, rest, n) # {} => rest \ LeftOut(k, rest, n) \in X
  PROVE  SuppressCleared(k, O) \in X
<1>1. CASE IsBuiltinPublic(k) \/ O = {}
  BY <1>1 DEF SuppressCleared
<1>2. CASE ~(IsBuiltinPublic(k) \/ O = {})
  <2> DEFINE clearing(rest, n) == {v \in Revokes(rest) : v.ordinal = n /\ Clears(k, v, rest)}
             next(n, rest) ==
               IF clearing(rest, n) = {} THEN rest
               ELSE rest \ (clearing(rest, n) \cup {g \in Grants(rest) : g.ordinal < n})
             step == [p \in Nat \X X |-> next(p[1], p[2])]
             L == Latest(O)
             after[n \in 0 .. L] == IF n = 0 THEN O ELSE next(n, after[n - 1])
  <2>1. L \in Nat
    BY <1>2, LatestIs DEF Typed
  <2>2. ASSUME NEW n \in Nat, NEW rest \in X PROVE next(n, rest) \in X
    BY DEF Clearing, LeftOut
  <2> HIDE DEF next
  <2>3. step \in [Nat \X X -> X] /\ \A n \in Nat, rest \in X : step[<<n, rest>>] = next(n, rest)
    BY <2>2
  <2> HIDE DEF step, L
  <2>4. after = [n \in 0 .. L |-> IF n = 0 THEN O ELSE next(n, after[n - 1])]
    <3> SUFFICES \E ff : ff = [n \in 0 .. L |-> IF n = 0 THEN O ELSE next(n, ff[n - 1])]
      OBVIOUS
    <3>0. step \in [Nat \X X -> X]
      BY <2>3
    <3>a. Rounds(X, O, step, L) # {}
      BY <2>1, <3>0, RoundsExist
    <3>1. PICK g \in [0 .. L -> X] : g[0] = O /\ \A n \in 1 .. L : g[n] = step[<<n, g[n - 1]>>]
      BY <3>a DEF Rounds
    <3>2. \A n \in 1 .. L : g[n] = next(n, g[n - 1])
      <4> SUFFICES ASSUME NEW n \in 1 .. L PROVE g[n] = next(n, g[n - 1])
        OBVIOUS
      <4>1. n \in Nat /\ n - 1 \in 0 .. L
        BY <2>1
      <4>2. g[n - 1] \in X
        BY <3>1, <4>1
      <4> QED
        BY <2>3, <3>1, <4>1, <4>2
    <3>3. g = [n \in 0 .. L |-> IF n = 0 THEN O ELSE next(n, g[n - 1])]
      BY <2>1, <3>1, <3>2
    <3> QED
      BY <3>3
  <2> HIDE DEF after
  <2>5. after[0] = O /\ \A n \in 1 .. L : after[n] = next(n, after[n - 1])
    <3>1. 0 \in 0 .. L /\ \A n \in 1 .. L : n \in 0 .. L /\ n # 0
      BY <2>1
    <3> QED
      BY <2>4, <3>1
  <2>6. \A n \in 1 .. L : after[n - 1] \in X => after[n] = step[<<n, after[n - 1]>>]
    <3>1. \A n \in 1 .. L : n \in Nat
      BY <2>1
    <3> QED
      BY <2>3, <2>5, <3>1
  <2>7. \A n \in 0 .. L : after[n] \in X
    BY <2>1, <2>3, <2>5, <2>6, LoopStays
  <2>8. after[L] \in X
    BY <2>1, <2>7
  <2>9. SuppressCleared(k, O) = after[L]
    BY <1>2 DEF SuppressCleared, after, L, next
  <2> QED
    BY <2>8, <2>9
<1> QED
  BY <1>1, <1>2

\* Lane 1 leaves some of the objects out.
LEMMA ClearedKeeps ==
  ASSUME NEW k, NEW O, NEW b \in Nat, Typed(k, O, b), Distinct(O)
  PROVE  SuppressCleared(k, O) \in SUBSET O /\ Within(SuppressCleared(k, O), O)
<1> DEFINE X == {M \in SUBSET O : Within(M, O)}
<1>1. O \in X
  BY DEF Within
<1>2. ASSUME NEW n \in Nat, NEW rest \in X PROVE rest \ LeftOut(k, rest, n) \in X
  <2>1. rest \in SUBSET O /\ Within(rest, O)
    OBVIOUS
  <2>2. Typed(k, rest, b) /\ Distinct(rest)
    BY <2>1, SubsetKeeps
  <2> DEFINE left == rest \ LeftOut(k, rest, n)
  <2>3. Clearing(k, rest, n) \in SUBSET {v \in Revokes(rest) : v.ordinal = n}
    BY DEF Clearing
  <2>4. Within(left, rest)
    BY <2>2, <2>3, ClearKeeps DEF LeftOut
  <2>5. left \in SUBSET O
    BY <2>1
  <2> HIDE DEF left
  <2>6. left \in X
    BY <2>1, <2>4, <2>5 DEF Within
  <2> QED
    BY <2>6 DEF left
<1> HIDE DEF X
<1>3. SuppressCleared(k, O) \in X
  BY <1>1, <1>2, ClearedStays
<1> QED
  BY <1>3 DEF X

\* Privileges of the whole object are gone when they are named.
LEMMA GoneByName ==
  ASSUME NEW k, NEW g, NEW v, g.rights \in SUBSET Rights(k), ~OfColumns(g), NEW r \in g.rights
  PROVE  Gone(r, v.rights) <=> r \in v.rights
<1>1. r[2] = Whole
  BY DEF OfColumns
<1>2. r = <<r[1], r[2]>>
  BY DEF Rights
<1> QED
  BY <1>1, <1>2 DEF Gone

\* Lane 2 grants what is left.
LEMMA InterleavedKeeps ==
  ASSUME NEW k, NEW O, NEW b \in Nat, Typed(k, O, b), Distinct(O)
  PROVE  /\ Typed(k, ResolveInterleaved(k, O), b)
         /\ Distinct(ResolveInterleaved(k, O))
         /\ Fit(O) => Fit(ResolveInterleaved(k, O))
         /\ Within(ResolveInterleaved(k, O), O)
<1> DEFINE M == ResolveInterleaved(k, O)
<1>1. CASE Grants(O) = {} \/ Revokes(O) = {} \/ \E o \in O : ~Nettable(k, o)
  <2>1. M = O
    BY <1>1 DEF ResolveInterleaved
  <2> QED
    BY <2>1 DEF Within
<1>2. CASE ~(Grants(O) = {} \/ Revokes(O) = {} \/ \E o \in O : ~Nettable(k, o))
  <2>1. CASE Net(O) = {}
    <3>1. M = {}
      BY <1>2, <2>1 DEF ResolveInterleaved
    <3> QED
      BY <3>1 DEF Typed, Distinct, Fit, Within, Held, HeldOption, Grants, Revokes
  <2>2. CASE Net(O) # {}
    <3> DEFINE net == [verb |-> "GRANT", rights |-> Net(O), options |-> {},
                       ordinal |-> Earliest(Grants(O))]
    <3>1. M = {net}
      BY <1>2, <2>2 DEF ResolveInterleaved
    <3>2. net.ordinal \in 1 .. b
      <4>1. Grants(O) # {} /\ Grants(O) \in SUBSET O
        BY <1>2 DEF Grants
      <4>2. Typed(k, Grants(O), b)
        BY <4>1 DEF Typed
      <4>3. \E g \in Grants(O) : Earliest(Grants(O)) = g.ordinal
        BY <4>1, <4>2, EarliestIs
      <4> QED
        BY <4>2, <4>3 DEF Typed
    <3>3. Net(O) \in SUBSET Rights(k)
      BY DEF Net, Grants, Typed
    <3>4. Typed(k, M, b)
      BY <3>1, <3>2, <3>3 DEF Typed
    <3>5. Revokes(M) = {} /\ Grants(M) = {net}
      BY <3>1 DEF Revokes, Grants
    <3>6. Distinct(M) /\ Fit(M)
      BY <3>1, <3>5 DEF Distinct, Fit
    <3>7. ASSUME NEW r \in Net(O) PROVE Held(O, r)
      <4>1. PICK g \in Grants(O) :
               r \in g.rights /\ \A v \in Revokes(O) : v.ordinal > g.ordinal => r \notin v.rights
        BY DEF Net
      <4>2. g \in O /\ ~OfColumns(g) /\ g.rights \in SUBSET Rights(k) /\ g.ordinal \in Nat
        BY <1>2 DEF Grants, Nettable, Typed
      <4>3. \A v \in Revokes(O) : Gone(r, v.rights) <=> r \in v.rights
        BY <4>1, <4>2, GoneByName
      <4>4. \A v \in Revokes(O) : v.ordinal \in Nat
        BY DEF Revokes, Typed
      <4> QED
        BY <4>1, <4>2, <4>3, <4>4 DEF Held
    <3>8. Within(M, O)
      BY <3>5, <3>7 DEF Within, Held, HeldOption
    <3> QED
      BY <3>4, <3>6, <3>8
  <2> QED
    BY <2>1, <2>2
<1> QED
  BY <1>1, <1>2

\* One group merged.
LEMMA GroupKeeps ==
  ASSUME NEW k, NEW O, NEW b \in Nat, Typed(k, O, b), O # {}, NEW verb \in {"GRANT", "REVOKE"}
  PROVE  /\ Typed(k, {MergeGroup(verb, O)}, b)
         /\ MergeGroup(verb, O).verb = verb
         /\ MergeGroup(verb, O).rights \in SUBSET UNION {o.rights : o \in O}
         /\ MergeGroup(verb, O).options \in SUBSET UNION {o.options : o \in O}
         /\ \A r : Gone(r, MergeGroup(verb, O).rights) <=> \E o \in O : Gone(r, o.rights)
<1> DEFINE all == UNION {o.rights : o \in O}
           onward == UNION {o.options : o \in O}
<1>1. all \in SUBSET Rights(k) /\ onward \in SUBSET Rights(k)
  BY DEF Typed
<1>2. Absorbed(all) \in SUBSET all /\ \A r : Gone(r, Absorbed(all)) <=> Gone(r, all)
  BY <1>1, AbsorbedGone
<1>3. Absorbed(onward) \in SUBSET onward
  BY DEF Absorbed
<1>4. \A r : Gone(r, all) <=> \E o \in O : Gone(r, o.rights)
  BY DEF Gone
<1>5. Earliest(O) \in 1 .. b
  BY EarliestIs DEF Typed
<1>6. \A r \in onward : Gone(r, all)
  BY <1>4 DEF Typed
<1> HIDE DEF all, onward
<1>7. MergeGroup(verb, O) = [verb |-> verb, rights |-> Absorbed(all),
                            options |-> Absorbed(onward), ordinal |-> Earliest(O)]
  BY DEF MergeGroup, all, onward
<1>8. Typed(k, {MergeGroup(verb, O)}, b)
  BY <1>1, <1>2, <1>3, <1>5, <1>6, <1>7 DEF Typed
<1> QED
  BY <1>2, <1>3, <1>4, <1>7, <1>8 DEF all, onward

\* Lane 3 merges each verb into one, and drops no revoke behind a grant.
LEMMA MergeKeeps ==
  ASSUME NEW k, NEW O, NEW b \in Nat, Typed(k, O, b), Distinct(O)
  PROVE  /\ Typed(k, MergeSplit(O), b)
         /\ Distinct(MergeSplit(O))
         /\ Single(MergeSplit(O))
         /\ Fit(O) => Within(MergeSplit(O), O)
<1> DEFINE M == MergeSplit(O)
           G == Grants(O)
           V == Revokes(O)
           grant == MergeGroup("GRANT", G)
           revoke == MergeGroup("REVOKE", V)
<1>1. /\ Typed(k, G, b) /\ Typed(k, V, b)
      /\ G \in SUBSET O /\ V \in SUBSET O
      /\ \A g \in G, v \in V : g # v
  BY DEF Typed, Grants, Revokes
<1>2. M = {m \in {grant} : G # {}} \cup {m \in {revoke} : V # {}}
  BY DEF MergeSplit
<1>3. ASSUME G # {}
      PROVE  /\ Typed(k, {grant}, b) /\ grant.verb = "GRANT"
             /\ grant.rights \in SUBSET UNION {g.rights : g \in G}
             /\ grant.options \in SUBSET UNION {g.options : g \in G}
  BY <1>1, <1>3, GroupKeeps
<1>4. ASSUME V # {}
      PROVE  /\ Typed(k, {revoke}, b) /\ revoke.verb = "REVOKE"
             /\ \A r : Gone(r, revoke.rights) <=> \E v \in V : Gone(r, v.rights)
  BY <1>1, <1>4, GroupKeeps
<1>5. grant.ordinal = Earliest(G) /\ revoke.ordinal = Earliest(V)
  BY DEF MergeGroup
<1>6. /\ G # {} => (\E g \in G : grant.ordinal = g.ordinal) /\ \A g \in G : grant.ordinal <= g.ordinal
      /\ V # {} => (\E v \in V : revoke.ordinal = v.ordinal) /\ \A v \in V : revoke.ordinal <= v.ordinal
  BY <1>1, <1>5, EarliestIs
<1>7. \A o, p \in O : o.ordinal \in Nat /\ (o.ordinal = p.ordinal => o = p)
  BY DEF Typed, Distinct
<1> HIDE DEF M, G, V, grant, revoke
<1>8. G # {} /\ V # {} => grant.ordinal # revoke.ordinal
  BY <1>1, <1>6, <1>7
<1>9. Typed(k, M, b) /\ Distinct(M) /\ Single(M)
  BY <1>2, <1>3, <1>4, <1>8 DEF Typed, Distinct, Single
<1>10. /\ Grants(M) = {m \in {grant} : G # {}}
       /\ Revokes(M) = {m \in {revoke} : V # {}}
  BY <1>2, <1>3, <1>4 DEF Grants, Revokes
<1>11. ASSUME Fit(O), G # {}, NEW r,
              \A v \in Revokes(M) : grant.ordinal < v.ordinal => ~Gone(r, v.rights)
       PROVE  \A g \in G, v \in V : g.ordinal < v.ordinal => ~Gone(r, v.rights)
  <2>1. CASE V = {}
    BY <2>1
  <2>2. CASE V # {} /\ grant.ordinal < revoke.ordinal
    <3>1. ~Gone(r, revoke.rights)
      BY <1>10, <1>11, <2>2
    <3> QED
      BY <1>4, <2>2, <3>1
  <2>3. CASE V # {} /\ ~(grant.ordinal < revoke.ordinal)
    <3>1. PICK g1 \in G : grant.ordinal = g1.ordinal
      BY <1>6, <1>11
    <3>2. PICK v1 \in V : revoke.ordinal = v1.ordinal
      BY <1>6, <2>3
    <3>3. ~(g1.ordinal < v1.ordinal)
      BY <2>3, <3>1, <3>2
    <3>4. \A v \in V : v = v1
      BY <1>11, <3>3 DEF Fit, InOrder, G, V
    <3>5. \A g \in G : ~(g.ordinal < v1.ordinal)
      BY <1>1, <1>6, <1>7, <1>11, <3>1, <3>3
    <3> QED
      BY <3>4, <3>5
  <2> QED
    BY <2>1, <2>2, <2>3
<1>12. ASSUME Fit(O) PROVE Within(M, O)
  <2>1. ASSUME NEW r, Held(M, r) PROVE Held(O, r)
    <3>1. G # {} /\ r \in grant.rights
          /\ \A v \in Revokes(M) : grant.ordinal < v.ordinal => ~Gone(r, v.rights)
      BY <1>10, <2>1 DEF Held
    <3>2. PICK g \in G : r \in g.rights
      BY <1>3, <3>1
    <3> QED
      BY <1>11, <1>12, <3>1, <3>2 DEF Held, G, V
  <2>2. ASSUME NEW r, HeldOption(M, r) PROVE HeldOption(O, r)
    <3>1. G # {} /\ r \in grant.options
          /\ \A v \in Revokes(M) : grant.ordinal < v.ordinal => ~Gone(r, v.rights)
      BY <1>10, <2>2 DEF HeldOption
    <3>2. PICK g \in G : r \in g.options
      BY <1>3, <3>1
    <3> QED
      BY <1>11, <1>12, <3>1, <3>2 DEF HeldOption, G, V
  <2> QED
    BY <2>1, <2>2 DEF Within
<1> QED
  BY <1>9, <1>12 DEF M

\* A revoke that names no privilege of a grant takes nothing of it.
LEMMA DisjointKeeps ==
  ASSUME NEW g, NEW v, Privileges(g) \cap Privileges(v) = {}, NEW r, Gone(r, g.rights)
  PROVE  ~Gone(r, v.rights)
<1>1. r[1] \in Privileges(g)
  BY DEF Gone, Privileges
<1>2. Gone(r, v.rights) => r[1] \in Privileges(v)
  BY DEF Gone, Privileges
<1> QED
  BY <1>1, <1>2

\* Lane 4: a grant that stays keeps the revokes that take something of it, and
\* a revoke that stays comes after the grants.
LEMMA SuppressKeeps ==
  ASSUME NEW k, NEW O, NEW b \in Nat, Typed(k, O, b), Distinct(O), Single(O), ~IsBuiltinPublic(k)
  PROVE  /\ SuppressDefaultEqual(k, O) \in SUBSET O
         /\ Within(SuppressDefaultEqual(k, O), O)
         /\ InOrder(SuppressDefaultEqual(k, O))
<1> DEFINE M == SuppressDefaultEqual(k, O)
           G == Grants(O)
           V == Revokes(O)
           undone == \E v \in V : ~Moot(k, v, G) /\ Undoes(k, v, G)
<1>1. M = {g \in G : ~undone} \cup {v \in V : ~Moot(k, v, G) /\ ~Undoes(k, v, G)}
  BY DEF SuppressDefaultEqual
<1>2. /\ G \in SUBSET O /\ V \in SUBSET O /\ \A g \in G, v \in V : g # v
      /\ \A g \in G : g.verb = "GRANT"
      /\ \A v \in V : v.verb = "REVOKE"
  BY DEF Grants, Revokes
<1>3. ASSUME NEW g \in G
      PROVE  G = {g} /\ Latest(G) = g.ordinal
  <2>1. G = {g}
    BY <1>2 DEF Single
  <2>2. Typed(k, G, b) /\ G # {}
    BY <1>2, <2>1 DEF Typed
  <2> QED
    BY <2>1, <2>2, LatestIs
<1> HIDE DEF undone, G, V, M
<1>4. /\ Grants(M) = {g \in G : ~undone}
      /\ Revokes(M) = {v \in V : ~Moot(k, v, G) /\ ~Undoes(k, v, G)}
  BY <1>1, <1>2 DEF Grants, Revokes
<1>5. ASSUME NEW g \in G, NEW v \in V, Moot(k, v, G), g.ordinal < v.ordinal,
             NEW r, Gone(r, g.rights)
      PROVE  ~Gone(r, v.rights)
  <2>1. g.ordinal \in Nat /\ v.ordinal \in Nat
    BY <1>2 DEF Typed
  <2>2. ~(v.ordinal < Latest(G))
    BY <1>3, <1>5, <2>1
  <2>3. Privileges(g) \cap Privileges(v) = {}
    BY <1>5, <2>2 DEF Moot
  <2> QED
    BY <1>5, <2>3, DisjointKeeps
<1>6. ASSUME NEW g \in Grants(M), NEW v \in V, g.ordinal < v.ordinal, NEW r, Gone(r, g.rights),
             \A w \in Revokes(M) : g.ordinal < w.ordinal => ~Gone(r, w.rights)
      PROVE  ~Gone(r, v.rights)
  <2>1. g \in G /\ ~undone
    BY <1>4
  <2>2. Moot(k, v, G) \/ v \in Revokes(M)
    BY <1>4, <2>1 DEF undone, V, G
  <2> QED
    BY <1>5, <1>6, <2>1, <2>2
<1>7. ASSUME NEW g \in Grants(M)
      PROVE  /\ g \in G
             /\ \A r \in g.rights : Gone(r, g.rights)
             /\ \A r \in g.options : Gone(r, g.rights)
  BY <1>2, <1>4 DEF Gone, Typed
<1>8. Within(M, O)
  <2>1. ASSUME NEW r, Held(M, r) PROVE Held(O, r)
    <3>1. PICK g \in Grants(M) : /\ r \in g.rights
              /\ \A w \in Revokes(M) : g.ordinal < w.ordinal => ~Gone(r, w.rights)
      BY <2>1 DEF Held
    <3> QED
      BY <1>6, <1>7, <3>1 DEF Held, G, V
  <2>2. ASSUME NEW r, HeldOption(M, r) PROVE HeldOption(O, r)
    <3>1. PICK g \in Grants(M) : /\ r \in g.options
              /\ \A w \in Revokes(M) : g.ordinal < w.ordinal => ~Gone(r, w.rights)
      BY <2>2 DEF HeldOption
    <3> QED
      BY <1>6, <1>7, <3>1 DEF HeldOption, G, V
  <2> QED
    BY <2>1, <2>2 DEF Within
<1>9. ASSUME NEW g \in Grants(M), NEW v \in Revokes(M) PROVE g.ordinal < v.ordinal
  <2>1. g \in G /\ v \in V /\ ~Moot(k, v, G)
    BY <1>4
  <2>2. ~(v.ordinal < g.ordinal)
    BY <1>3, <2>1 DEF Moot
  <2>3. g.ordinal \in Nat /\ v.ordinal \in Nat /\ g.ordinal # v.ordinal
    BY <1>2, <2>1 DEF Typed, Distinct
  <2> QED
    BY <2>2, <2>3
<1>10. M \in SUBSET O
  BY <1>1, <1>2
<1> QED
  BY <1>8, <1>9, <1>10 DEF M, InOrder

\* All four: at most one grant and a revoke after it, which grant no more.
LEMMA NormalisedKeeps ==
  ASSUME NEW k, NEW O, NEW b \in Nat, Typed(k, O, b), Distinct(O), Fit(O), ~IsBuiltinPublic(k)
  PROVE  /\ Typed(k, Normalised(k, O), b) /\ Distinct(Normalised(k, O)) /\ Single(Normalised(k, O))
         /\ InOrder(Normalised(k, O)) /\ Within(Normalised(k, O), O)
<1> DEFINE A == SuppressCleared(k, O)
           B == ResolveInterleaved(k, A)
           C == MergeSplit(B)
           D == SuppressDefaultEqual(k, C)
<1>1. A \in SUBSET O /\ Within(A, O)
  BY ClearedKeeps
<1>2. Typed(k, A, b) /\ Distinct(A) /\ Fit(A)
  BY <1>1, SubsetKeeps
<1> HIDE DEF A
<1>3. Typed(k, B, b) /\ Distinct(B) /\ Fit(B) /\ Within(B, A)
  BY <1>2, InterleavedKeeps
<1> HIDE DEF B
<1>4. Typed(k, C, b) /\ Distinct(C) /\ Single(C) /\ Within(C, B)
  BY <1>3, MergeKeeps
<1> HIDE DEF C
<1>5. D \in SUBSET C /\ Within(D, C) /\ InOrder(D)
  BY <1>4, SuppressKeeps
<1>6. Typed(k, D, b) /\ Distinct(D)
  BY <1>4, <1>5, SubsetKeeps
<1> HIDE DEF D
<1>7. Single(D)
  BY <1>4, <1>5 DEF Single
<1>8. Within(D, O)
  BY <1>1, <1>3, <1>4, <1>5 DEF Within
<1> QED
  BY <1>5, <1>6, <1>7, <1>8 DEF A, B, C, D, Normalised

--------------------------------------------------------------------------------
(* What a model builds *)

\* The migration from nothing to a model leaves what was there from the start
\* and no revoke takes, and what the model grants.
LEMMA BuildsHeld ==
  ASSUME NEW k, NEW to, NEW b \in Nat, Typed(k, to, b), Distinct(to)
  PROVE  /\ \A r \in Migrated(Fresh(k), {}, to).rights :
               \/ r \in Fresh(k).rights /\ \A v \in Revokes(to) : ~Gone(r, v.rights)
               \/ Held(to, r) \/ HeldOption(to, r)
         /\ \A r \in Migrated(Fresh(k), {}, to).options : HeldOption(to, r)
<1> DEFINE last == IF {} \cup to = {} THEN 0 ELSE Latest({} \cup to)
           dropped[n \in 0 .. last + 1] ==
             LET drops == {o \in {} : Before(o, to) = {} /\ o.ordinal = last + 1 - n}
             IN  IF n = 0 THEN Fresh(k)
                 ELSE IF drops = {} THEN dropped[n - 1]
                 ELSE Removed(dropped[n - 1], CHOOSE o \in drops : TRUE)
           upserts(n) == {o \in to : Changed(o, {}) /\ o.ordinal = n - 1}
           upsert(n, acl0) == IF upserts(n) = {} THEN acl0
                              ELSE Upserted(acl0, CHOOSE o \in upserts(n) : TRUE, {})
           upserted[n \in 0 .. last + 1] ==
             IF n = 0 THEN dropped[last + 1] ELSE upsert(n, upserted[n - 1])
           X == [rights : SUBSET (Rights(k) \cup k.initial \X {Whole}), options : SUBSET Rights(k)]
           step == [p \in Nat \X X |-> upsert(p[1], p[2])]
           top == last + 1
<1>1. last \in Nat /\ \A o \in to : o.ordinal \in Nat /\ o.ordinal <= last
  <2>1. CASE to = {}
    BY <2>1
  <2>2. CASE to # {}
    BY <2>2, LatestIs DEF Typed
  <2> QED
    BY <2>1, <2>2
<1>2. Migrated(Fresh(k), {}, to) = upserted[last + 1]
  BY DEF Migrated
<1> HIDE DEF last
<1>3. top \in Nat /\ top \in 0 .. last + 1 /\ 0 \in 0 .. last + 1
  BY <1>1
<1>4. Fresh(k) \in X
  BY DEF Fresh
<1>5. \A n : upserts(n) = {o \in to : o.ordinal = n - 1}
  BY DEF Changed, Contents
<1> HIDE DEF upserts
<1>6. ASSUME NEW n, NEW acl0 \in X
      PROVE  /\ upsert(n, acl0) \in X
             /\ \/ upserts(n) = {} /\ upsert(n, acl0) = acl0
                \/ \E o \in upserts(n) : upsert(n, acl0) = Created(acl0, o)
  <2>1. CASE upserts(n) = {}
    BY <2>1
  <2>2. CASE upserts(n) # {}
    <3> DEFINE o == CHOOSE o \in upserts(n) : TRUE
    <3>1. o \in upserts(n)
      BY <2>2
    <3>2. upsert(n, acl0) = Upserted(acl0, o, {})
      BY <2>2
    <3> HIDE DEF o
    <3>3. upsert(n, acl0) = Created(acl0, o)
      BY <3>2 DEF Upserted, Before
    <3>4. o.rights \in SUBSET Rights(k) /\ o.options \in SUBSET Rights(k)
      BY <1>5, <3>1 DEF Typed
    <3>5. Created(acl0, o) \in X
      BY <3>4 DEF Created, Grant, Revoke
    <3> QED
      BY <3>1, <3>3, <3>5
  <2> QED
    BY <2>1, <2>2
<1> HIDE DEF upsert, X, step
<1>7. dropped[last + 1] = Fresh(k)
  <2>1. dropped = [n \in 0 .. last + 1 |-> IF n = 0 THEN Fresh(k) ELSE dropped[n - 1]]
    <3> SUFFICES \E f : f = [n \in 0 .. last + 1 |-> IF n = 0 THEN Fresh(k) ELSE f[n - 1]]
      OBVIOUS
    <3> DEFINE f == [n \in 0 .. last + 1 |-> Fresh(k)]
    <3>1. \A n \in 0 .. last + 1 : n # 0 => n - 1 \in 0 .. last + 1
      BY <1>1
    <3>2. f = [n \in 0 .. last + 1 |-> IF n = 0 THEN Fresh(k) ELSE f[n - 1]]
      BY <3>1
    <3> QED
      BY <3>2
  <2> HIDE DEF dropped
  <2>2. dropped[0] = Fresh(k) /\ \A n \in 1 .. last + 1 : dropped[n] = dropped[n - 1]
    <3>1. 0 \in 0 .. last + 1 /\ \A n \in 1 .. last + 1 : n \in 0 .. last + 1 /\ n # 0
      BY <1>1
    <3> QED
      BY <2>1, <3>1
  <2> DEFINE T == {n \in Nat : n <= last + 1 => dropped[n] = Fresh(k)}
  <2>3. 0 \in T
    BY <2>2
  <2>4. ASSUME NEW n \in T PROVE n + 1 \in T
    <3> SUFFICES ASSUME n + 1 <= last + 1 PROVE dropped[n + 1] = Fresh(k)
      OBVIOUS
    <3>1. n + 1 \in 1 .. last + 1 /\ (n + 1) - 1 = n /\ n <= last + 1
      BY <1>1
    <3> QED
      BY <2>2, <3>1
  <2> HIDE DEF T
  <2>5. T = Nat
    <3>1. T \in SUBSET Nat
      BY DEF T
    <3> QED
      BY <2>3, <2>4, <3>1, AllNaturals
  <2> QED
    BY <1>1, <2>5 DEF T
<1> HIDE DEF dropped
<1>8. step \in [Nat \X X -> X] /\ \A n \in Nat, acl0 \in X : step[<<n, acl0>>] = upsert(n, acl0)
  BY <1>6 DEF step
<1>9. upserted = [n \in 0 .. last + 1 |-> IF n = 0 THEN Fresh(k) ELSE upsert(n, upserted[n - 1])]
  <2> SUFFICES \E ff : ff = [n \in 0 .. last + 1 |-> IF n = 0 THEN Fresh(k) ELSE upsert(n, ff[n - 1])]
    BY <1>7
  <2>1. Rounds(X, Fresh(k), step, top) # {}
    BY <1>3, <1>4, <1>8, RoundsExist
  <2>2. PICK g \in [0 .. top -> X] : g[0] = Fresh(k) /\ \A n \in 1 .. top : g[n] = step[<<n, g[n - 1]>>]
    BY <2>1 DEF Rounds
  <2>3. \A n \in 1 .. top : g[n] = upsert(n, g[n - 1])
    <3> SUFFICES ASSUME NEW n \in 1 .. top PROVE g[n] = upsert(n, g[n - 1])
      OBVIOUS
    <3>1. n \in Nat /\ n - 1 \in 0 .. top
      BY <1>3
    <3>2. g[n - 1] \in X
      BY <2>2, <3>1
    <3> QED
      BY <1>8, <2>2, <3>1, <3>2
  <2>4. g = [n \in 0 .. last + 1 |-> IF n = 0 THEN Fresh(k) ELSE upsert(n, g[n - 1])]
    BY <1>3, <2>2, <2>3
  <2> QED
    BY <2>4
<1> HIDE DEF upserted
<1>10. upserted[0] = Fresh(k) /\ \A n \in 1 .. top : upserted[n] = upsert(n, upserted[n - 1])
  <2>1. 0 \in 0 .. last + 1 /\ \A n \in 1 .. top : n \in 0 .. last + 1 /\ n # 0
    BY <1>3
  <2> QED
    BY <1>9, <2>1
<1> DEFINE fromStart(r, n) ==
             r \in Fresh(k).rights /\ \A v \in Revokes(to) : v.ordinal < n => ~Gone(r, v.rights)
           stays(g, r, n) ==
             /\ g.ordinal < n
             /\ \A v \in Revokes(to) : v.ordinal < n /\ g.ordinal < v.ordinal => ~Gone(r, v.rights)
           granted(r, n) == \E g \in Grants(to) : r \in g.rights /\ stays(g, r, n)
           onward(r, n) == \E g \in Grants(to) : r \in g.options /\ stays(g, r, n)
           good(n, a) == /\ a \in X
                         /\ \A r \in a.rights : fromStart(r, n) \/ granted(r, n) \/ onward(r, n)
                         /\ \A r \in a.options : onward(r, n)
<1>11. good(0, Fresh(k))
  <2>1. \A v \in Revokes(to) : ~(v.ordinal < 0)
    BY <1>1 DEF Revokes
  <2> QED
    BY <1>4, <2>1 DEF Fresh
<1>12. \A o, p \in to : o.ordinal = p.ordinal => o = p
  BY DEF Distinct
<1>13. ASSUME NEW n \in Nat, NEW a, good(n, a) PROVE good(n + 1, upsert(n + 1, a))
  <2>1. \A o \in to : o.ordinal \in Nat /\ (o.ordinal < n + 1 <=> o.ordinal < n \/ o.ordinal = n)
    BY <1>1
  <2>2. upserts(n + 1) = {o \in to : o.ordinal = n}
    BY <1>5
  <2>3. CASE upserts(n + 1) = {} /\ upsert(n + 1, a) = a
    <3>1. \A o \in to : o.ordinal < n + 1 <=> o.ordinal < n
      BY <2>1, <2>2, <2>3
    <3>2. \A o \in Grants(to) \cup Revokes(to) : o.ordinal < n + 1 <=> o.ordinal < n
      BY <3>1 DEF Grants, Revokes
    <3> QED
      BY <1>13, <2>3, <3>2
  <2>4. ASSUME NEW o \in upserts(n + 1), upsert(n + 1, a) = Created(a, o)
        PROVE  good(n + 1, Created(a, o))
    <3>1. o \in to /\ o.ordinal = n /\ \A p \in to : p.ordinal = n => p = o
      BY <1>12, <2>2
    <3>2. CASE o.verb = "GRANT"
      <4>1. /\ Created(a, o).rights = a.rights \cup o.rights \cup o.options
            /\ Created(a, o).options = a.options \cup o.options
        BY <3>2 DEF Created, Grant
      <4>2. o \in Grants(to) /\ \A v \in Revokes(to) : v.ordinal < n + 1 => v.ordinal < n
        BY <2>1, <3>1, <3>2 DEF Grants, Revokes
      <4>3. \A g \in Grants(to) : g.ordinal < n => g.ordinal < n + 1
        BY <2>1 DEF Grants
      <4>4. \A r : /\ fromStart(r, n) => fromStart(r, n + 1)
                   /\ granted(r, n) => granted(r, n + 1)
                   /\ onward(r, n) => onward(r, n + 1)
        BY <4>2, <4>3
      <4>5. \A r : stays(o, r, n + 1)
        BY <2>1, <3>1, <4>2 DEF Revokes
      <4>6. \A r : /\ r \in o.rights => granted(r, n + 1)
                   /\ r \in o.options => onward(r, n + 1)
        BY <4>2, <4>5
      <4>7. Created(a, o) \in X
        BY <1>6, <1>13, <2>4
      <4> HIDE DEF fromStart, granted, onward
      <4> QED
        BY <1>13, <4>1, <4>4, <4>6, <4>7
    <3>3. CASE o.verb # "GRANT"
      <4>1. /\ Created(a, o).rights = {r \in a.rights : ~Gone(r, o.rights)}
            /\ Created(a, o).options = {r \in a.options : ~Gone(r, o.rights)}
        BY <3>3 DEF Created, Revoke, Gone
      <4>2. \A v \in Revokes(to) : v.ordinal < n + 1 => v.ordinal < n \/ v = o
        BY <2>1, <3>1 DEF Revokes
      <4>3. \A g \in Grants(to) : g.ordinal < n => g.ordinal < n + 1
        BY <2>1 DEF Grants
      <4>4. \A r : ~Gone(r, o.rights) =>
                   /\ fromStart(r, n) => fromStart(r, n + 1)
                   /\ granted(r, n) => granted(r, n + 1)
                   /\ onward(r, n) => onward(r, n + 1)
        BY <4>2, <4>3
      <4>5. Created(a, o) \in X
        BY <1>6, <1>13, <2>4
      <4> HIDE DEF fromStart, granted, onward
      <4> QED
        BY <1>13, <4>1, <4>4, <4>5
    <3> QED
      BY <3>2, <3>3
  <2>5. a \in X
    BY <1>13
  <2> HIDE DEF good
  <2> QED
    BY <1>6, <2>3, <2>4, <2>5
<1> HIDE DEF good
<1> DEFINE T == {n \in Nat : n <= top => good(n, upserted[n])}
<1>14. T = Nat
  <2>1. 0 \in T
    BY <1>10, <1>11
  <2>2. ASSUME NEW n \in T PROVE n + 1 \in T
    <3> SUFFICES ASSUME n + 1 <= top PROVE good(n + 1, upserted[n + 1])
      OBVIOUS
    <3>1. n + 1 \in 1 .. top /\ (n + 1) - 1 = n /\ n <= top
      BY <1>3
    <3>2. upserted[n + 1] = upsert(n + 1, upserted[n])
      BY <1>10, <3>1
    <3> QED
      BY <1>13, <3>1, <3>2
  <2> HIDE DEF T
  <2>3. T \in SUBSET Nat
    BY DEF T
  <2> QED
    BY <2>1, <2>2, <2>3, AllNaturals
<1>15. good(top, upserted[top])
  BY <1>3, <1>14
<1>16. \A o \in Grants(to) \cup Revokes(to) : o.ordinal < top
  BY <1>1 DEF Grants, Revokes
<1> QED
  BY <1>2, <1>15, <1>16 DEF good, Held, HeldOption

--------------------------------------------------------------------------------
(* PUBLIC on a kind on which it has a privilege from the start *)

\* Each object names the one privilege there is.
Plain(k, O) == \A o \in O : o.rights = AllOf(k) /\ o.options = {}

LEMMA PublicRights ==
  ASSUME NEW k \in Kinds, IsBuiltinPublic(k)
  PROVE  /\ \E p : AllOf(k) = {<<p, Whole>>} /\ Rights(k) = {<<p, Whole>>}
         /\ Fresh(k).rights = AllOf(k)
         /\ Absorbed(AllOf(k)) = AllOf(k)
<1>1. PICK p : k.privileges = {p} /\ k.initial = {p} /\ k.columns = {}
  BY KindsAssumption DEF IsBuiltinPublic
<1>2. AllOf(k) = {<<p, Whole>>} /\ Rights(k) = {<<p, Whole>>}
  BY <1>1 DEF AllOf, Rights
<1>3. Fresh(k).rights = AllOf(k)
  BY <1>1 DEF Fresh, AllOf
<1>4. Absorbed(AllOf(k)) = AllOf(k)
  BY <1>2 DEF Absorbed
<1> QED
  BY <1>2, <1>3, <1>4

\* Only revokes remain, and none is lost.
LEMMA PublicNormalised ==
  ASSUME NEW k \in Kinds, IsBuiltinPublic(k),
         NEW O, NEW b \in Nat, Typed(k, O, b), Distinct(O), Plain(k, O)
  PROVE  LET N == Normalised(k, O)
         IN  /\ Typed(k, N, b) /\ Distinct(N) /\ Single(N) /\ Plain(k, N)
             /\ Grants(N) = {}
             /\ Revokes(O) # {} => Revokes(N) # {}
<1> DEFINE C == MergeSplit(O)
           D == SuppressDefaultEqual(k, C)
<1>1. Normalised(k, O) = D
  <2>1. SuppressCleared(k, O) = O
    BY DEF SuppressCleared
  <2>2. ResolveInterleaved(k, O) = O
    BY DEF ResolveInterleaved, Nettable, Grants
  <2> QED
    BY <2>1, <2>2 DEF Normalised
<1>2. Typed(k, C, b) /\ Distinct(C) /\ Single(C)
  BY MergeKeeps
<1>3. ASSUME NEW verb \in {"GRANT", "REVOKE"}, NEW G \in SUBSET O, G # {}
      PROVE  /\ MergeGroup(verb, G).rights = AllOf(k) /\ MergeGroup(verb, G).options = {}
             /\ MergeGroup(verb, G).verb = verb
  <2>1. UNION {o.rights : o \in G} = AllOf(k) /\ UNION {o.options : o \in G} = {}
    BY <1>3 DEF Plain
  <2> QED
    BY <2>1, PublicRights DEF MergeGroup, Absorbed
<1>4. Grants(O) \in SUBSET O /\ Revokes(O) \in SUBSET O
  BY DEF Grants, Revokes
<1>5. Plain(k, C) /\ (Revokes(O) # {} => \E v \in C : v.verb = "REVOKE")
  BY <1>3, <1>4 DEF Plain, MergeSplit
<1> HIDE DEF C
<1>6. D = {o \in C : o.verb = "GRANT" => ~IsAll(k, o)}
  BY DEF SuppressDefaultEqual
<1>7. D \in SUBSET C /\ (\A o \in D : o.verb # "GRANT")
      /\ \A v \in C : v.verb = "REVOKE" => v \in D
  BY <1>5, <1>6 DEF Plain, IsAll
<1> HIDE DEF D
<1>8. Typed(k, D, b) /\ Distinct(D) /\ Single(D)
  BY <1>2, <1>7, SubsetKeeps DEF Single
<1>9. Plain(k, D) /\ Grants(D) = {} /\ (Revokes(O) # {} => Revokes(D) # {})
  BY <1>5, <1>7 DEF Plain, Grants, Revokes
<1> QED
  BY <1>1, <1>8, <1>9

--------------------------------------------------------------------------------
(* The inductive invariant *)

HistoryTyped == kind \in Kinds /\ history \in Seq(Statements)

ModelTyped == Typed(kind, replayed, Len(history)) /\ Distinct(replayed)

\* What the model grants was granted and not revoked since.
ModelHeld ==
  ~IsBuiltinPublic(kind) =>
     /\ Single(replayed) /\ InOrder(replayed)
     /\ \A r : /\ Held(replayed, r) => r \in acl.rights
               /\ HeldOption(replayed, r) => r \in acl.options
     /\ acl.options \subseteq acl.rights

\* PUBLIC is without what it had only if the model has a revoke.
PublicHeld ==
  IsBuiltinPublic(kind) =>
     /\ Plain(kind, replayed)
     /\ AllOf(kind) \subseteq acl.rights \/ Revokes(replayed) # {}

WidenInv == HistoryTyped /\ ModelTyped /\ ModelHeld /\ PublicHeld

LEMMA ObjectTyped ==
  ASSUME kind \in Kinds, NEW s \in Statements, NEW n \in Nat \ {0}
  PROVE  /\ Typed(kind, {ObjectOf(s, n)}, n)
         /\ ObjectOf(s, n).verb = s.verb
         /\ ObjectOf(s, n).ordinal = n
         /\ ObjectOf(s, n).rights \in SUBSET s.rights
         /\ ObjectOf(s, n).options \in SUBSET s.rights
         /\ ~s.option => ObjectOf(s, n).options = {}
         /\ \A r : Gone(r, ObjectOf(s, n).rights) <=> Gone(r, s.rights)
<1>1. s.verb \in {"GRANT", "REVOKE"} /\ s.rights \in SUBSET Rights(kind)
  BY DEF Statements
<1>2. Absorbed(s.rights) \in SUBSET s.rights /\ \A r : Gone(r, Absorbed(s.rights)) <=> Gone(r, s.rights)
  BY <1>1, AbsorbedGone
<1>3. \A r \in s.rights : Gone(r, s.rights)
  BY DEF Gone
<1>4. ObjectOf(s, n).options \in SUBSET s.rights
  BY <1>2 DEF ObjectOf
<1> QED
  BY <1>1, <1>2, <1>3, <1>4 DEF ObjectOf, Typed

\* A statement executed and replayed, of a role without privileges from the start.
LEMMA ReplayKeeps ==
  ASSUME WidenInv, ~IsBuiltinPublic(kind), NEW s \in Statements
  PROVE  LET M == ReplayStatement(kind, replayed, s, Len(history) + 1)
             after == Perform(acl, s)
         IN  /\ Typed(kind, M, Len(history) + 1) /\ Distinct(M)
             /\ Single(M) /\ InOrder(M)
             /\ \A r : /\ Held(M, r) => r \in after.rights
                       /\ HeldOption(M, r) => r \in after.options
             /\ after.options \subseteq after.rights
<1> DEFINE b == Len(history)
           n == b + 1
           new == ObjectOf(s, n)
           O == replayed \cup {new}
           M == ReplayStatement(kind, replayed, s, n)
           after == Perform(acl, s)
<1>1. b \in Nat /\ n \in Nat \ {0} /\ b < n
  BY DEF WidenInv, HistoryTyped
<1>2. /\ Typed(kind, {new}, n) /\ new.verb = s.verb /\ new.ordinal = n
      /\ new.rights \in SUBSET s.rights /\ new.options \in SUBSET s.rights
      /\ (~s.option => new.options = {})
      /\ \A r : Gone(r, new.rights) <=> Gone(r, s.rights)
  BY <1>1, ObjectTyped DEF WidenInv, HistoryTyped
<1>3. s.verb \in {"GRANT", "REVOKE"} /\ s.option \in BOOLEAN /\ (s.option => s.verb = "GRANT")
  BY DEF Statements
<1> HIDE DEF new, b, n
<1>4. \A o \in replayed : o.ordinal \in Nat /\ o.ordinal < n /\ o.ordinal # n
  BY <1>1 DEF WidenInv, ModelTyped, Typed, b, n
<1>5. Typed(kind, O, n) /\ Distinct(O)
  <2>1. Typed(kind, replayed, n)
    BY <1>1 DEF WidenInv, ModelTyped, Typed, b, n
  <2>2. Typed(kind, O, n)
    BY <1>2, <2>1 DEF Typed
  <2>3. Distinct(O)
    BY <1>2, <1>4 DEF Distinct, WidenInv, ModelTyped
  <2> QED
    BY <2>2, <2>3
<1> DEFINE sound ==
             /\ Fit(O)
             /\ \A r : (Held(O, r) => r \in after.rights) /\ (HeldOption(O, r) => r \in after.options)
             /\ after.options \subseteq after.rights
<1>6. ASSUME s.verb = "GRANT" PROVE sound
  <2>1. Grants(O) = Grants(replayed) \cup {new} /\ Revokes(O) = Revokes(replayed)
    BY <1>2, <1>6 DEF Grants, Revokes
  <2>2. Fit(O)
    BY <2>1 DEF Fit, WidenInv, ModelHeld, Single, Revokes
  <2>3. \A r : r \in s.rights => r \in after.rights /\ (s.option => r \in after.options)
    BY <1>6 DEF Perform, Grant
  <2>4. acl.rights \subseteq after.rights /\ acl.options \subseteq after.options
    BY <1>6 DEF Perform, Grant
  <2>5. \A r : Held(O, r) => r \in s.rights \/ Held(replayed, r)
    BY <1>2, <2>1 DEF Held
  <2>6. \A r : HeldOption(O, r) => (s.option /\ r \in s.rights) \/ HeldOption(replayed, r)
    BY <1>2, <2>1 DEF HeldOption
  <2>7. after.options \subseteq after.rights
    BY <1>3, <1>6 DEF Perform, Grant, WidenInv, ModelHeld
  <2>8. \A r : (Held(O, r) => r \in after.rights) /\ (HeldOption(O, r) => r \in after.options)
    BY <2>3, <2>4, <2>5, <2>6 DEF WidenInv, ModelHeld
  <2> QED
    BY <2>2, <2>7, <2>8
<1>7. ASSUME s.verb = "REVOKE" PROVE sound
  <2>1. Grants(O) = Grants(replayed) /\ Revokes(O) = Revokes(replayed) \cup {new}
    BY <1>2, <1>7 DEF Grants, Revokes
  <2>2. \A g \in Grants(O) : g.ordinal < new.ordinal
    BY <1>2, <1>4, <2>1 DEF Grants
  <2>3. Fit(O)
    BY <2>1, <2>2 DEF Fit, InOrder, WidenInv, ModelHeld
  <2>4. \A r : /\ r \in after.rights <=> r \in acl.rights /\ ~Gone(r, s.rights)
               /\ r \in after.options <=> r \in acl.options /\ ~Gone(r, s.rights)
    BY <1>7 DEF Perform, Revoke, Gone
  <2>5. \A r : Held(O, r) => Held(replayed, r) /\ ~Gone(r, s.rights)
    BY <1>2, <2>1, <2>2 DEF Held
  <2>6. \A r : HeldOption(O, r) => HeldOption(replayed, r) /\ ~Gone(r, s.rights)
    BY <1>2, <2>1, <2>2 DEF HeldOption
  <2> QED
    BY <2>3, <2>4, <2>5, <2>6 DEF WidenInv, ModelHeld
<1>8. sound
  BY <1>3, <1>6, <1>7
<1>9. Typed(kind, M, n) /\ Distinct(M) /\ Single(M) /\ InOrder(M) /\ Within(M, O)
  <2>1. CASE replayed = {}
    <3>1. M = O /\ \A o, p \in O : o = p
      BY <2>1 DEF ReplayStatement, new
    <3> QED
      BY <1>5, <1>8, <3>1 DEF Single, Within, InOrder, Grants, Revokes
  <2>2. CASE replayed # {}
    <3>1. M = Normalised(kind, O)
      BY <2>2 DEF ReplayStatement, new
    <3> QED
      BY <1>1, <1>5, <1>8, <3>1, NormalisedKeeps
  <2> QED
    BY <2>1, <2>2
<1> QED
  BY <1>8, <1>9 DEF Within, n, b

\* A statement executed and replayed, of PUBLIC.
LEMMA PublicReplayKeeps ==
  ASSUME WidenInv, IsBuiltinPublic(kind), NEW s \in Statements
  PROVE  LET M == ReplayStatement(kind, replayed, s, Len(history) + 1)
             after == Perform(acl, s)
         IN  /\ Typed(kind, M, Len(history) + 1) /\ Distinct(M) /\ Plain(kind, M)
             /\ AllOf(kind) \subseteq after.rights \/ Revokes(M) # {}
<1> DEFINE b == Len(history)
           n == b + 1
           new == ObjectOf(s, n)
           O == replayed \cup {new}
           M == ReplayStatement(kind, replayed, s, n)
<1>1. b \in Nat /\ n \in Nat \ {0} /\ b < n /\ kind \in Kinds
  BY DEF WidenInv, HistoryTyped
<1>2. s.rights = AllOf(kind) /\ ~s.option /\ s.verb \in {"GRANT", "REVOKE"}
  <2>1. s.rights \in Named /\ s.rights \subseteq Rights(kind) /\ ~s.option /\ s.verb \in {"GRANT", "REVOKE"}
    BY DEF Statements
  <2>2. s.rights # {}
    BY <2>1, NamedAssumption
  <2> QED
    BY <1>1, <2>1, <2>2, PublicRights
<1>3. /\ Typed(kind, {new}, n) /\ new.verb = s.verb /\ new.ordinal = n
      /\ new.rights = AllOf(kind) /\ new.options = {}
  BY <1>1, <1>2, ObjectTyped, PublicRights DEF ObjectOf
<1> HIDE DEF new, b, n
<1>4. \A o \in replayed : o.ordinal \in Nat /\ o.ordinal < n /\ o.ordinal # n
  BY <1>1 DEF WidenInv, ModelTyped, Typed, b, n
<1>5. Typed(kind, O, n) /\ Distinct(O)
  <2>1. Typed(kind, replayed, n)
    BY <1>1 DEF WidenInv, ModelTyped, Typed, b, n
  <2>2. Typed(kind, O, n)
    BY <1>3, <2>1 DEF Typed
  <2>3. Distinct(O)
    BY <1>3, <1>4 DEF Distinct, WidenInv, ModelTyped
  <2> QED
    BY <2>2, <2>3
<1>6. Plain(kind, O)
  BY <1>3 DEF Plain, WidenInv, PublicHeld
<1>7. s.verb = "GRANT" => AllOf(kind) \subseteq Perform(acl, s).rights
  BY <1>2 DEF Perform, Grant
<1>8. s.verb = "REVOKE" => Revokes(O) # {}
  BY <1>3 DEF Revokes
<1>9. Typed(kind, M, n) /\ Distinct(M) /\ Plain(kind, M) /\ (Revokes(O) # {} => Revokes(M) # {})
  <2>1. CASE replayed = {}
    <3>1. M = O
      BY <2>1 DEF ReplayStatement, new
    <3> QED
      BY <1>5, <1>6, <3>1
  <2>2. CASE replayed # {}
    <3>1. M = Normalised(kind, O)
      BY <2>2 DEF ReplayStatement, new
    <3> QED
      BY <1>1, <1>5, <1>6, <3>1, PublicNormalised
  <2> QED
    BY <2>1, <2>2
<1> QED
  BY <1>2, <1>7, <1>8, <1>9 DEF n, b

LEMMA WidenInvariant == Spec => []WidenInv
<1>1. Init => WidenInv
  <2> SUFFICES ASSUME Init PROVE WidenInv
    OBVIOUS
  <2>1. HistoryTyped
    BY DEF Init, HistoryTyped
  <2>2. replayed = {} /\ Grants(replayed) = {} /\ Revokes(replayed) = {}
    BY DEF Init, Grants, Revokes
  <2>3. ModelTyped
    BY <2>2 DEF ModelTyped, Typed, Distinct
  <2>4. ModelHeld
    BY <2>2 DEF Init, ModelHeld, Single, InOrder, Held, HeldOption, Fresh
  <2>5. PublicHeld
    BY <2>2, PublicRights DEF Init, PublicHeld, Plain
  <2> QED
    BY <2>1, <2>3, <2>4, <2>5 DEF WidenInv
<1>2. WidenInv /\ [Next]_vars => WidenInv'
  <2> SUFFICES ASSUME WidenInv, [Next]_vars PROVE WidenInv'
    OBVIOUS
  <2>1. ASSUME NEW s \in Statements, Write(s) PROVE WidenInv'
    <3>1. /\ kind' = kind /\ history' = Append(history, s) /\ acl' = Perform(acl, s)
          /\ replayed' = ReplayStatement(kind, replayed, s, Len(history) + 1)
      BY <2>1 DEF Write
    <3>2. Statements' = Statements
      BY <3>1 DEF Statements
    <3>3. HistoryTyped' /\ Len(history') = Len(history) + 1
      BY <3>1, <3>2 DEF WidenInv, HistoryTyped
    <3>4. CASE IsBuiltinPublic(kind)
      BY <3>1, <3>3, <3>4, PublicReplayKeeps DEF WidenInv, ModelTyped, ModelHeld, PublicHeld
    <3>5. CASE ~IsBuiltinPublic(kind)
      BY <3>1, <3>3, <3>5, ReplayKeeps DEF WidenInv, ModelTyped, ModelHeld, PublicHeld
    <3> QED
      BY <3>4, <3>5
  <2>2. ASSUME UNCHANGED <<kind, history, acl, replayed>> PROVE WidenInv'
    BY <2>2 DEF WidenInv, HistoryTyped, Statements, ModelTyped, ModelHeld, PublicHeld
  <2>3. ASSUME NEW from, Deploy(from) PROVE WidenInv'
    BY <2>2, <2>3 DEF Deploy
  <2>4. CASE Rewrite
    <3>1. kind' = kind /\ history' = <<>> /\ acl' = Fresh(kind) /\ replayed' = {} /\ kind \in Kinds
      BY <2>4 DEF Rewrite, WidenInv, HistoryTyped
    <3>2. HistoryTyped'
      BY <3>1 DEF HistoryTyped, Statements
    <3>3. Grants(replayed') = {} /\ Revokes(replayed') = {}
      BY <3>1 DEF Grants, Revokes
    <3>4. ModelTyped'
      BY <3>1 DEF ModelTyped, Typed, Distinct
    <3>5. ModelHeld'
      BY <3>1, <3>3 DEF ModelHeld, Single, InOrder, Held, HeldOption, Fresh
    <3>6. PublicHeld'
      BY <3>1, <3>3, PublicRights DEF PublicHeld, Plain
    <3> QED
      BY <3>2, <3>4, <3>5, <3>6 DEF WidenInv
  <2>5. CASE UNCHANGED vars
    BY <2>2, <2>5 DEF vars
  <2> QED
    BY <2>1, <2>3, <2>4, <2>5 DEF Next
<1> QED
  BY <1>1, <1>2, PTL DEF Spec

\* However grants, revokes and partial revokes alternate, and whatever the lanes
\* cancel, merge and leave out, a database built from the model that was replayed
\* from migrations grants nothing that the migrations do not.
THEOREM NeverWidens == Spec => []ReplayNeverWidens
<1>1. WidenInv => ReplayNeverWidens
  <2> SUFFICES ASSUME WidenInv PROVE ReplayNeverWidens
    OBVIOUS
  <2> DEFINE N == Normalised(kind, replayed)
             built == Migrated(Fresh(kind), {}, N)
             b == Len(history)
  <2>1. b \in Nat /\ kind \in Kinds /\ Typed(kind, replayed, b) /\ Distinct(replayed)
    BY DEF WidenInv, HistoryTyped, ModelTyped
  <2>2. SUFFICES built.rights \subseteq acl.rights /\ built.options \subseteq acl.options
    BY DEF ReplayNeverWidens, Effective, Absorbed, Built, Reconstructed
  <2> HIDE DEF b
  <2>3. CASE ~IsBuiltinPublic(kind)
    <3>1. Fit(replayed)
      BY <2>3 DEF Fit, WidenInv, ModelHeld
    <3>2. Typed(kind, N, b) /\ Distinct(N) /\ Within(N, replayed)
      BY <2>1, <2>3, <3>1, NormalisedKeeps
    <3> HIDE DEF N
    <3>3. /\ \A r \in built.rights : r \in Fresh(kind).rights \/ Held(N, r) \/ HeldOption(N, r)
          /\ \A r \in built.options : HeldOption(N, r)
      BY <2>1, <3>2, BuildsHeld
    <3>4. Fresh(kind).rights = {}
      BY <2>3 DEF Fresh, IsBuiltinPublic
    <3> QED
      BY <2>3, <3>2, <3>3, <3>4 DEF Within, WidenInv, ModelHeld
  <2>4. CASE IsBuiltinPublic(kind)
    <3>1. /\ Plain(kind, replayed)
          /\ AllOf(kind) \subseteq acl.rights \/ Revokes(replayed) # {}
      BY <2>4 DEF WidenInv, PublicHeld
    <3>2. /\ Typed(kind, N, b) /\ Distinct(N) /\ Plain(kind, N) /\ Grants(N) = {}
          /\ Revokes(replayed) # {} => Revokes(N) # {}
      BY <2>1, <2>4, <3>1, PublicNormalised
    <3> HIDE DEF N
    <3>3. /\ \A r \in built.rights : r \in AllOf(kind) /\ \A v \in Revokes(N) : ~Gone(r, v.rights)
          /\ built.options = {}
      BY <2>1, <2>4, <3>2, BuildsHeld, PublicRights DEF Held, HeldOption
    <3>4. \A v \in Revokes(N) : v.rights = AllOf(kind)
      BY <3>2 DEF Plain, Revokes
    <3> QED
      BY <3>1, <3>2, <3>3, <3>4 DEF Gone
  <2> QED
    BY <2>3, <2>4
<1> QED
  BY <1>1, WidenInvariant, PTL

--------------------------------------------------------------------------------
(* The net grant *)

\* Grants and revokes of privileges of the whole object by their names, none
\* of them all.
Names(k, O) == \A o \in O : /\ o.rights \in SUBSET AllOf(k)
                            /\ o.rights # {}
                            /\ ~(AllOf(k) \subseteq o.rights)
                            /\ o.options = {}

LEMMA WholeRights ==
  ASSUME NEW k, NEW rights \in SUBSET AllOf(k)
  PROVE  /\ Absorbed(rights) = rights
         /\ \A r \in rights : r = <<r[1], Whole>> /\ r[2] = Whole
<1>1. \A r \in k.privileges \X {Whole} : r = <<r[1], Whole>> /\ r[2] = Whole
  OBVIOUS
<1>2. \A r \in rights : r = <<r[1], Whole>> /\ r[2] = Whole
  BY <1>1 DEF AllOf
<1> QED
  BY <1>2 DEF Absorbed

\* Lane 1 leaves out what the net grant does not have.
LEMMA ClearedNet ==
  ASSUME NEW k, NEW O, NEW b \in Nat, Typed(k, O, b), Distinct(O), Names(k, O)
  PROVE  SuppressCleared(k, O) \in SUBSET O /\ Net(SuppressCleared(k, O)) = Net(O)
<1> DEFINE X == {M \in SUBSET O : Net(M) = Net(O)}
<1>1. O \in X
  OBVIOUS
<1>2. ASSUME NEW n \in Nat, NEW rest \in X, Clearing(k, rest, n) # {}
      PROVE  rest \ LeftOut(k, rest, n) \in X
  <2> DEFINE left == rest \ LeftOut(k, rest, n)
  <2>1. rest \in SUBSET O /\ Net(rest) = Net(O)
    OBVIOUS
  <2>2. PICK v \in Revokes(rest) : v.ordinal = n /\ Clears(k, v, rest)
    BY <1>2 DEF Clearing
  <2>3. \A o, p \in rest : o.ordinal \in Nat /\ (o.ordinal = p.ordinal => o = p)
    BY <2>1 DEF Typed, Distinct
  <2>4. Clearing(k, rest, n) = {v}
    BY <2>2, <2>3 DEF Clearing, Revokes
  <2>5. /\ Grants(left) = {g \in Grants(rest) : ~(g.ordinal < n)}
        /\ Revokes(left) = Revokes(rest) \ {v}
    BY <2>2, <2>4 DEF LeftOut, Grants, Revokes
  <2>6. ASSUME NEW g \in Grants(rest), g.ordinal < n, NEW r \in g.rights PROVE r \in v.rights
    <3>1. g \in O /\ v \in O /\ g.rights \in SUBSET AllOf(k) /\ v.rights \in SUBSET AllOf(k)
      BY <2>1, <2>2 DEF Names, Grants, Revokes
    <3>2. ~IsAll(k, v)
      BY <3>1 DEF Names, IsAll
    <3>3. Privileges(g) \subseteq Privileges(v)
      BY <2>2, <2>6, <3>2 DEF Clears, RevokeCovers
    <3>4. PICK q \in v.rights : q[1] = r[1]
      BY <2>6, <3>3 DEF Privileges
    <3>5. r = <<r[1], Whole>> /\ q = <<q[1], Whole>>
      BY <2>6, <3>1, <3>4, WholeRights
    <3> QED
      BY <3>4, <3>5
  <2> HIDE DEF left
  <2>7. ASSUME NEW r \in Net(rest) PROVE r \in Net(left)
    <3>1. PICK g \in Grants(rest) :
             r \in g.rights /\ \A w \in Revokes(rest) : w.ordinal > g.ordinal => r \notin w.rights
      BY <2>7 DEF Net
    <3>2. ~(g.ordinal < n)
      BY <2>2, <2>3, <2>6, <3>1 DEF Grants
    <3> QED
      BY <2>5, <3>1, <3>2 DEF Net
  <2>8. ASSUME NEW r \in Net(left) PROVE r \in Net(rest)
    <3>1. PICK g \in Grants(left) :
             r \in g.rights /\ \A w \in Revokes(left) : w.ordinal > g.ordinal => r \notin w.rights
      BY <2>8 DEF Net
    <3>2. g \in Grants(rest) /\ ~(v.ordinal > g.ordinal)
      BY <2>2, <2>3, <2>5, <3>1 DEF Grants
    <3> QED
      BY <2>5, <3>1, <3>2 DEF Net
  <2>9. left \in SUBSET O
    BY <2>1 DEF left
  <2>10. left \in X
    BY <2>1, <2>7, <2>8, <2>9
  <2> QED
    BY <2>10 DEF left
<1> HIDE DEF X
<1>3. SuppressCleared(k, O) \in X
  BY <1>1, <1>2, ClearedStays
<1> QED
  BY <1>3 DEF X

NetContents(rights) ==
  IF rights = {} THEN {} ELSE {[verb |-> "GRANT", rights |-> rights, options |-> {}]}

\* Lanes 3 and 4 make one grant of grants alone.
LEMMA GrantsMerge ==
  ASSUME NEW k, ~IsBuiltinPublic(k), NEW G, G # {},
         \A g \in G : g.verb = "GRANT" /\ g.rights \in SUBSET AllOf(k) /\ g.options = {}
  PROVE  Contents(SuppressDefaultEqual(k, MergeSplit(G))) =
           {[verb |-> "GRANT", rights |-> UNION {g.rights : g \in G}, options |-> {}]}
<1> DEFINE rights == UNION {g.rights : g \in G}
           grant == MergeGroup("GRANT", G)
<1>1. Grants(G) = G /\ Revokes(G) = {}
  BY DEF Grants, Revokes
<1>2. MergeSplit(G) = {grant}
  BY <1>1 DEF MergeSplit
<1>3. rights \in SUBSET AllOf(k) /\ UNION {g.options : g \in G} = {}
  OBVIOUS
<1>4. grant.verb = "GRANT" /\ grant.rights = rights /\ grant.options = {}
  BY <1>3, WholeRights DEF MergeGroup, Absorbed
<1> HIDE DEF grant, rights
<1>5. Grants({grant}) = {grant} /\ Revokes({grant}) = {}
  BY <1>4 DEF Grants, Revokes
<1>6. SuppressDefaultEqual(k, {grant}) = {grant}
  BY <1>5 DEF SuppressDefaultEqual
<1>7. Contents({grant}) = {[verb |-> "GRANT", rights |-> rights, options |-> {}]}
  BY <1>4 DEF Contents, Content
<1> QED
  BY <1>2, <1>6, <1>7 DEF rights

\* What is normalised from named privileges is their net grant and nothing else.
LEMMA NormalisedNet ==
  ASSUME NEW k, NEW O, NEW b \in Nat, Typed(k, O, b), Distinct(O), Names(k, O), ~IsBuiltinPublic(k)
  PROVE  Contents(Normalised(k, O)) = NetContents(Net(O))
<1> DEFINE A == SuppressCleared(k, O)
           B == ResolveInterleaved(k, A)
           D == SuppressDefaultEqual(k, MergeSplit(B))
<1>1. A \in SUBSET O /\ Net(A) = Net(O)
  BY ClearedNet
<1>2. Names(k, A)
  BY <1>1 DEF Names
<1>3. \A o \in A : Nettable(k, o)
  <2> SUFFICES ASSUME NEW o \in A PROVE Nettable(k, o)
    OBVIOUS
  <2>1. o.rights \in SUBSET AllOf(k) /\ ~(AllOf(k) \subseteq o.rights) /\ o.options = {}
    BY <1>2 DEF Names
  <2>2. ~OfColumns(o)
    BY <2>1, WholeRights DEF OfColumns
  <2> QED
    BY <2>1, <2>2 DEF Nettable, IsAll
<1>4. Net(A) \in SUBSET AllOf(k)
  BY <1>2 DEF Net, Names, Grants
<1> HIDE DEF A
<1>5. CASE Grants(A) = {}
  <2>1. Net(A) = {} /\ B = A
    BY <1>5 DEF Net, ResolveInterleaved
  <2>2. Grants(MergeSplit(A)) = {}
    <3>1. \A G : MergeGroup("REVOKE", G).verb = "REVOKE"
      BY DEF MergeGroup
    <3>2. {MergeGroup("GRANT", G) : G \in {Grants(A)} \ {{}}} = {}
      BY <1>5
    <3>3. \A o \in MergeSplit(A) : o.verb = "REVOKE"
      BY <3>1, <3>2 DEF MergeSplit
    <3> QED
      BY <3>3 DEF Grants
  <2>3. D = {}
    BY <2>1, <2>2 DEF SuppressDefaultEqual, Moot
  <2> QED
    BY <1>1, <2>1, <2>3 DEF Normalised, A, Contents, NetContents
<1>6. CASE Grants(A) # {} /\ Revokes(A) = {}
  <2>1. B = A /\ Net(A) = UNION {g.rights : g \in A}
    <3>1. Grants(A) = A
      BY <1>1, <1>6 DEF Grants, Revokes, Typed
    <3> QED
      BY <1>6, <3>1 DEF Net, ResolveInterleaved
  <2>2. Net(A) # {} /\ A # {}
    BY <1>2, <1>6, <2>1 DEF Names, Grants
  <2>3. \A g \in A : g.verb = "GRANT" /\ g.rights \in SUBSET AllOf(k) /\ g.options = {}
    BY <1>1, <1>2, <1>6 DEF Names, Revokes, Typed
  <2>4. Contents(D) = {[verb |-> "GRANT", rights |-> Net(A), options |-> {}]}
    BY <2>1, <2>2, <2>3, GrantsMerge
  <2> QED
    BY <1>1, <2>2, <2>4 DEF Normalised, A, NetContents
<1>7. CASE Grants(A) # {} /\ Revokes(A) # {}
  <2>1. CASE Net(A) = {}
    <3>1. B = {}
      BY <1>3, <1>7, <2>1 DEF ResolveInterleaved
    <3>2. Grants({}) = {} /\ Revokes({}) = {}
      BY DEF Grants, Revokes
    <3>3. MergeSplit({}) = {}
      BY <3>2 DEF MergeSplit
    <3>4. D = {}
      BY <3>1, <3>2, <3>3 DEF SuppressDefaultEqual
    <3> QED
      BY <1>1, <2>1, <3>4 DEF Normalised, A, Contents, NetContents
  <2>2. CASE Net(A) # {}
    <3> DEFINE net == [verb |-> "GRANT", rights |-> Net(A), options |-> {},
                       ordinal |-> Earliest(Grants(A))]
    <3>1. B = {net}
      BY <1>3, <1>7, <2>2 DEF ResolveInterleaved
    <3>2. /\ net.verb = "GRANT" /\ net.rights = Net(A) /\ net.options = {}
          /\ UNION {g.rights : g \in {net}} = Net(A)
      OBVIOUS
    <3> HIDE DEF net
    <3> DEFINE G == {net}
    <3>3. /\ G # {} /\ UNION {g.rights : g \in G} = Net(A)
          /\ \A g \in G : g.verb = "GRANT" /\ g.rights \in SUBSET AllOf(k) /\ g.options = {}
      BY <1>4, <3>2
    <3> HIDE DEF G
    <3>4. Contents(SuppressDefaultEqual(k, MergeSplit(G))) =
            {[verb |-> "GRANT", rights |-> Net(A), options |-> {}]}
      BY <3>3, GrantsMerge
    <3> QED
      BY <1>1, <2>2, <3>1, <3>4 DEF G, Normalised, A, NetContents
  <2> QED
    BY <2>1, <2>2
<1> QED
  BY <1>5, <1>6, <1>7

\* One more statement.
LEMMA NetAdds ==
  ASSUME NEW k, NEW O, NEW b \in Nat, Typed(k, O, b), NEW new, new.ordinal = b + 1
  PROVE  /\ new.verb = "GRANT" => Net(O \cup {new}) = Net(O) \cup new.rights
         /\ new.verb = "REVOKE" => Net(O \cup {new}) = Net(O) \ new.rights
<1>1. \A o \in O : o.ordinal \in Nat /\ o.ordinal < new.ordinal
  BY DEF Typed
<1>2. CASE new.verb = "GRANT"
  <2>1. Grants(O \cup {new}) = Grants(O) \cup {new} /\ Revokes(O \cup {new}) = Revokes(O)
    BY <1>2 DEF Grants, Revokes
  <2>2. \A v \in Revokes(O) : ~(v.ordinal > new.ordinal)
    BY <1>1 DEF Revokes
  <2> QED
    BY <1>2, <2>1, <2>2 DEF Net
<1>3. CASE new.verb = "REVOKE"
  <2>1. Grants(O \cup {new}) = Grants(O) /\ Revokes(O \cup {new}) = Revokes(O) \cup {new}
    BY <1>3 DEF Grants, Revokes
  <2>2. \A g \in Grants(O) : new.ordinal > g.ordinal
    BY <1>1 DEF Grants
  <2> QED
    BY <1>3, <2>1, <2>2 DEF Net
<1> QED
  BY <1>2, <1>3

--------------------------------------------------------------------------------
(* The three sources *)

Objects(h) == {ObjectOf(h[n], n) : n \in DOMAIN h}

NamedSoFar == UNION {history[n].rights : n \in DOMAIN history}

\* What the statements leave granted is what the role has.
TreeNet ==
  ByName => /\ acl.rights \in SUBSET AllOf(kind) /\ acl.options = {}
            /\ Names(kind, Objects(history))
            /\ Net(Objects(history)) = acl.rights

\* And so is what the model replayed from them leaves.
ReplayNet ==
  ByName /\ NeverAll => /\ Names(kind, replayed)
                        /\ Net(replayed) = acl.rights
                        /\ \A o \in replayed : o.rights \subseteq NamedSoFar

NetInv == TreeNet /\ ReplayNet

LEMMA ObjectsTyped ==
  ASSUME HistoryTyped
  PROVE  Typed(kind, Objects(history), Len(history)) /\ Distinct(Objects(history))
<1>1. kind \in Kinds /\ Len(history) \in Nat /\ DOMAIN history = 1 .. Len(history)
  BY DEF HistoryTyped
<1>2. ASSUME NEW n \in DOMAIN history
      PROVE  Typed(kind, {ObjectOf(history[n], n)}, n) /\ ObjectOf(history[n], n).ordinal = n
  <2>1. history[n] \in Statements /\ n \in Nat \ {0}
    BY <1>1 DEF HistoryTyped
  <2> QED
    BY <1>1, <2>1, ObjectTyped
<1>3. Distinct(Objects(history))
  BY <1>2 DEF Distinct, Objects
<1>4. ASSUME NEW o \in Objects(history), NEW n \in DOMAIN history, o = ObjectOf(history[n], n)
      PROVE  Typed(kind, {o}, Len(history))
  BY <1>1, <1>2, <1>4 DEF Typed
<1>5. Typed(kind, Objects(history), Len(history))
  BY <1>4 DEF Objects, Typed
<1> QED
  BY <1>3, <1>5

\* Of a statement that ByName allows.
LEMMA NamedStatement ==
  ASSUME HistoryTyped, NEW s \in Statements, history' = Append(history, s), kind' = kind, ByName'
  PROVE  LET new == ObjectOf(s, Len(history) + 1)
         IN  /\ ByName /\ ~IsBuiltinPublic(kind)
             /\ s.rights \in SUBSET AllOf(kind) /\ ~s.option
             /\ new.rights = s.rights /\ new.options = {}
             /\ new.verb = s.verb /\ new.ordinal = Len(history) + 1
             /\ Names(kind, {new})
             /\ Objects(history') = Objects(history) \cup {new}
             /\ NamedSoFar' = NamedSoFar \cup s.rights
             /\ NeverAll' => NeverAll /\ ~(AllOf(kind) \subseteq NamedSoFar')
<1> DEFINE n == Len(history) + 1
           new == ObjectOf(s, n)
<1>1. /\ Len(history) \in Nat /\ DOMAIN history = 1 .. Len(history)
      /\ DOMAIN history' = 1 .. n /\ n \in Nat
      /\ history'[n] = s
      /\ \A m \in DOMAIN history : m \in DOMAIN history' /\ history'[m] = history[m]
  BY DEF HistoryTyped
<1>2. DOMAIN history' = DOMAIN history \cup {n}
  BY <1>1
<1>3. ByName /\ ~IsBuiltinPublic(kind)
  BY <1>1 DEF ByName
<1>4. s.rights \in SUBSET AllOf(kind) /\ s.rights # AllOf(kind) /\ ~s.option
  BY <1>1, <1>2 DEF ByName
<1>5. s.rights # {}
  BY NamedAssumption DEF Statements
<1>6. new.rights = s.rights /\ new.options = {} /\ new.verb = s.verb /\ new.ordinal = n
  BY <1>4, WholeRights DEF ObjectOf
<1> HIDE DEF n
<1>7. Names(kind, {new})
  BY <1>4, <1>5, <1>6 DEF Names
<1>8. Objects(history') = Objects(history) \cup {new}
  BY <1>1, <1>2 DEF Objects
<1>9. NamedSoFar' = NamedSoFar \cup s.rights
  BY <1>1, <1>2 DEF NamedSoFar
<1>10. NeverAll' => NeverAll /\ ~(AllOf(kind) \subseteq NamedSoFar')
  BY <1>9 DEF NeverAll, NamedSoFar
<1> HIDE DEF new
<1> QED
  BY <1>3, <1>4, <1>6, <1>7, <1>8, <1>9, <1>10 DEF n, new

\* What normalisation makes of named privileges has the same net grant.
LEMMA NormalisedSame ==
  ASSUME NEW k, NEW O, NEW b \in Nat, Typed(k, O, b), Distinct(O), Names(k, O), ~IsBuiltinPublic(k)
  PROVE  /\ Net(Normalised(k, O)) = Net(O)
         /\ \A o \in Normalised(k, O) : /\ o.rights = Net(O) /\ o.rights # {} /\ o.options = {}
<1> DEFINE N == Normalised(k, O)
<1>1. Contents(N) = NetContents(Net(O))
  BY NormalisedNet
<1> HIDE DEF N
<1>2. ASSUME NEW o \in N
      PROVE  o.verb = "GRANT" /\ o.rights = Net(O) /\ o.options = {} /\ Net(O) # {}
  <2>1. Content(o) \in NetContents(Net(O))
    BY <1>1 DEF Contents
  <2>2. Net(O) # {} /\ Content(o) = [verb |-> "GRANT", rights |-> Net(O), options |-> {}]
    BY <2>1 DEF NetContents
  <2> QED
    BY <2>2 DEF Content
<1>3. Grants(N) = N /\ Revokes(N) = {}
  BY <1>2 DEF Grants, Revokes
<1>4. Net(O) # {} => N # {}
  BY <1>1 DEF Contents, NetContents
<1>5. Net(N) = Net(O)
  BY <1>2, <1>3, <1>4 DEF Net
<1> QED
  BY <1>2, <1>5 DEF N

LEMMA NetInvariant == Spec => []NetInv
<1>1. Init => NetInv
  <2> SUFFICES ASSUME Init PROVE NetInv
    OBVIOUS
  <2>1. Objects(history) = {} /\ replayed = {} /\ Net({}) = {}
    BY DEF Init, Objects, Net, Grants
  <2>2. ByName => acl.rights = {} /\ acl.options = {}
    BY DEF Init, ByName, IsBuiltinPublic, Fresh
  <2> QED
    BY <2>1, <2>2 DEF NetInv, TreeNet, ReplayNet, Names
<1>2. WidenInv /\ NetInv /\ [Next]_vars => NetInv'
  <2> SUFFICES ASSUME WidenInv, NetInv, [Next]_vars PROVE NetInv'
    OBVIOUS
  <2>1. ASSUME NEW s \in Statements, Write(s) PROVE NetInv'
    <3> SUFFICES ASSUME ByName' PROVE NetInv'
      BY DEF NetInv, TreeNet, ReplayNet
    <3> DEFINE b == Len(history)
               new == ObjectOf(s, b + 1)
               O == replayed \cup {new}
    <3>1. /\ kind' = kind /\ history' = Append(history, s) /\ acl' = Perform(acl, s)
          /\ replayed' = ReplayStatement(kind, replayed, s, b + 1)
      BY <2>1 DEF Write
    <3>2. HistoryTyped /\ kind \in Kinds /\ b \in Nat /\ b + 1 \in Nat \ {0} /\ ModelTyped
      BY DEF WidenInv, HistoryTyped
    <3>3. /\ ByName /\ ~IsBuiltinPublic(kind)
          /\ s.rights \in SUBSET AllOf(kind) /\ ~s.option
          /\ new.rights = s.rights /\ new.options = {}
          /\ new.verb = s.verb /\ new.ordinal = b + 1
          /\ Names(kind, {new})
          /\ Objects(history') = Objects(history) \cup {new}
          /\ NamedSoFar' = NamedSoFar \cup s.rights
          /\ NeverAll' => NeverAll /\ ~(AllOf(kind) \subseteq NamedSoFar')
      BY <3>1, <3>2, NamedStatement
    <3>4. s.verb \in {"GRANT", "REVOKE"}
      BY DEF Statements
    <3> HIDE DEF b, new
    <3>5. acl'.options = {} /\ acl'.rights =
             IF s.verb = "GRANT" THEN acl.rights \cup s.rights ELSE acl.rights \ s.rights
      <4>1. acl.rights \in SUBSET AllOf(kind) /\ acl.options = {}
        BY <3>3 DEF NetInv, TreeNet
      <4>2. \A r \in acl.rights : Gone(r, s.rights) <=> r \in s.rights
        BY <4>1, WholeRights DEF Gone
      <4> QED
        BY <3>1, <3>3, <3>4, <4>1, <4>2 DEF Perform, Grant, Revoke, Gone
    <3>6. ASSUME NEW M, Typed(kind, M, b), Net(M) = acl.rights
          PROVE  Net(M \cup {new}) = acl'.rights
      <4>1. /\ new.verb = "GRANT" => Net(M \cup {new}) = Net(M) \cup new.rights
            /\ new.verb = "REVOKE" => Net(M \cup {new}) = Net(M) \ new.rights
        BY <3>2, <3>3, <3>6, NetAdds
      <4> QED
        BY <3>3, <3>4, <3>5, <3>6, <4>1
    <3>7. TreeNet'
      <4>1. Net(Objects(history) \cup {new}) = acl'.rights
        BY <3>2, <3>3, <3>6, ObjectsTyped DEF b, NetInv, TreeNet
      <4>2. Names(kind, Objects(history) \cup {new})
        BY <3>3 DEF Names, NetInv, TreeNet
      <4>3. acl'.rights \in SUBSET AllOf(kind)
        BY <3>3, <3>5 DEF NetInv, TreeNet
      <4> QED
        BY <3>1, <3>3, <3>5, <4>1, <4>2, <4>3 DEF TreeNet
    <3>8. ReplayNet'
      <4> SUFFICES ASSUME NeverAll' PROVE ReplayNet'
        BY DEF ReplayNet
      <4>1. /\ Names(kind, replayed) /\ Net(replayed) = acl.rights
            /\ \A o \in replayed : o.rights \subseteq NamedSoFar
        BY <3>3 DEF NetInv, ReplayNet
      <4>2. Names(kind, O) /\ Net(O) = acl'.rights
        BY <3>2, <3>3, <3>6, <4>1 DEF Names, ModelTyped, b
      <4>3. \A o \in O : o.rights \subseteq NamedSoFar'
        BY <3>3, <4>1
      <4>4. CASE replayed = {}
        <5>1. replayed' = O
          BY <3>1, <4>4 DEF ReplayStatement, new
        <5> QED
          BY <3>1, <4>2, <4>3, <5>1 DEF ReplayNet
      <4>5. CASE replayed # {}
        <5>1. replayed' = Normalised(kind, O)
          BY <3>1, <4>5 DEF ReplayStatement, new
        <5>2. Typed(kind, O, b + 1) /\ Distinct(O)
          <6>1. \A o \in replayed : o.ordinal \in Nat /\ o.ordinal < b + 1 /\ o.ordinal # b + 1
            BY <3>2 DEF ModelTyped, Typed, b
          <6>2. Typed(kind, replayed, b + 1)
            BY <3>2 DEF ModelTyped, Typed, b
          <6>3. Typed(kind, {new}, b + 1)
            BY <3>2, ObjectTyped DEF new
          <6>4. Typed(kind, O, b + 1)
            BY <6>2, <6>3 DEF Typed
          <6>5. Distinct(O)
            BY <3>2, <3>3, <6>1 DEF Distinct, ModelTyped
          <6> QED
            BY <6>4, <6>5
        <5>3. /\ Net(replayed') = Net(O)
              /\ \A o \in replayed' : o.rights = Net(O) /\ o.rights # {} /\ o.options = {}
          BY <3>2, <3>3, <4>2, <5>1, <5>2, NormalisedSame
        <5>4. Net(O) \subseteq NamedSoFar' /\ Net(O) \in SUBSET AllOf(kind)
          BY <4>2, <4>3 DEF Net, Grants, Names
        <5>5. Names(kind, replayed') /\ \A o \in replayed' : o.rights \subseteq NamedSoFar'
          BY <3>3, <5>3, <5>4 DEF Names
        <5> QED
          BY <3>1, <4>2, <5>3, <5>5 DEF ReplayNet
      <4> QED
        BY <4>4, <4>5
    <3> QED
      BY <3>7, <3>8 DEF NetInv
  <2>2. ASSUME UNCHANGED <<kind, history, acl, replayed>> PROVE NetInv'
    BY <2>2 DEF NetInv, TreeNet, ReplayNet, ByName, NeverAll, NamedSoFar
  <2>3. ASSUME NEW from, Deploy(from) PROVE NetInv'
    BY <2>2, <2>3 DEF Deploy
  <2>4. CASE Rewrite
    <3>1. history' = <<>> /\ acl' = Fresh(kind) /\ replayed' = {} /\ kind' = kind
      BY <2>4 DEF Rewrite
    <3>2. Objects(history') = {} /\ Net({}) = {}
      BY <3>1 DEF Objects, Net, Grants
    <3>3. ByName' => acl'.rights = {} /\ acl'.options = {}
      BY <3>1 DEF ByName, IsBuiltinPublic, Fresh
    <3> QED
      BY <3>1, <3>2, <3>3 DEF NetInv, TreeNet, ReplayNet, Names
  <2>5. CASE UNCHANGED vars
    BY <2>2, <2>5 DEF vars
  <2> QED
    BY <2>1, <2>3, <2>4, <2>5 DEF Next
<1> QED
  BY <1>1, <1>2, WidenInvariant, PTL DEF Spec

\* However grants and revokes of named privileges alternate, declarations, the
\* migrations and the database that executed them tell the same model.
THEOREM SourcesCorrect == Spec => []SourcesAgree
<1>1. WidenInv /\ NetInv => SourcesAgree
  <2> SUFFICES ASSUME WidenInv, NetInv, ByName PROVE SourcesAgree
    BY DEF SourcesAgree
  <2>1. HistoryTyped /\ Len(history) \in Nat /\ ModelTyped /\ ~IsBuiltinPublic(kind)
    BY DEF WidenInv, HistoryTyped, ByName
  <2>2. Contents(Catalog(kind, acl)) = NetContents(acl.rights)
    <3>1. Absorbed(acl.rights) = acl.rights /\ Absorbed(acl.options) = {}
      BY WholeRights DEF NetInv, TreeNet, Absorbed
    <3>2. CASE acl.rights = {}
      BY <2>1, <3>2 DEF Catalog, NetContents, Contents
    <3>3. CASE acl.rights # {}
      <4> DEFINE grant == [verb |-> "GRANT", rights |-> acl.rights, options |-> {}, ordinal |-> 0]
      <4>1. Catalog(kind, acl) = {grant}
        BY <2>1, <3>1, <3>3 DEF Catalog
      <4>2. Content(grant) = [verb |-> "GRANT", rights |-> acl.rights, options |-> {}]
        BY DEF Content
      <4> HIDE DEF grant
      <4> QED
        BY <3>3, <4>1, <4>2 DEF Contents, NetContents
    <3> QED
      BY <3>2, <3>3
  <2>3. Contents(Declared(kind, history)) = NetContents(acl.rights)
    BY <2>1, ObjectsTyped, NormalisedNet DEF NetInv, TreeNet, Declared, Objects
  <2>4. ASSUME NeverAll PROVE Contents(Reconstructed(kind, replayed)) = NetContents(acl.rights)
    BY <2>1, <2>4, NormalisedNet DEF NetInv, ReplayNet, ModelTyped, Reconstructed
  <2> QED
    BY <2>2, <2>3, <2>4 DEF SourcesAgree
<1> QED
  BY <1>1, WidenInvariant, NetInvariant, PTL
--------------------------------------------------------------------------------
(* What a migration executes *)

Acls(k) == [rights : SUBSET (Rights(k) \cup k.initial \X {Whole}),
            options : SUBSET (Rights(k) \cup k.initial \X {Whole})]

\* Objects of a model, or of the database, which has them at 0.
Sized(k, O, b) ==
  \A o \in O : /\ o.rights \in SUBSET Rights(k)
               /\ o.options \in SUBSET Rights(k)
               /\ o.ordinal \in 0 .. b

\* The last ordinal is reached by some object and exceeded by none.
LEMMA LatestOf ==
  ASSUME NEW k, NEW O, NEW b \in Nat, Sized(k, O, b), O # {}
  PROVE  Latest(O) \in Nat /\ \A o \in O : o.ordinal <= Latest(O)
<1> DEFINE T == {n \in Nat : \A o \in O : o.ordinal <= n}
<1>1. b \in T
  BY DEF Sized
<1>2. PICK n \in T : \A m \in T : n <= m
  BY <1>1, LeastNatural
<1>3. \E o \in O : n = o.ordinal
  <2> SUFFICES ASSUME \A o \in O : n # o.ordinal PROVE FALSE
    OBVIOUS
  <2>1. \A o \in O : o.ordinal \in Nat /\ o.ordinal < n
    BY <1>2 DEF Sized
  <2>2. n - 1 \in Nat
    BY <2>1, O # {}, SMT
  <2>3. n - 1 \in T
    BY <2>1, <2>2
  <2> QED
    BY <1>2, <2>3
<1>4. Latest(O) \in {o.ordinal : o \in O} /\ \A o \in O : o.ordinal <= Latest(O)
  BY <1>2, <1>3 DEF Latest
<1> QED
  BY <1>4 DEF Sized

\* Rounds that change nothing.
LEMMA RoundsSame ==
  ASSUME NEW f, NEW a \in Nat, NEW z \in Nat, a <= z, \A n \in a + 1 .. z : f[n] = f[n - 1]
  PROVE  f[z] = f[a]
<1> DEFINE T == {n \in Nat : a + n <= z => f[a + n] = f[a]}
<1>1. 0 \in T
  OBVIOUS
<1>2. ASSUME NEW n \in T PROVE n + 1 \in T
  <2> SUFFICES ASSUME a + (n + 1) <= z PROVE f[a + (n + 1)] = f[a]
    OBVIOUS
  <2>1. a + (n + 1) \in a + 1 .. z /\ (a + (n + 1)) - 1 = a + n /\ a + n <= z
    OBVIOUS
  <2> QED
    BY <2>1
<1> HIDE DEF T
<1>3. T = Nat
  <2>1. T \in SUBSET Nat
    BY DEF T
  <2> QED
    BY <1>1, <1>2, <2>1, AllNaturals
<1>4. z - a \in Nat /\ a + (z - a) = z
  OBVIOUS
<1>5. z - a \in T
  BY <1>3, <1>4
<1> QED
  BY <1>4, <1>5 DEF T

\* The objects that are dropped, and created or replaced, in round n.
DropsAt(from, to, last, n) == {o \in from : Before(o, to) = {} /\ o.ordinal = last + 1 - n}
UpsertsAt(from, to, n) == {o \in to : Changed(o, from) /\ o.ordinal = n - 1}

\* What the two loops of a migration have done after each round.
Loops(acl0, from, to, last, d, u) ==
  LET top == last + 1
  IN  /\ \A o \in from \cup to : o.ordinal \in Nat /\ o.ordinal < top
      /\ d[0] = acl0 /\ u[0] = d[top] /\ Migrated(acl0, from, to) = u[top]
      /\ \A n \in 1 .. top :
            /\ d[n] = IF DropsAt(from, to, last, n) = {} THEN d[n - 1]
                      ELSE Removed(d[n - 1], CHOOSE o \in DropsAt(from, to, last, n) : TRUE)
            /\ u[n] = IF UpsertsAt(from, to, n) = {} THEN u[n - 1]
                      ELSE Upserted(u[n - 1], CHOOSE o \in UpsertsAt(from, to, n) : TRUE, from)

LEMMA TwoLoops ==
  ASSUME NEW k, NEW acl0 \in Acls(k), NEW from, NEW to, NEW b \in Nat,
         Sized(k, from, b), Sized(k, to, b)
  PROVE  /\ Migrated(acl0, from, to) \in Acls(k)
         /\ \E last \in Nat : \E d, u : Loops(acl0, from, to, last, d, u)
<1> DEFINE last == IF from \cup to = {} THEN 0 ELSE Latest(from \cup to)
           dropped[n \in 0 .. last + 1] ==
             LET drops == {o \in from : Before(o, to) = {} /\ o.ordinal = last + 1 - n}
             IN  IF n = 0 THEN acl0
                 ELSE IF drops = {} THEN dropped[n - 1]
                 ELSE Removed(dropped[n - 1], CHOOSE o \in drops : TRUE)
           upserted[n \in 0 .. last + 1] ==
             LET upserts == {o \in to : Changed(o, from) /\ o.ordinal = n - 1}
             IN  IF n = 0 THEN dropped[last + 1]
                 ELSE IF upserts = {} THEN upserted[n - 1]
                 ELSE Upserted(upserted[n - 1], CHOOSE o \in upserts : TRUE, from)
           top == last + 1
           X == Acls(k)
           drop(n, a) == IF DropsAt(from, to, last, n) = {} THEN a
                         ELSE Removed(a, CHOOSE o \in DropsAt(from, to, last, n) : TRUE)
           upsert(n, a) == IF UpsertsAt(from, to, n) = {} THEN a
                           ELSE Upserted(a, CHOOSE o \in UpsertsAt(from, to, n) : TRUE, from)
           dropping == [p \in Nat \X X |-> drop(p[1], p[2])]
           upserting == [p \in Nat \X X |-> upsert(p[1], p[2])]
<1>1. last \in Nat /\ \A o \in from \cup to : o.ordinal \in Nat /\ o.ordinal <= last
  <2>1. Sized(k, from \cup to, b)
    BY DEF Sized
  <2>2. CASE from \cup to = {}
    BY <2>2
  <2>3. CASE from \cup to # {}
    BY <2>1, <2>3, LatestOf DEF Sized
  <2> QED
    BY <2>2, <2>3
<1>2. Migrated(acl0, from, to) = upserted[last + 1]
  BY DEF Migrated
<1> HIDE DEF last
<1>3. top \in Nat /\ top \in 0 .. top /\ 0 \in 0 .. top
  BY <1>1
<1> HIDE DEF top
<1>4. ASSUME NEW a \in X, NEW o, o.rights \in SUBSET Rights(k), o.options \in SUBSET Rights(k)
      PROVE  Created(a, o) \in X /\ Removed(a, o) \in X
  BY <1>4 DEF Created, Removed, Grant, Revoke, Acls
<1> HIDE DEF X
<1>5. ASSUME NEW n \in Nat, NEW a \in X PROVE drop(n, a) \in X
  BY <1>4 DEF DropsAt, Sized
<1>6. ASSUME NEW n \in Nat, NEW a \in X PROVE upsert(n, a) \in X
  <2>1. CASE UpsertsAt(from, to, n) = {}
    BY <2>1
  <2>2. CASE UpsertsAt(from, to, n) # {}
    <3> DEFINE o == CHOOSE o \in UpsertsAt(from, to, n) : TRUE
               base == IF Before(o, from) = {} THEN a
                       ELSE Removed(a, CHOOSE p \in Before(o, from) : TRUE)
    <3>1. o \in to /\ o.rights \in SUBSET Rights(k) /\ o.options \in SUBSET Rights(k)
      BY <2>2 DEF UpsertsAt, Sized
    <3>2. upsert(n, a) = Upserted(a, o, from)
      BY <2>2
    <3> HIDE DEF o
    <3>3. base \in X
      BY <1>4 DEF Before, Sized
    <3>4. upsert(n, a) = Created(base, o)
      BY <3>2 DEF Upserted
    <3> HIDE DEF base
    <3> QED
      BY <1>4, <3>1, <3>3, <3>4
  <2> QED
    BY <2>1, <2>2
<1> HIDE DEF drop, upsert, dropping, upserting
<1>7. /\ dropping \in [Nat \X X -> X] /\ \A n \in Nat, a \in X : dropping[<<n, a>>] = drop(n, a)
      /\ upserting \in [Nat \X X -> X] /\ \A n \in Nat, a \in X : upserting[<<n, a>>] = upsert(n, a)
  BY <1>5, <1>6 DEF dropping, upserting
<1>8. acl0 \in X
  BY DEF X
<1>9. ASSUME NEW n \in 0 .. top, n # 0
      PROVE  n \in Nat /\ n - 1 \in 0 .. top
  BY <1>3, <1>9
<1>10. dropped = [n \in 0 .. top |-> IF n = 0 THEN acl0 ELSE drop(n, dropped[n - 1])]
  <2> SUFFICES \E f : f = [n \in 0 .. top |-> IF n = 0 THEN acl0 ELSE drop(n, f[n - 1])]
    BY DEF drop, DropsAt, top
  <2>1. Rounds(X, acl0, dropping, top) # {}
    BY <1>3, <1>7, <1>8, RoundsExist
  <2>2. PICK f \in [0 .. top -> X] : f[0] = acl0 /\ \A n \in 1 .. top : f[n] = dropping[<<n, f[n - 1]>>]
    BY <2>1 DEF Rounds
  <2>3. ASSUME NEW n \in 1 .. top PROVE f[n] = drop(n, f[n - 1])
    <3>1. n \in Nat /\ n - 1 \in 0 .. top /\ f[n - 1] \in X
      BY <1>3, <2>2
    <3> QED
      BY <1>7, <2>2, <3>1
  <2>4. f = [n \in 0 .. top |-> IF n = 0 THEN acl0 ELSE drop(n, f[n - 1])]
    BY <1>3, <2>2, <2>3
  <2> QED
    BY <2>4
<1> HIDE DEF dropped
<1>11. dropped[top] \in X
  <2>1. dropped[0] = acl0
    BY <1>3, <1>10
  <2>2. ASSUME NEW n \in 1 .. top, dropped[n - 1] \in X PROVE dropped[n] = dropping[<<n, dropped[n - 1]>>]
    <3>1. n \in Nat /\ n \in 0 .. top /\ n # 0
      BY <1>3
    <3>2. dropped[n] = drop(n, dropped[n - 1])
      BY <1>10, <3>1
    <3> QED
      BY <1>7, <2>2, <3>1, <3>2
  <2>3. \A n \in 0 .. top : dropped[n] \in X
    BY <1>3, <1>7, <1>8, <2>1, <2>2, LoopStays
  <2> QED
    BY <1>3, <2>3
<1>12. upserted = [n \in 0 .. top |-> IF n = 0 THEN dropped[top] ELSE upsert(n, upserted[n - 1])]
  <2> SUFFICES \E f : f = [n \in 0 .. top |-> IF n = 0 THEN dropped[top] ELSE upsert(n, f[n - 1])]
    BY DEF upsert, UpsertsAt, top
  <2>1. Rounds(X, dropped[top], upserting, top) # {}
    BY <1>3, <1>7, <1>11, RoundsExist
  <2>2. PICK f \in [0 .. top -> X] :
            f[0] = dropped[top] /\ \A n \in 1 .. top : f[n] = upserting[<<n, f[n - 1]>>]
    BY <2>1 DEF Rounds
  <2>3. ASSUME NEW n \in 1 .. top PROVE f[n] = upsert(n, f[n - 1])
    <3>1. n \in Nat /\ n - 1 \in 0 .. top /\ f[n - 1] \in X
      BY <1>3, <2>2
    <3> QED
      BY <1>7, <2>2, <3>1
  <2>4. f = [n \in 0 .. top |-> IF n = 0 THEN dropped[top] ELSE upsert(n, f[n - 1])]
    BY <1>3, <2>2, <2>3
  <2> QED
    BY <2>4
<1> HIDE DEF upserted
<1>13. dropped[0] = acl0 /\ upserted[0] = dropped[top]
  BY <1>3, <1>10, <1>12
<1>14. \A n \in 1 .. top : dropped[n] = drop(n, dropped[n - 1]) /\ upserted[n] = upsert(n, upserted[n - 1])
  BY <1>3, <1>10, <1>12
<1>15. \A n \in 1 .. top :
          /\ dropped[n] = IF DropsAt(from, to, last, n) = {} THEN dropped[n - 1]
                           ELSE Removed(dropped[n - 1], CHOOSE o \in DropsAt(from, to, last, n) : TRUE)
          /\ upserted[n] = IF UpsertsAt(from, to, n) = {} THEN upserted[n - 1]
                            ELSE Upserted(upserted[n - 1], CHOOSE o \in UpsertsAt(from, to, n) : TRUE, from)
  BY <1>14 DEF drop, upsert
<1>16. \A o \in from \cup to : o.ordinal \in Nat /\ o.ordinal < top
  BY <1>1 DEF top
<1>17. Migrated(acl0, from, to) = upserted[top]
  BY <1>2 DEF top
<1>18. last \in Nat /\ top = last + 1
  BY <1>1 DEF top
<1> HIDE DEF drop, upsert
<1>19. Loops(acl0, from, to, last, dropped, upserted)
  BY <1>13, <1>15, <1>16, <1>17, <1>18 DEF Loops
<1>20. Migrated(acl0, from, to) \in X
  <2>1. ASSUME NEW n \in 1 .. top, upserted[n - 1] \in X PROVE upserted[n] = upserting[<<n, upserted[n - 1]>>]
    BY <1>3, <1>7, <1>14, <2>1
  <2>2. \A n \in 0 .. top : upserted[n] \in X
    <3>1. dropped[top] \in X /\ upserted[0] = dropped[top] /\ top \in Nat
      BY <1>3, <1>11, <1>13
    <3>2. upserting \in [Nat \X X -> X]
      BY <1>7
    <3>3. \A n \in 1 .. top : upserted[n - 1] \in X => upserted[n] = upserting[<<n, upserted[n - 1]>>]
      BY <2>1
    <3> HIDE DEF upserting, X, top
    <3> QED
      BY <3>1, <3>2, <3>3, LoopStays
  <2> QED
    BY <1>3, <1>17, <2>2
<1> QED
  BY <1>18, <1>19, <1>20 DEF X

\* A model of at most one object is dropped, or stays to be replaced.
AfterDrops(acl0, from, to) ==
  IF \E o \in from : Before(o, to) = {} THEN Removed(acl0, CHOOSE o \in from : TRUE) ELSE acl0

\* An object of the target is created, replaces what is there, or is there.
Put(a, o, from) == IF Changed(o, from) THEN Upserted(a, o, from) ELSE a

\* The migration from a model of at most one object.
LEMMA MigratedIs ==
  ASSUME NEW k, NEW acl0 \in Acls(k), NEW from, NEW to, NEW b \in Nat,
         Sized(k, from, b), Sized(k, to, b), \A o, p \in from : o = p
  PROVE  LET start == AfterDrops(acl0, from, to)
         IN  /\ to = {} => Migrated(acl0, from, to) = start
             /\ \A g : to = {g} => Migrated(acl0, from, to) = Put(start, g, from)
             /\ \A g, v : to = {g, v} /\ g.ordinal < v.ordinal =>
                   Migrated(acl0, from, to) = Put(Put(start, g, from), v, from)
<1> DEFINE start == AfterDrops(acl0, from, to)
<1>0. PICK last \in Nat : \E d, u : Loops(acl0, from, to, last, d, u)
  BY TwoLoops
<1>1. PICK d, u : Loops(acl0, from, to, last, d, u)
  BY <1>0
<1> DEFINE top == last + 1
<1>2. top \in Nat /\ 0 <= top
  OBVIOUS
<1>3. /\ \A o \in from \cup to : o.ordinal \in Nat /\ o.ordinal < top
      /\ d[0] = acl0 /\ u[0] = d[top] /\ Migrated(acl0, from, to) = u[top]
  BY <1>1 DEF Loops
<1>4. ASSUME NEW n \in 1 .. top
      PROVE  /\ d[n] = IF DropsAt(from, to, last, n) = {} THEN d[n - 1]
                       ELSE Removed(d[n - 1], CHOOSE o \in DropsAt(from, to, last, n) : TRUE)
             /\ u[n] = IF UpsertsAt(from, to, n) = {} THEN u[n - 1]
                       ELSE Upserted(u[n - 1], CHOOSE o \in UpsertsAt(from, to, n) : TRUE, from)
  BY <1>1, <1>4 DEF Loops
<1>5. d[top] = start
  <2>1. CASE ~ \E o \in from : Before(o, to) = {}
    <3>1. \A n \in 1 .. top : DropsAt(from, to, last, n) = {}
      BY <2>1 DEF DropsAt
    <3>2. \A n \in 0 + 1 .. top : d[n] = d[n - 1]
      BY <1>4, <3>1
    <3>3. d[top] = d[0]
      BY <1>2, <3>2, RoundsSame
    <3> QED
      BY <1>3, <2>1, <3>3 DEF AfterDrops
  <2>2. ASSUME NEW o \in from, Before(o, to) = {} PROVE d[top] = start
    <3> DEFINE c == last + 1 - o.ordinal
    <3>1. from = {o} /\ (CHOOSE p \in from : TRUE) = o
      OBVIOUS
    <3>2. o.ordinal \in Nat /\ o.ordinal < top
      BY <1>3
    <3>3. c \in 1 .. top /\ c - 1 \in Nat /\ c \in Nat
      BY <3>2
    <3>4. \A n \in 1 .. top : n # c => DropsAt(from, to, last, n) = {}
      BY <3>1, <3>2 DEF DropsAt
    <3>5. DropsAt(from, to, last, c) = {o}
      BY <2>2, <3>1, <3>2 DEF DropsAt
    <3> HIDE DEF c
    <3>6. d[c - 1] = d[0]
      <4>1. \A n \in 0 + 1 .. c - 1 : d[n] = d[n - 1]
        BY <1>4, <3>3, <3>4
      <4> QED
        BY <3>3, <4>1, RoundsSame
    <3>7. d[c] = Removed(d[c - 1], o)
      BY <1>4, <3>3, <3>5
    <3>8. d[top] = d[c]
      <4>1. \A n \in c + 1 .. top : d[n] = d[n - 1]
        BY <1>4, <3>3, <3>4
      <4> QED
        BY <1>2, <3>3, <4>1, RoundsSame
    <3>9. start = Removed(acl0, o)
      BY <2>2, <3>1 DEF AfterDrops
    <3> QED
      BY <1>3, <3>6, <3>7, <3>8, <3>9
  <2> QED
    BY <2>1, <2>2
<1> HIDE DEF start
<1>6. ASSUME NEW g \in to, \A p \in to : p.ordinal = g.ordinal => p = g
      PROVE  /\ g.ordinal \in Nat /\ g.ordinal + 1 \in 1 .. top
             /\ u[g.ordinal + 1] = Put(u[g.ordinal], g, from)
  <2>1. g.ordinal \in Nat /\ g.ordinal + 1 \in 1 .. top /\ (g.ordinal + 1) - 1 = g.ordinal
    BY <1>3
  <2>2. CASE Changed(g, from)
    <3>1. UpsertsAt(from, to, g.ordinal + 1) = {g}
      BY <1>6, <2>1, <2>2 DEF UpsertsAt
    <3> QED
      BY <1>4, <2>1, <2>2, <3>1 DEF Put
  <2>3. CASE ~Changed(g, from)
    <3>1. UpsertsAt(from, to, g.ordinal + 1) = {}
      BY <1>6, <2>1, <2>3 DEF UpsertsAt
    <3> QED
      BY <1>4, <2>1, <2>3, <3>1 DEF Put
  <2> QED
    BY <2>1, <2>2, <2>3
<1>7. ASSUME NEW m \in Nat, NEW z \in Nat, m <= z, z <= top,
             \A o \in to : o.ordinal \notin m .. z - 1
      PROVE  u[z] = u[m]
  <2>1. ASSUME NEW n \in m + 1 .. z PROVE u[n] = u[n - 1]
    <3>1. n \in 1 .. top /\ n - 1 \in m .. z - 1
      BY <1>7
    <3>2. UpsertsAt(from, to, n) = {}
      BY <1>7, <3>1 DEF UpsertsAt
    <3> QED
      BY <1>4, <3>1, <3>2
  <2> QED
    BY <1>7, <2>1, RoundsSame
<1>8. ASSUME to = {} PROVE Migrated(acl0, from, to) = start
  BY <1>2, <1>3, <1>5, <1>7, <1>8
<1>9. ASSUME NEW g, to = {g} PROVE Migrated(acl0, from, to) = Put(start, g, from)
  <2>1. g.ordinal \in Nat /\ g.ordinal + 1 \in 1 .. top /\ u[g.ordinal + 1] = Put(u[g.ordinal], g, from)
    BY <1>6, <1>9
  <2>2. u[g.ordinal] = u[0]
    BY <1>7, <1>9, <2>1
  <2>3. u[top] = u[g.ordinal + 1]
    BY <1>7, <1>9, <2>1
  <2> QED
    BY <1>3, <1>5, <2>1, <2>2, <2>3
<1>10. ASSUME NEW g, NEW v, to = {g, v}, g.ordinal < v.ordinal
       PROVE  Migrated(acl0, from, to) = Put(Put(start, g, from), v, from)
  <2>0. g.ordinal \in Nat /\ v.ordinal \in Nat /\ g.ordinal # v.ordinal
    BY <1>3, <1>10
  <2>1. /\ g.ordinal + 1 \in 1 .. top /\ u[g.ordinal + 1] = Put(u[g.ordinal], g, from)
        /\ v.ordinal + 1 \in 1 .. top /\ u[v.ordinal + 1] = Put(u[v.ordinal], v, from)
    BY <1>6, <1>10, <2>0
  <2>2. u[g.ordinal] = u[0]
    BY <1>7, <1>10, <2>0, <2>1
  <2>3. u[v.ordinal] = u[g.ordinal + 1]
    BY <1>7, <1>10, <2>0, <2>1
  <2>4. u[top] = u[v.ordinal + 1]
    BY <1>7, <1>10, <2>0, <2>1
  <2> QED
    BY <1>3, <1>5, <2>1, <2>2, <2>3, <2>4
<1> QED
  BY <1>8, <1>9, <1>10 DEF start
--------------------------------------------------------------------------------
(* What an ACL lets the role do *)

SameEffect(a, c) ==
  \A r : (Gone(r, a.rights) <=> Gone(r, c.rights)) /\ (Gone(r, a.options) <=> Gone(r, c.options))

\* What is absorbed tells what is held, and the other way round.
LEMMA AbsorbedTells ==
  ASSUME NEW R, \A r \in R : r = <<r[1], r[2]>>, NEW S \in SUBSET R, NEW T \in SUBSET R
  PROVE  Absorbed(S) = Absorbed(T) <=> \A r : Gone(r, S) <=> Gone(r, T)
<1>1. ASSUME NEW U \in SUBSET R, NEW r PROVE Gone(r, Absorbed(U)) <=> Gone(r, U)
  <2>1. Absorbed(U) \in SUBSET U
    BY DEF Absorbed
  <2>2. <<r[1], Whole>> \in U => <<r[1], Whole>> \in Absorbed(U)
    BY DEF Absorbed
  <2>3. r \in U /\ <<r[1], Whole>> \notin U => r \in Absorbed(U)
    BY DEF Absorbed
  <2> QED
    BY <2>1, <2>2, <2>3 DEF Gone
<1>2. ASSUME NEW U \in SUBSET R, NEW V \in SUBSET R, \A r : Gone(r, U) <=> Gone(r, V), NEW r \in Absorbed(U)
      PROVE  r \in Absorbed(V)
  <2>1. r \in U /\ r = <<r[1], r[2]>> /\ (r[2] = Whole \/ <<r[1], Whole>> \notin U)
    BY DEF Absorbed
  <2>2. Gone(r, V)
    BY <1>2, <2>1 DEF Gone
  <2>3. <<r[1], Whole>> \in V => <<r[1], Whole>> \in U
    <3> DEFINE w == <<r[1], Whole>>
    <3>1. <<w[1], Whole>> = w
      OBVIOUS
    <3> HIDE DEF w
    <3>2. w \in V => w \in U
      BY <1>2, <3>1 DEF Gone
    <3> QED
      BY <3>2 DEF w
  <2> QED
    BY <2>1, <2>2, <2>3 DEF Gone, Absorbed
<1>3. ASSUME Absorbed(S) = Absorbed(T) PROVE \A r : Gone(r, S) <=> Gone(r, T)
  BY <1>1, <1>3
<1>4. ASSUME \A r : Gone(r, S) <=> Gone(r, T) PROVE Absorbed(S) = Absorbed(T)
  <2>1. Absorbed(S) \subseteq Absorbed(T)
    BY <1>2, <1>4
  <2>2. Absorbed(T) \subseteq Absorbed(S)
    BY <1>2, <1>4
  <2> QED
    BY <2>1, <2>2
<1> QED
  BY <1>3, <1>4

LEMMA PairRights ==
  ASSUME NEW k
  PROVE  \A r \in Rights(k) \cup k.initial \X {Whole} : r = <<r[1], r[2]>>
BY DEF Rights

LEMMA EffectIs ==
  ASSUME NEW k, NEW a \in Acls(k), NEW c \in Acls(k)
  PROVE  Effective(a) = Effective(c) <=> SameEffect(a, c)
<1> DEFINE R == Rights(k) \cup k.initial \X {Whole}
<1>1. a.rights \in SUBSET R /\ a.options \in SUBSET R /\ c.rights \in SUBSET R /\ c.options \in SUBSET R
  BY DEF Acls
<1>2. \A r \in R : r = <<r[1], r[2]>>
  BY PairRights
<1> HIDE DEF R
<1>3. Absorbed(a.rights) = Absorbed(c.rights) <=> \A r : Gone(r, a.rights) <=> Gone(r, c.rights)
  BY <1>1, <1>2, AbsorbedTells
<1>4. Absorbed(a.options) = Absorbed(c.options) <=> \A r : Gone(r, a.options) <=> Gone(r, c.options)
  BY <1>1, <1>2, AbsorbedTells
<1>5. Effective(a) = Effective(c) <=> Absorbed(a.rights) = Absorbed(c.rights) /\ Absorbed(a.options) = Absorbed(c.options)
  BY DEF Effective
<1> QED
  BY <1>3, <1>4, <1>5 DEF SameEffect

\* REVOKE asks for no more than the effect.
LEMMA RevokeSame ==
  ASSUME NEW a, NEW c, SameEffect(a, c), NEW rights
  PROVE  SameEffect(Revoke(a, rights), Revoke(c, rights))
<1> DEFINE kept(S) == {r \in S : ~Gone(r, rights)}
<1>1. ASSUME NEW S, NEW r
      PROVE  Gone(r, kept(S)) <=> \/ Gone(r, S) /\ ~Gone(r, rights)
                                  \/ Gone(<<r[1], Whole>>, S) /\ ~Gone(<<r[1], Whole>>, rights)
  <2> DEFINE w == <<r[1], Whole>>
  <2>1. <<w[1], Whole>> = w /\ w[1] = r[1]
    OBVIOUS
  <2> HIDE DEF w
  <2>2. /\ Gone(r, S) <=> r \in S \/ w \in S
        /\ Gone(w, S) <=> w \in S
        /\ Gone(w, rights) <=> w \in rights
        /\ Gone(r, rights) <=> r \in rights \/ w \in rights
        /\ Gone(r, kept(S)) <=> r \in kept(S) \/ w \in kept(S)
    BY <2>1 DEF Gone, w
  <2>3. r \in kept(S) \/ w \in kept(S) <=> (r \in S /\ ~Gone(r, rights)) \/ (w \in S /\ ~Gone(w, rights))
    OBVIOUS
  <2>4. Gone(r, kept(S)) <=> (Gone(r, S) /\ ~Gone(r, rights)) \/ (Gone(w, S) /\ ~Gone(w, rights))
    BY <2>2, <2>3
  <2> QED
    BY <2>4 DEF w
<1>2. ASSUME NEW x PROVE Revoke(x, rights).rights = kept(x.rights) /\ Revoke(x, rights).options = kept(x.options)
  BY DEF Revoke, Gone
<1> HIDE DEF kept
<1>3. ASSUME NEW r
      PROVE  /\ Gone(r, kept(a.rights)) <=> Gone(r, kept(c.rights))
             /\ Gone(r, kept(a.options)) <=> Gone(r, kept(c.options))
  <2> DEFINE w == <<r[1], Whole>>
  <2>1. \A x \in {r, w} : /\ Gone(x, a.rights) <=> Gone(x, c.rights)
                          /\ Gone(x, a.options) <=> Gone(x, c.options)
    BY DEF SameEffect
  <2>2. \A S \in {a.rights, c.rights, a.options, c.options} :
            Gone(r, kept(S)) <=> (Gone(r, S) /\ ~Gone(r, rights)) \/ (Gone(w, S) /\ ~Gone(w, rights))
    BY <1>1
  <2> HIDE DEF w
  <2> QED
    BY <2>1, <2>2
<1>4. \A r : /\ Gone(r, Revoke(a, rights).rights) <=> Gone(r, Revoke(c, rights).rights)
             /\ Gone(r, Revoke(a, rights).options) <=> Gone(r, Revoke(c, rights).options)
  BY <1>2, <1>3
<1> QED
  BY <1>4 DEF SameEffect
--------------------------------------------------------------------------------
(* A role that has nothing from the start *)

\* What a grant makes of nothing.
LEMMA CreatedIs ==
  ASSUME NEW k, ~IsBuiltinPublic(k), NEW o, o.verb = "GRANT"
  PROVE  /\ Fresh(k) = [rights |-> {}, options |-> {}]
         /\ Created(Fresh(k), o) = [rights |-> o.rights \cup o.options, options |-> o.options]
<1>1. Fresh(k) = [rights |-> {}, options |-> {}]
  BY DEF Fresh, IsBuiltinPublic
<1> QED
  BY <1>1 DEF Created, Grant

\* To remove what a database has leaves nothing.
LEMMA RemovedIs ==
  ASSUME NEW k, ~IsBuiltinPublic(k), NEW o, o.verb = "GRANT", NEW a \in Acls(k),
         SameEffect(a, Created(Fresh(k), o))
  PROVE  Removed(a, o) = Fresh(k)
<1>1. Removed(a, o) = Revoke(Revoke(a, o.rights), o.options)
  BY DEF Removed
<1> DEFINE c == Created(Fresh(k), o)
<1>2. c.rights = o.rights \cup o.options /\ c.options = o.options
  BY CreatedIs
<1> HIDE DEF c
<1>3. ASSUME NEW r \in a.rights PROVE Gone(r, o.rights) \/ Gone(r, o.options)
  <2>1. Gone(r, a.rights)
    BY DEF Gone
  <2>2. Gone(r, c.rights)
    BY <2>1 DEF SameEffect, c
  <2> QED
    BY <1>2, <2>2 DEF Gone
<1>4. ASSUME NEW r \in a.options PROVE Gone(r, o.options)
  <2>1. Gone(r, a.options)
    BY DEF Gone
  <2>2. Gone(r, c.options)
    BY <2>1 DEF SameEffect, c
  <2> QED
    BY <1>2, <2>2
<1>5. Removed(a, o).rights = {} /\ Removed(a, o).options = {}
  <2>1. ASSUME NEW x, NEW R PROVE /\ Revoke(x, R).rights = {r \in x.rights : ~Gone(r, R)}
                                  /\ Revoke(x, R).options = {r \in x.options : ~Gone(r, R)}
    BY DEF Revoke, Gone
  <2> QED
    BY <1>1, <1>3, <1>4, <2>1
<1>6. Removed(a, o) = [rights |-> Removed(a, o).rights, options |-> Removed(a, o).options]
  BY <1>1 DEF Revoke
<1> QED
  BY <1>5, <1>6, CreatedIs

\* At most one grant, and a revoke after it.
LEMMA TargetIs ==
  ASSUME NEW k, NEW to, NEW b, Typed(k, to, b), Single(to), InOrder(to), Revokes(to) # {} => Grants(to) # {}
  PROVE  \/ to = {}
         \/ \E g : to = {g} /\ g.verb = "GRANT"
         \/ \E g, v : to = {g, v} /\ g.verb = "GRANT" /\ v.verb = "REVOKE" /\ g.ordinal < v.ordinal
<1>1. \A o \in to : o.verb \in {"GRANT", "REVOKE"}
  BY DEF Typed
<1>2. CASE Grants(to) = {}
  <2>1. Revokes(to) = {}
    BY <1>2
  <2>2. to = {}
    BY <1>1, <1>2, <2>1 DEF Grants, Revokes
  <2> QED
    BY <2>2
<1>3. ASSUME NEW g \in Grants(to), Revokes(to) = {} PROVE to = {g} /\ g.verb = "GRANT"
  BY <1>1, <1>3 DEF Grants, Revokes, Single
<1>4. ASSUME NEW g \in Grants(to), NEW v \in Revokes(to)
      PROVE  to = {g, v} /\ g.verb = "GRANT" /\ v.verb = "REVOKE" /\ g.ordinal < v.ordinal
  BY <1>1, <1>4 DEF Grants, Revokes, Single, InOrder
<1> QED
  BY <1>2, <1>3, <1>4

\* From nothing, or from a grant that tells what the database has, to any model.
LEMMA GrantDeploys ==
  ASSUME NEW k, ~IsBuiltinPublic(k), NEW acl0 \in Acls(k), NEW from, NEW to, NEW b \in Nat,
         Sized(k, from, b), Typed(k, to, b), Distinct(to), Single(to), InOrder(to),
         Revokes(to) # {} => Grants(to) # {},
         \/ from = {} /\ acl0 = Fresh(k)
         \/ \E o : from = {o} /\ o.verb = "GRANT" /\ SameEffect(acl0, Created(Fresh(k), o))
  PROVE  SameEffect(Migrated(acl0, from, to), Migrated(Fresh(k), {}, to))
<1>1. Fresh(k) \in Acls(k)
  BY DEF Fresh, Acls
<1>2. Sized(k, to, b) /\ Sized(k, {}, b)
  BY DEF Typed, Sized
<1>3. \A o : Put(Fresh(k), o, {}) = Created(Fresh(k), o)
  BY DEF Put, Changed, Contents, Upserted, Before
<1>4. AfterDrops(Fresh(k), {}, to) = Fresh(k)
  BY DEF AfterDrops
<1>5. CASE from = {} /\ acl0 = Fresh(k)
  BY <1>5 DEF SameEffect
<1>6. ASSUME NEW o, from = {o}, o.verb = "GRANT", SameEffect(acl0, Created(Fresh(k), o))
      PROVE  SameEffect(Migrated(acl0, from, to), Migrated(Fresh(k), {}, to))
  <2>1. Removed(acl0, o) = Fresh(k)
    BY <1>6, RemovedIs
  <2>2. (CHOOSE p \in from : TRUE) = o /\ \A p, q \in from : p = q
    BY <1>6
  <2>3. CASE to = {}
    <3>1. Before(o, to) = {}
      BY <2>3 DEF Before
    <3>2. AfterDrops(acl0, from, to) = Fresh(k)
      BY <1>6, <2>1, <2>2, <3>1 DEF AfterDrops
    <3>3. Migrated(acl0, from, to) = Fresh(k)
      BY <1>2, <2>2, <2>3, <3>2, MigratedIs
    <3>4. Migrated(Fresh(k), {}, to) = Fresh(k)
      BY <1>1, <1>2, <1>4, <2>3, MigratedIs
    <3> QED
      BY <3>3, <3>4 DEF SameEffect
  <2>4. ASSUME NEW g \in to, g.verb = "GRANT"
        PROVE  /\ AfterDrops(acl0, from, to) = acl0
               /\ SameEffect(Put(acl0, g, from), Created(Fresh(k), g))
    <3>1. Before(o, to) # {}
      BY <1>6, <2>4 DEF Before
    <3>2. AfterDrops(acl0, from, to) = acl0
      BY <1>6, <3>1 DEF AfterDrops
    <3> SUFFICES SameEffect(Put(acl0, g, from), Created(Fresh(k), g))
      BY <3>2
    <3>3. CASE Changed(g, from)
      <4>1. Before(g, from) = {o}
        BY <1>6, <2>4 DEF Before
      <4>2. (CHOOSE p \in Before(g, from) : TRUE) = o
        BY <4>1
      <4>3. Put(acl0, g, from) = Created(Fresh(k), g)
        BY <2>1, <3>3, <4>1, <4>2 DEF Put, Upserted
      <4> QED
        BY <4>3 DEF SameEffect
    <3>4. CASE ~Changed(g, from)
      <4>1. Content(g) = Content(o)
        BY <1>6, <3>4 DEF Changed, Contents
      <4>2. g.rights = o.rights /\ g.options = o.options
        BY <4>1 DEF Content
      <4>3. Created(Fresh(k), g) = Created(Fresh(k), o)
        BY <1>6, <2>4, <4>2, CreatedIs
      <4>4. Put(acl0, g, from) = acl0
        BY <3>4 DEF Put
      <4> QED
        BY <1>6, <4>3, <4>4
    <3> QED
      BY <3>3, <3>4
  <2>5. ASSUME NEW g, to = {g}, g.verb = "GRANT"
        PROVE  SameEffect(Migrated(acl0, from, to), Migrated(Fresh(k), {}, to))
    <3>1. Migrated(acl0, from, to) = Put(acl0, g, from)
      <4>1. Migrated(acl0, from, to) = Put(AfterDrops(acl0, from, to), g, from)
        BY <1>2, <2>2, <2>5, MigratedIs
      <4> QED
        BY <2>4, <2>5, <4>1
    <3>2. Migrated(Fresh(k), {}, to) = Created(Fresh(k), g)
      <4>1. Migrated(Fresh(k), {}, to) = Put(AfterDrops(Fresh(k), {}, to), g, {})
        BY <1>1, <1>2, <2>5, MigratedIs
      <4> QED
        BY <1>3, <1>4, <4>1
    <3> QED
      BY <2>4, <2>5, <3>1, <3>2
  <2>6. ASSUME NEW g, NEW v, to = {g, v}, g.verb = "GRANT", v.verb = "REVOKE", g.ordinal < v.ordinal
        PROVE  SameEffect(Migrated(acl0, from, to), Migrated(Fresh(k), {}, to))
    <3>1. Migrated(acl0, from, to) = Put(Put(acl0, g, from), v, from)
      <4>1. AfterDrops(acl0, from, to) = acl0
        BY <2>4, <2>6
      <4>2. Sized(k, to, b) /\ \A p, q \in from : p = q
        BY <1>2, <2>2
      <4>3. to = {g, v} /\ g.ordinal < v.ordinal
        BY <2>6
      <4>4. Migrated(acl0, from, to) = Put(Put(AfterDrops(acl0, from, to), g, from), v, from)
        BY <4>2, <4>3, MigratedIs
      <4> QED
        BY <4>1, <4>4
    <3>2. Migrated(Fresh(k), {}, to) = Put(Created(Fresh(k), g), v, {})
      BY <1>1, <1>2, <1>3, <1>4, <2>6, MigratedIs
    <3>3. ASSUME NEW a PROVE Put(a, v, from) = Revoke(a, v.rights) /\ Put(a, v, {}) = Revoke(a, v.rights)
      <4>1. Content(v) # Content(o)
        BY <1>6, <2>6 DEF Content
      <4>2. Changed(v, from) /\ Changed(v, {})
        BY <1>6, <4>1 DEF Changed, Contents
      <4>3. Before(v, from) = {} /\ Before(v, {}) = {}
        BY <1>6, <2>6 DEF Before
      <4> QED
        BY <2>6, <4>2, <4>3 DEF Put, Upserted, Created
    <3>4. SameEffect(Put(acl0, g, from), Created(Fresh(k), g))
      BY <2>4, <2>6
    <3> QED
      BY <3>1, <3>2, <3>3, <3>4, RevokeSame
  <2> QED
    BY <2>3, <2>5, <2>6, TargetIs
<1> QED
  BY <1>5, <1>6
--------------------------------------------------------------------------------
(* PUBLIC, which has the one privilege of its kind or lost it *)

\* What PUBLIC has of a model.
PublicLeft(k, model) == IF model = {} THEN Fresh(k) ELSE [rights |-> {}, options |-> {}]

\* A model of PUBLIC: at most one revoke, of the privilege.
RevokesAll(k, model) ==
  \/ model = {}
  \/ \E v : model = {v} /\ v.verb = "REVOKE" /\ v.rights = AllOf(k) /\ v.options = {}

\* From what a model of PUBLIC leaves it to what another one does.
LEMMA PublicDeploys ==
  ASSUME NEW k \in Kinds, IsBuiltinPublic(k), NEW from, NEW to, NEW b \in Nat,
         Sized(k, from, b), Sized(k, to, b), RevokesAll(k, from), RevokesAll(k, to)
  PROVE  Migrated(PublicLeft(k, from), from, to) = PublicLeft(k, to)
<1> DEFINE none == [rights |-> {}, options |-> {}]
<1>1. Fresh(k) = [rights |-> AllOf(k), options |-> {}] /\ \A r \in AllOf(k) : Gone(r, AllOf(k))
  BY PublicRights DEF Fresh, Gone
<1>2. PublicLeft(k, from) \in Acls(k)
  BY DEF PublicLeft, Fresh, Acls
<1>3. \A o, p \in from : o = p
  BY DEF RevokesAll
<1>4. ASSUME NEW v, v.verb = "REVOKE", v.rights = AllOf(k), v.options = {}
      PROVE  Created(Fresh(k), v) = none /\ Removed(none, v) = Fresh(k)
  <2>1. Created(Fresh(k), v) = none
    <3>1. Created(Fresh(k), v) = Revoke(Fresh(k), AllOf(k))
      BY <1>4 DEF Created
    <3>2. \A r \in AllOf(k) : r \in AllOf(k) \/ <<r[1], Whole>> \in AllOf(k)
      OBVIOUS
    <3>3. {r \in AllOf(k) : ~(r \in AllOf(k) \/ <<r[1], Whole>> \in AllOf(k))} = {}
      BY <3>2
    <3>4. ASSUME NEW x, NEW R
          PROVE  /\ Revoke(x, R).rights = {r \in x.rights : ~(r \in R \/ <<r[1], Whole>> \in R)}
                 /\ Revoke(x, R).options \in SUBSET x.options
      BY DEF Revoke
    <3> DEFINE f == Fresh(k)
               R == AllOf(k)
    <3>6. f.rights = R /\ f.options = {}
      BY <1>1
    <3> HIDE DEF f, R
    <3>7. Revoke(f, R).rights = {} /\ Revoke(f, R).options = {}
      <4>1. Revoke(f, R).rights = {r \in R : ~(r \in R \/ <<r[1], Whole>> \in R)}
        BY <3>4, <3>6
      <4>2. Revoke(f, R).options \in SUBSET {}
        BY <3>4, <3>6
      <4> QED
        BY <4>1, <4>2
    <3>5. Revoke(Fresh(k), AllOf(k)) = [rights |-> Revoke(Fresh(k), AllOf(k)).rights,
                                        options |-> Revoke(Fresh(k), AllOf(k)).options]
      BY DEF Revoke
    <3> QED
      BY <3>1, <3>5, <3>7 DEF f, R
  <2>2. Removed(none, v) = Fresh(k)
    BY <1>1, <1>4 DEF Removed, Grant
  <2> QED
    BY <2>1, <2>2
<1>5. CASE from = {}
  <2>1. AfterDrops(PublicLeft(k, from), from, to) = Fresh(k)
    BY <1>5 DEF AfterDrops, PublicLeft
  <2>2. CASE to = {}
    BY <1>2, <1>3, <2>1, <2>2, MigratedIs DEF PublicLeft
  <2>3. ASSUME NEW v, to = {v}, v.verb = "REVOKE", v.rights = AllOf(k), v.options = {}
        PROVE  Migrated(PublicLeft(k, from), from, to) = PublicLeft(k, to)
    <3>1. Put(Fresh(k), v, from) = Created(Fresh(k), v)
      BY <1>5 DEF Put, Changed, Contents, Upserted, Before
    <3>2. Migrated(PublicLeft(k, from), from, to) = Created(Fresh(k), v)
      BY <1>2, <1>3, <2>1, <2>3, <3>1, MigratedIs
    <3> QED
      BY <1>4, <2>3, <3>2 DEF PublicLeft
  <2> QED
    BY <2>2, <2>3 DEF RevokesAll
<1>6. ASSUME NEW o, from = {o}, o.verb = "REVOKE", o.rights = AllOf(k), o.options = {}
      PROVE  Migrated(PublicLeft(k, from), from, to) = PublicLeft(k, to)
  <2>1. PublicLeft(k, from) = none /\ (CHOOSE p \in from : TRUE) = o
    BY <1>6 DEF PublicLeft
  <2>2. CASE to = {}
    <3>1. Before(o, to) = {}
      BY <2>2 DEF Before
    <3>2. AfterDrops(none, from, to) = Fresh(k)
      BY <1>4, <1>6, <2>1, <3>1 DEF AfterDrops
    <3>3. Migrated(none, from, to) = Fresh(k)
      BY <1>2, <1>3, <2>1, <2>2, <3>2, MigratedIs
    <3> QED
      BY <2>1, <2>2, <3>3 DEF PublicLeft
  <2>3. ASSUME NEW v, to = {v}, v.verb = "REVOKE", v.rights = AllOf(k), v.options = {}
        PROVE  Migrated(PublicLeft(k, from), from, to) = PublicLeft(k, to)
    <3>1. Before(o, to) # {}
      BY <1>6, <2>3 DEF Before
    <3>2. AfterDrops(none, from, to) = none
      BY <1>6, <3>1 DEF AfterDrops
    <3>3. ~Changed(v, from)
      BY <1>6, <2>3 DEF Changed, Contents, Content
    <3>4. Migrated(none, from, to) = Put(none, v, from)
      BY <1>2, <1>3, <2>1, <2>3, <3>2, MigratedIs
    <3> QED
      BY <2>1, <2>3, <3>3, <3>4 DEF PublicLeft, Put
  <2> QED
    BY <2>2, <2>3 DEF RevokesAll
<1> QED
  BY <1>5, <1>6 DEF RevokesAll
--------------------------------------------------------------------------------
(* What a tree of declarations becomes *)

\* The model of any tree: at most a grant and, when there is one, a revoke after
\* it; for PUBLIC at most a revoke.
LEMMA DeclaredIs ==
  ASSUME HistoryTyped
  PROVE  LET M == Declared(kind, history)
         IN  /\ Typed(kind, M, Len(history)) /\ Distinct(M) /\ Single(M)
             /\ ~IsBuiltinPublic(kind) => InOrder(M) /\ (Revokes(M) # {} => Grants(M) # {})
             /\ IsBuiltinPublic(kind) => RevokesAll(kind, M)
<1> DEFINE O == Objects(history)
           M == Normalised(kind, O)
           b == Len(history)
<1>1. b \in Nat /\ kind \in Kinds /\ Typed(kind, O, b) /\ Distinct(O) /\ Declared(kind, history) = M
  BY ObjectsTyped DEF HistoryTyped, Declared, Objects
<1>2. CASE ~IsBuiltinPublic(kind)
  <2> DEFINE A == SuppressCleared(kind, O)
             B == ResolveInterleaved(kind, A)
             C == MergeSplit(B)
             G == Grants(C)
             V == Revokes(C)
             undone == \E v \in V : ~Moot(kind, v, G) /\ Undoes(kind, v, G)
  <2>0. M = SuppressDefaultEqual(kind, C)
    BY DEF Normalised
  <2> HIDE DEF M, O, b
  <2>1. A \in SUBSET O
    BY <1>1, ClearedKeeps
  <2>2. Typed(kind, A, b) /\ Distinct(A)
    BY <1>1, <2>1, SubsetKeeps
  <2> HIDE DEF A
  <2>3. Typed(kind, B, b) /\ Distinct(B)
    BY <1>1, <2>2, InterleavedKeeps
  <2> HIDE DEF B
  <2>4. Typed(kind, C, b) /\ Distinct(C) /\ Single(C)
    BY <1>1, <2>3, MergeKeeps
  <2> HIDE DEF C
  <2>5. M \in SUBSET C /\ InOrder(M)
    BY <1>1, <1>2, <2>0, <2>4, SuppressKeeps
  <2>6. Typed(kind, M, b) /\ Distinct(M) /\ Single(M)
    BY <2>4, <2>5, SubsetKeeps DEF Single
  <2>7. M = {g \in G : ~undone} \cup {v \in V : ~Moot(kind, v, G) /\ ~Undoes(kind, v, G)}
    BY <1>2, <2>0 DEF SuppressDefaultEqual
  <2>8. ASSUME NEW v \in Revokes(M) PROVE Grants(M) # {}
    <3>1. v \in V /\ ~Moot(kind, v, G) /\ ~Undoes(kind, v, G)
      BY <2>7 DEF Revokes, Grants
    <3>2. \A w \in V : w = v
      BY <2>4, <3>1 DEF Single, Revokes
    <3>3. ~undone
      BY <3>1, <3>2
    <3>4. G # {}
      BY <3>1 DEF Moot
    <3>5. G \subseteq M
      BY <2>7, <3>3
    <3> QED
      BY <3>4, <3>5 DEF Grants
  <2> QED
    BY <1>1, <1>2, <2>5, <2>6, <2>8 DEF b
<1>3. CASE IsBuiltinPublic(kind)
  <2>1. ASSUME NEW n \in DOMAIN history
        PROVE  ObjectOf(history[n], n).rights = AllOf(kind) /\ ObjectOf(history[n], n).options = {}
    <3>1. history[n] \in Statements
      BY DEF HistoryTyped
    <3>2. history[n].rights \in Named /\ history[n].rights \subseteq Rights(kind) /\ ~history[n].option
      BY <1>3, <3>1 DEF Statements
    <3>3. history[n].rights # {}
      BY <3>2, NamedAssumption
    <3>4. history[n].rights = AllOf(kind)
      BY <1>1, <1>3, <3>2, <3>3, PublicRights
    <3> QED
      BY <1>1, <1>3, <3>2, <3>4, PublicRights DEF ObjectOf
  <2>2. Plain(kind, O)
    BY <2>1 DEF Plain, Objects
  <2> HIDE DEF O, b
  <2>3. Typed(kind, M, b) /\ Distinct(M) /\ Single(M) /\ Plain(kind, M) /\ Grants(M) = {}
    BY <1>1, <1>3, <2>2, PublicNormalised
  <2> HIDE DEF M
  <2>4. \A o \in M : o.verb = "REVOKE"
    BY <2>3 DEF Typed, Grants
  <2>5. RevokesAll(kind, M)
    BY <2>3, <2>4 DEF RevokesAll, Single, Plain
  <2> QED
    BY <1>1, <1>3, <2>3, <2>5 DEF b
<1> QED
  BY <1>2, <1>3
--------------------------------------------------------------------------------
(* Deployments *)

\* The database has rights that there are, and the model deployed last is one that
\* a tree of declarations makes.
DeployInv ==
  /\ HistoryTyped
  /\ db \in Acls(kind)
  /\ \E b \in Nat : Typed(kind, head, b)
  /\ Distinct(head) /\ Single(head)
  /\ IsBuiltinPublic(kind) => RevokesAll(kind, head)

\* Bounds on ordinals can be raised.
LEMMA TypedSized ==
  ASSUME NEW k, NEW O, NEW b \in Nat, Typed(k, O, b), NEW c \in Nat, b <= c
  PROVE  Sized(k, O, c)
BY DEF Typed, Sized

\* What a database tells has rights that there are, at ordinal 0.
LEMMA CatalogSized ==
  ASSUME NEW k, k.initial # {} => k \in Kinds, NEW a \in Acls(k)
  PROVE  Sized(k, Catalog(k, a), 0)
<1>1. k.initial # {} => Rights(k) \cup k.initial \X {Whole} = Rights(k) /\ AllOf(k) \in SUBSET Rights(k)
  BY KindsAssumption DEF Rights, AllOf
<1>2. k.initial = {} => Rights(k) \cup k.initial \X {Whole} = Rights(k)
  OBVIOUS
<1>3. a.rights \in SUBSET Rights(k) /\ a.options \in SUBSET Rights(k)
  BY <1>1, <1>2 DEF Acls
<1>4. Absorbed(a.rights) \in SUBSET Rights(k) /\ Absorbed(a.options) \in SUBSET Rights(k)
  BY <1>3 DEF Absorbed
<1>5. CASE IsBuiltinPublic(k)
  BY <1>1, <1>5 DEF Catalog, Sized, IsBuiltinPublic
<1>6. CASE ~IsBuiltinPublic(k)
  BY <1>4, <1>6 DEF Catalog, Sized
<1> QED
  BY <1>5, <1>6

\* Deployments, whatever they start from, keep to DeployInv.
LEMMA DeployInvariant == Spec => []DeployInv
<1>1. Init => DeployInv
  <2> SUFFICES ASSUME Init PROVE DeployInv
    OBVIOUS
  <2>1. HistoryTyped
    BY DEF Init, HistoryTyped
  <2>2. db \in Acls(kind)
    BY DEF Init, Fresh, Acls
  <2>3. head = {} /\ Typed(kind, head, 0)
    BY DEF Init, Typed
  <2> QED
    BY <2>1, <2>2, <2>3 DEF DeployInv, Distinct, Single, RevokesAll
<1>2. DeployInv /\ [Next]_vars => DeployInv'
  <2> SUFFICES ASSUME DeployInv, [Next]_vars PROVE DeployInv'
    OBVIOUS
  <2>1. ASSUME UNCHANGED <<kind, db, head>>, HistoryTyped' PROVE DeployInv'
    BY <2>1 DEF DeployInv, Acls, Typed, Distinct, Single, RevokesAll
  <2>2. ASSUME NEW s \in Statements, Write(s) PROVE DeployInv'
    <3>1. kind' = kind /\ history' = Append(history, s) /\ Statements' = Statements
      BY <2>2 DEF Write, Statements
    <3>2. HistoryTyped'
      BY <3>1 DEF DeployInv, HistoryTyped
    <3> QED
      BY <2>1, <2>2, <3>2 DEF Write
  <2>3. ASSUME NEW from, Deploy(from), NEW c \in Nat, Sized(kind, from, c) PROVE DeployInv'
    <3> DEFINE M == Declared(kind, history)
               n == Len(history)
    <3>1. kind' = kind /\ history' = history /\ head' = M /\ db' = Migrated(db, from, M)
      BY <2>3 DEF Deploy
    <3>2. HistoryTyped' /\ n \in Nat
      BY <3>1 DEF DeployInv, HistoryTyped, Statements
    <3>3. Typed(kind, M, n) /\ Distinct(M) /\ Single(M) /\ (IsBuiltinPublic(kind) => RevokesAll(kind, M))
      BY DeclaredIs DEF DeployInv
    <3> HIDE DEF M, n
    <3>4. PICK m \in Nat : c <= m /\ n <= m
      <4>1. c + n \in Nat /\ c <= c + n /\ n <= c + n
        BY <3>2
      <4> QED
        BY <4>1
    <3>5. Sized(kind, from, m) /\ Sized(kind, M, m)
      BY <2>3, <3>2, <3>3, <3>4, TypedSized DEF Sized
    <3>6. db' \in Acls(kind)
      BY <3>1, <3>5, TwoLoops DEF DeployInv
    <3>7. db' \in Acls(kind')
      BY <3>1, <3>6
    <3> QED
      BY <3>1, <3>2, <3>3, <3>7 DEF DeployInv
  <2>4. CASE Deploy(head)
    BY <2>3, <2>4, TypedSized DEF DeployInv
  <2>5. CASE Deploy(Catalog(kind, db))
    BY <2>3, <2>5, CatalogSized DEF DeployInv, HistoryTyped
  <2>6. CASE Rewrite
    BY <2>1, <2>6 DEF Rewrite, HistoryTyped, DeployInv, Statements
  <2>7. CASE UNCHANGED vars
    BY <2>1, <2>7 DEF vars, HistoryTyped, DeployInv, Statements
  <2> QED
    BY <2>2, <2>4, <2>5, <2>6, <2>7 DEF Next
<1> QED
  BY <1>1, <1>2, PTL DEF Spec

\* What has the effect of no rights is without rights.
LEMMA SameNone ==
  ASSUME NEW k, NEW a \in Acls(k), \A r : ~Gone(r, a.rights) /\ ~Gone(r, a.options)
  PROVE  a = [rights |-> {}, options |-> {}]
<1>1. a.rights = {} /\ a.options = {}
  BY DEF Gone
<1> QED
  BY <1>1 DEF Acls

\* What a role without rights from the start has after a model was deployed.
LEMMA BuiltIs ==
  ASSUME DeployInv, ~IsBuiltinPublic(kind), Revokes(head) = {}
  PROVE  /\ head = {} => Built(head) = Fresh(kind)
         /\ \A o : head = {o} => o.verb = "GRANT" /\ Built(head) = Created(Fresh(kind), o)
         /\ head = {} \/ \E o : head = {o}
<1>1. PICK b \in Nat : Typed(kind, head, b)
  BY DEF DeployInv
<1>2. Sized(kind, head, b) /\ Sized(kind, {}, b) /\ Fresh(kind) \in Acls(kind)
  BY <1>1 DEF Typed, Sized, Fresh, Acls
<1>3. \A o \in head : o.verb = "GRANT"
  BY <1>1 DEF Typed, Revokes
<1>4. head = {} \/ \E o : head = {o}
  BY <1>3 DEF DeployInv, Single
<1>5. AfterDrops(Fresh(kind), {}, head) = Fresh(kind)
  BY DEF AfterDrops
<1>6. head = {} => Built(head) = Fresh(kind)
  BY <1>2, <1>5, MigratedIs DEF Built
<1>7. ASSUME NEW o, head = {o} PROVE Built(head) = Created(Fresh(kind), o)
  <2>1. Migrated(Fresh(kind), {}, head) = Put(AfterDrops(Fresh(kind), {}, head), o, {})
    BY <1>2, <1>7, MigratedIs
  <2>2. Put(Fresh(kind), o, {}) = Created(Fresh(kind), o)
    BY DEF Put, Changed, Contents, Upserted, Before
  <2> QED
    BY <1>5, <2>1, <2>2 DEF Built
<1> QED
  BY <1>3, <1>4, <1>6, <1>7

\* The model a diff starts from tells what the database has.
LEMMA GrantStart ==
  ASSUME DeployInv, ~IsBuiltinPublic(kind), Revokes(head) = {}, SameEffect(db, Built(head)),
         NEW from \in {head, Catalog(kind, db)}
  PROVE  \/ from = {} /\ db = Fresh(kind)
         \/ \E o : from = {o} /\ o.verb = "GRANT" /\ SameEffect(db, Created(Fresh(kind), o))
<1>1. db \in Acls(kind)
  BY DEF DeployInv
<1>2. Fresh(kind) = [rights |-> {}, options |-> {}]
  BY DEF Fresh, IsBuiltinPublic
<1>3. Built(head).options \subseteq Built(head).rights
  BY BuiltIs, CreatedIs, <1>2
<1>4. ASSUME \A r : ~Gone(r, Built(head).rights) PROVE db = Fresh(kind)
  <2>1. \A r : ~Gone(r, Built(head).options)
    BY <1>3, <1>4 DEF Gone
  <2> QED
    BY <1>1, <1>2, <1>4, <2>1, SameNone DEF SameEffect
<1>5. CASE from = head
  <2>1. ASSUME head = {} PROVE db = Fresh(kind)
    <3>1. Built(head) = Fresh(kind)
      BY <2>1, BuiltIs
    <3>2. Built(head).rights = {}
      BY <1>2, <3>1
    <3> QED
      BY <1>4, <3>2 DEF Gone
  <2> QED
    BY <1>5, <2>1, BuiltIs
<1>6. CASE from = Catalog(kind, db) /\ db.rights = {}
  <2>1. \A r : ~Gone(r, db.rights)
    BY <1>6 DEF Gone
  <2>2. db = Fresh(kind)
    BY <1>4, <2>1 DEF SameEffect
  <2> QED
    BY <1>6, <2>2 DEF Catalog
<1>7. CASE from = Catalog(kind, db) /\ db.rights # {}
  <2> DEFINE o == [verb |-> "GRANT", rights |-> Absorbed(db.rights),
                   options |-> Absorbed(db.options), ordinal |-> 0]
             R == Rights(kind) \cup kind.initial \X {Whole}
             c == Created(Fresh(kind), o)
  <2>1. from = {o}
    BY <1>7 DEF Catalog
  <2>2. db.rights \in SUBSET R /\ db.options \in SUBSET R
    BY <1>1 DEF Acls
  <2>3. \A r \in R : r = <<r[1], r[2]>>
    BY PairRights
  <2> HIDE DEF R
  <2>4. ASSUME NEW S \in SUBSET R, NEW r PROVE Gone(r, Absorbed(S)) <=> Gone(r, S)
    <3>1. Absorbed(S) \in SUBSET S
      BY DEF Absorbed
    <3>2. <<r[1], Whole>> \in S => <<r[1], Whole>> \in Absorbed(S)
      BY DEF Absorbed
    <3>3. r \in S /\ <<r[1], Whole>> \notin S => r \in Absorbed(S)
      BY DEF Absorbed
    <3> QED
      BY <3>1, <3>2, <3>3 DEF Gone
  <2>5. c.rights = Absorbed(db.rights) \cup Absorbed(db.options) /\ c.options = Absorbed(db.options)
        /\ o.verb = "GRANT"
    BY CreatedIs
  <2> HIDE DEF o, c
  <2>6. ASSUME NEW r, Gone(r, db.options) PROVE Gone(r, db.rights)
    <3>1. Gone(r, Built(head).options)
      BY <2>6 DEF SameEffect
    <3>2. Gone(r, Built(head).rights)
      BY <1>3, <3>1 DEF Gone
    <3> QED
      BY <3>2 DEF SameEffect
  <2>7. ASSUME NEW r PROVE Gone(r, c.rights) <=> Gone(r, db.rights)
    <3>1. Gone(r, c.rights) <=> Gone(r, Absorbed(db.rights)) \/ Gone(r, Absorbed(db.options))
      BY <2>5 DEF Gone
    <3>2. Gone(r, c.rights) <=> Gone(r, db.rights) \/ Gone(r, db.options)
      BY <2>2, <2>4, <3>1
    <3> QED
      BY <2>6, <3>2
  <2>8. ASSUME NEW r PROVE Gone(r, c.options) <=> Gone(r, db.options)
    BY <2>2, <2>4, <2>5
  <2>9. SameEffect(db, c)
    BY <2>7, <2>8 DEF SameEffect
  <2> QED
    BY <2>1, <2>5, <2>9 DEF c
<1> QED
  BY <1>5, <1>6, <1>7

\* PUBLIC has what the model deployed last leaves it.
LEMMA PublicStart ==
  ASSUME DeployInv, IsBuiltinPublic(kind), SameEffect(db, Built(head))
  PROVE  /\ db = PublicLeft(kind, head)
         /\ kind.listed => /\ RevokesAll(kind, Catalog(kind, db))
                           /\ db = PublicLeft(kind, Catalog(kind, db))
<1>1. PICK b \in Nat : Typed(kind, head, b)
  BY DEF DeployInv
<1>2. Sized(kind, head, b) /\ Sized(kind, {}, b) /\ kind \in Kinds
  BY <1>1 DEF Typed, Sized, DeployInv, HistoryTyped
<1>3. Built(head) = PublicLeft(kind, head)
  <2>1. PublicLeft(kind, {}) = Fresh(kind) /\ RevokesAll(kind, {}) /\ RevokesAll(kind, head)
    BY DEF PublicLeft, RevokesAll, DeployInv
  <2> QED
    BY <1>2, <2>1, PublicDeploys DEF Built
<1>4. PICK p : AllOf(kind) = {<<p, Whole>>} /\ Rights(kind) = {<<p, Whole>>}
  BY <1>2, PublicRights
<1>5. Fresh(kind) = [rights |-> AllOf(kind), options |-> {}] /\ kind.initial \X {Whole} = AllOf(kind)
  BY <1>2, PublicRights DEF Fresh
<1> DEFINE w == <<p, Whole>>
<1>6. ASSUME NEW S PROVE Gone(w, S) <=> w \in S
  BY DEF Gone
<1> HIDE DEF w
<1>7. db.rights \in SUBSET {w} /\ db.options \in SUBSET {w}
      /\ db = [rights |-> db.rights, options |-> db.options]
  BY <1>4, <1>5 DEF DeployInv, Acls, w
<1>8. PublicLeft(kind, head) \in {[rights |-> {w}, options |-> {}], [rights |-> {}, options |-> {}]}
  BY <1>4, <1>5 DEF PublicLeft, w
<1>9. db = PublicLeft(kind, head)
  <2> DEFINE a == PublicLeft(kind, head)
  <2>1. (w \in db.rights <=> w \in a.rights) /\ (w \in db.options <=> w \in a.options)
    BY <1>3, <1>6 DEF SameEffect
  <2> HIDE DEF a
  <2>2. a \in {[rights |-> {w}, options |-> {}], [rights |-> {}, options |-> {}]}
    BY <1>8 DEF a
  <2>3. a.rights \in SUBSET {w} /\ a.options \in SUBSET {w} /\ a = [rights |-> a.rights, options |-> a.options]
    BY <2>2
  <2>4. db.rights = a.rights /\ db.options = a.options
    BY <1>7, <2>1, <2>3
  <2> QED
    BY <1>7, <2>3, <2>4 DEF a
<1>10. ASSUME kind.listed
       PROVE  RevokesAll(kind, Catalog(kind, db)) /\ db = PublicLeft(kind, Catalog(kind, db))
  <2>1. CASE head = {}
    <3>1. db = Fresh(kind)
      BY <1>9, <2>1 DEF PublicLeft
    <3>2. Catalog(kind, db) = {}
      BY <1>5, <3>1 DEF Catalog
    <3> QED
      BY <3>1, <3>2 DEF RevokesAll, PublicLeft
  <2>2. CASE head # {}
    <3>1. db = [rights |-> {}, options |-> {}]
      BY <1>9, <2>2 DEF PublicLeft
    <3>2. ~(kind.initial \X {Whole} \subseteq db.rights)
      BY <1>4, <1>5, <3>1
    <3>3. Catalog(kind, db) = {[verb |-> "REVOKE", rights |-> AllOf(kind), options |-> {}, ordinal |-> 0]}
      BY <1>10, <3>2 DEF Catalog
    <3> DEFINE v == [verb |-> "REVOKE", rights |-> AllOf(kind), options |-> {}, ordinal |-> 0]
    <3>4. v.verb = "REVOKE" /\ v.rights = AllOf(kind) /\ v.options = {} /\ Catalog(kind, db) = {v}
      BY <3>3
    <3> HIDE DEF v
    <3>5. RevokesAll(kind, Catalog(kind, db))
      BY <3>4 DEF RevokesAll
    <3>6. Catalog(kind, db) # {}
      BY <3>4
    <3> QED
      BY <3>1, <3>5, <3>6 DEF PublicLeft
  <2> QED
    BY <2>1, <2>2
<1> QED
  BY <1>9, <1>10

\* Whatever a role was granted before, the diff between two models, or between a
\* database and a model, leaves what the second one says: no revoke of the
\* migration takes along what the target grants, and no right stays behind.
THEOREM DeploymentsExact == Spec => DeploysExactly
<1> DEFINE told == /\ Effective(db) = Effective(Built(head))
                   /\ IF IsBuiltinPublic(kind) THEN kind.listed \/ db' = Migrated(db, head, head')
                      ELSE Revokes(head) = {}
           exact == Effective(db') = Effective(Migrated(Fresh(kind), {}, head'))
<1>1. ASSUME DeployInv, DeployInv', [Next]_vars, told PROVE exact
  <2>1. ASSUME kind' = kind, head' = head, db' = db PROVE exact
    BY <1>1, <2>1 DEF Built
  <2>2. SUFFICES ASSUME NEW from \in {head, Catalog(kind, db)}, Deploy(from) PROVE exact
    <3>1. CASE Deploy(head) \/ Deploy(Catalog(kind, db))
      BY <2>2, <3>1
    <3>2. CASE Rewrite \/ UNCHANGED vars \/ \E s \in Statements : Write(s)
      BY <2>1, <3>2 DEF Rewrite, Write, vars
    <3> QED
      BY <1>1, <3>1, <3>2 DEF Next
  <2> DEFINE M == Declared(kind, history)
             n == Len(history)
  <2>3. kind' = kind /\ head' = M /\ db' = Migrated(db, from, M)
    BY <2>2 DEF Deploy
  <2>4. /\ n \in Nat /\ kind \in Kinds /\ Typed(kind, M, n) /\ Distinct(M) /\ Single(M)
        /\ ~IsBuiltinPublic(kind) => InOrder(M) /\ (Revokes(M) # {} => Grants(M) # {})
        /\ IsBuiltinPublic(kind) => RevokesAll(kind, M)
    BY <1>1, DeclaredIs DEF DeployInv, HistoryTyped
  <2> HIDE DEF M, n
  <2>5. PICK b \in Nat : Typed(kind, head, b)
    BY <1>1 DEF DeployInv
  <2> DEFINE m == b + n
  <2>6. m \in Nat /\ b <= m /\ n <= m
    BY <2>4
  <2> HIDE DEF m
  <2>7. Typed(kind, M, m) /\ Sized(kind, M, m) /\ Sized(kind, head, m) /\ Sized(kind, {}, m)
        /\ Sized(kind, Catalog(kind, db), m)
    <3>1. Sized(kind, Catalog(kind, db), 0)
      BY <1>1, <2>4, CatalogSized DEF DeployInv
    <3>2. Sized(kind, Catalog(kind, db), m)
      BY <2>6, <3>1 DEF Sized
    <3> QED
      BY <2>4, <2>5, <2>6, <3>2 DEF Typed, Sized
  <2>8. Fresh(kind) \in Acls(kind) /\ db \in Acls(kind) /\ db' \in Acls(kind)
    BY <1>1, <2>3 DEF DeployInv, Fresh, Acls
  <2>9. Built(head) \in Acls(kind) /\ Migrated(Fresh(kind), {}, M) \in Acls(kind)
    BY <2>6, <2>7, <2>8, TwoLoops DEF Built
  <2>10. SameEffect(db, Built(head))
    BY <1>1, <2>8, <2>9, EffectIs
  <2>11. CASE ~IsBuiltinPublic(kind)
    <3>1. \/ from = {} /\ db = Fresh(kind)
          \/ \E o : from = {o} /\ o.verb = "GRANT" /\ SameEffect(db, Created(Fresh(kind), o))
      BY <1>1, <2>2, <2>10, <2>11, GrantStart
    <3>2. Sized(kind, from, m)
      BY <2>2, <2>7
    <3>3. SameEffect(Migrated(db, from, M), Migrated(Fresh(kind), {}, M))
      BY <2>4, <2>6, <2>7, <2>8, <2>11, <3>1, <3>2, GrantDeploys
    <3> QED
      BY <2>3, <2>8, <2>9, <3>3, EffectIs
  <2>12. CASE IsBuiltinPublic(kind)
    <3>1. PICK start \in {head, Catalog(kind, db)} :
             /\ db' = Migrated(db, start, M)
             /\ RevokesAll(kind, start) /\ db = PublicLeft(kind, start)
      <4>1. db = PublicLeft(kind, head) /\ RevokesAll(kind, head)
        BY <1>1, <2>10, <2>12, PublicStart DEF DeployInv
      <4>2. CASE kind.listed
        <5>1. RevokesAll(kind, Catalog(kind, db)) /\ db = PublicLeft(kind, Catalog(kind, db))
          BY <1>1, <2>10, <2>12, <4>2, PublicStart
        <5> QED
          BY <2>2, <2>3, <4>1, <5>1
      <4>3. CASE ~kind.listed
        BY <1>1, <2>3, <2>12, <4>1, <4>3
      <4> QED
        BY <4>2, <4>3
    <3>2. Migrated(PublicLeft(kind, start), start, M) = PublicLeft(kind, M)
      BY <2>4, <2>6, <2>7, <2>12, <3>1, PublicDeploys
    <3>3. PublicLeft(kind, {}) = Fresh(kind) /\ RevokesAll(kind, {})
      BY DEF PublicLeft, RevokesAll
    <3>4. Migrated(Fresh(kind), {}, M) = PublicLeft(kind, M)
      BY <2>4, <2>6, <2>7, <2>12, <3>3, PublicDeploys
    <3> QED
      BY <2>3, <3>1, <3>2, <3>4
  <2> QED
    BY <2>11, <2>12
<1>2. DeployInv /\ DeployInv' /\ [Next]_vars => [told => exact]_vars
  BY <1>1
<1> QED
  BY <1>2, DeployInvariant, PTL DEF Spec, DeploysExactly
================================================================================
