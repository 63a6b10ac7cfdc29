--------------------------- MODULE SessionLockProofs ---------------------------
(***************************************************************************)
(* Proofs about SessionLock, for any number of hook processes and crashes. *)
(* While every owner file lies in the directory its own process made, an   *)
(* owner file is the directory maker's, and a process between writing its  *)
(* file and releasing it has its file there: so there is only one.         *)
(***************************************************************************)
EXTENDS SessionLock, TLAPS

Holding == {"write", "read", "assert", "rename", "unlink"}

\* Only the start of a session discards owners that may be alive.
DiscardsAtStart ==
  \A p \in Process : pc[p] \in {"discard", "discardEach"} => p \in Starter

OwnersMadeIt == \A q \in owners : q = creator

HoldersOwn == \A p \in Process : pc[p] \in Holding => p \in owners

Exclusive == (~intruded /\ NoStart) => OwnersMadeIt /\ HoldersOwn

IInv == TypeOK /\ DiscardsAtStart /\ Exclusive /\ ReadIsCurrent

--------------------------------------------------------------------------------
(* Types. *)

LEMMA TypeStep == TypeOK /\ [Next]_vars => TypeOK'
<1> SUFFICES ASSUME TypeOK, [Next]_vars PROVE TypeOK'
  OBVIOUS
<1> USE ProcessKinds DEF At, Go, lock, data, Exists, RemoveDirectory, RemoveOwner, DeadOwner, TypeOK, Steps, Ended, Updater
<1>1. ASSUME NEW p \in Process, Discard(p) PROVE TypeOK'
  BY <1>1 DEF Discard
<1>2. ASSUME NEW p \in Process, DiscardOwner(p) PROVE TypeOK'
  <2>1. PICK q \in seen[p] :
          /\ seen' = [seen EXCEPT ![p] = @ \ {q}]
          /\ RemoveOwner(q) \/ UNCHANGED lock
    BY <1>2 DEF DiscardOwner
  <2>2. UNCHANGED <<pc, file, read, crashes, intruded>>
    BY <1>2 DEF DiscardOwner
  <2>3. /\ owners' \in SUBSET Process /\ torn' \in SUBSET owners'
        /\ stale' \in BOOLEAN /\ creator' = creator
        /\ ~Exists => owners' = {} /\ ~stale'
    <3>1. CASE RemoveOwner(q)
      BY <3>1
    <3>2. CASE UNCHANGED lock
      BY <3>2
    <3> QED
      BY <2>1, <3>1, <3>2
  <2>4. seen' \in [Process -> SUBSET Process]
    BY <2>1
  <2> QED
    BY <2>2, <2>3, <2>4
<1>3. ASSUME NEW p \in Process, DiscardDirectory(p) PROVE TypeOK'
  BY <1>3 DEF DiscardDirectory
<1>4. ASSUME NEW p \in Process, MakeDirectory(p) PROVE TypeOK'
  BY <1>4 DEF MakeDirectory
<1>5. ASSUME NEW p \in Process, FindLocked(p) PROVE TypeOK'
  BY <1>5 DEF FindLocked
<1>6. ASSUME NEW p \in Process, Reclaim(p) PROVE TypeOK'
  BY <1>6 DEF Reclaim
<1>7. ASSUME NEW p \in Process, ExamineOwner(p) PROVE TypeOK'
  <2>1. PICK q \in seen[p] :
          /\ seen' = [seen EXCEPT ![p] = @ \ {q}]
          /\ RemoveOwner(q) \/ UNCHANGED lock
    BY <1>7 DEF ExamineOwner
  <2>2. UNCHANGED <<pc, file, read, crashes, intruded>>
    BY <1>7 DEF ExamineOwner
  <2>3. /\ owners' \in SUBSET Process /\ torn' \in SUBSET owners'
        /\ stale' \in BOOLEAN /\ creator' = creator
        /\ ~Exists => owners' = {} /\ ~stale'
    <3>1. CASE RemoveOwner(q)
      BY <3>1
    <3>2. CASE UNCHANGED lock
      BY <3>2
    <3> QED
      BY <2>1, <3>1, <3>2
  <2>4. seen' \in [Process -> SUBSET Process]
    BY <2>1
  <2> QED
    BY <2>2, <2>3, <2>4
<1>8. ASSUME NEW p \in Process, ExamineTorn(p) PROVE TypeOK'
  BY <1>8 DEF ExamineTorn
<1>9. ASSUME NEW p \in Process, ExamineDone(p) PROVE TypeOK'
  BY <1>9 DEF ExamineDone
<1>10. ASSUME NEW p \in Process, Prune(p) PROVE TypeOK'
  BY <1>10 DEF Prune
<1>11. ASSUME NEW p \in Process, Retry(p) PROVE TypeOK'
  BY <1>11 DEF Retry
<1>12. ASSUME NEW p \in Process, OpenOwner(p) PROVE TypeOK'
  BY <1>12 DEF OpenOwner
<1>13. ASSUME NEW p \in Process, OpenFails(p) PROVE TypeOK'
  BY <1>13 DEF OpenFails
<1>14. ASSUME NEW p \in Process, Abandon(p) PROVE TypeOK'
  BY <1>14 DEF Abandon
<1>15. ASSUME NEW p \in Process, WriteOwner(p) PROVE TypeOK'
  BY <1>15 DEF WriteOwner
<1>16. ASSUME NEW p \in Process, Read(p) PROVE TypeOK'
  BY <1>16 DEF Read
<1>17. ASSUME NEW p \in Process, ReadUnchanged(p) PROVE TypeOK'
  BY <1>17 DEF ReadUnchanged
<1>18. ASSUME NEW p \in Process, AssertOwned(p) PROVE TypeOK'
  BY <1>18 DEF AssertOwned
<1>19. ASSUME NEW p \in Process, Rename(p) PROVE TypeOK'
  BY <1>19 DEF Rename
<1>20. ASSUME NEW p \in Process, Unlink(p) PROVE TypeOK'
  BY <1>20 DEF Unlink
<1>21. ASSUME NEW p \in Process, Leave(p) PROVE TypeOK'
  BY <1>21 DEF Leave
<1>22. ASSUME NEW p \in Process, TimeOut(p) PROVE TypeOK'
  BY <1>22 DEF TimeOut
<1>23. ASSUME NEW p \in Process, Crash(p) PROVE TypeOK'
  BY <1>23 DEF Crash
<1>24. CASE Age
  BY <1>24 DEF Age
<1>25. CASE UNCHANGED vars
  BY <1>25 DEF vars
<1> QED
  BY <1>1, <1>2, <1>3, <1>4, <1>5, <1>6, <1>7, <1>8, <1>9, <1>10, <1>11, <1>12, <1>13, <1>14, <1>15, <1>16, <1>17, <1>18, <1>19, <1>20, <1>21, <1>22, <1>23, <1>24, <1>25 DEF Next, Proceed

--------------------------------------------------------------------------------
(* The lock. *)

LEMMA DiscardsAtStartStep ==
  TypeOK /\ DiscardsAtStart /\ [Next]_vars => DiscardsAtStart'
<1> SUFFICES ASSUME TypeOK, DiscardsAtStart, [Next]_vars PROVE DiscardsAtStart'
  OBVIOUS
<1> USE DEF At, Go, TypeOK, DiscardsAtStart
<1>1. ASSUME NEW p \in Process, Discard(p) PROVE DiscardsAtStart'
  BY <1>1 DEF Discard
<1>2. ASSUME NEW p \in Process, DiscardOwner(p) PROVE DiscardsAtStart'
  BY <1>2 DEF DiscardOwner
<1>3. ASSUME NEW p \in Process, DiscardDirectory(p) PROVE DiscardsAtStart'
  BY <1>3 DEF DiscardDirectory
<1>4. ASSUME NEW p \in Process, MakeDirectory(p) PROVE DiscardsAtStart'
  BY <1>4 DEF MakeDirectory
<1>5. ASSUME NEW p \in Process, FindLocked(p) PROVE DiscardsAtStart'
  BY <1>5 DEF FindLocked
<1>6. ASSUME NEW p \in Process, Reclaim(p) PROVE DiscardsAtStart'
  BY <1>6 DEF Reclaim
<1>7. ASSUME NEW p \in Process, ExamineOwner(p) PROVE DiscardsAtStart'
  BY <1>7 DEF ExamineOwner
<1>8. ASSUME NEW p \in Process, ExamineTorn(p) PROVE DiscardsAtStart'
  BY <1>8 DEF ExamineTorn
<1>9. ASSUME NEW p \in Process, ExamineDone(p) PROVE DiscardsAtStart'
  BY <1>9 DEF ExamineDone
<1>10. ASSUME NEW p \in Process, Prune(p) PROVE DiscardsAtStart'
  BY <1>10 DEF Prune
<1>11. ASSUME NEW p \in Process, Retry(p) PROVE DiscardsAtStart'
  BY <1>11 DEF Retry
<1>12. ASSUME NEW p \in Process, OpenOwner(p) PROVE DiscardsAtStart'
  BY <1>12 DEF OpenOwner
<1>13. ASSUME NEW p \in Process, OpenFails(p) PROVE DiscardsAtStart'
  BY <1>13 DEF OpenFails
<1>14. ASSUME NEW p \in Process, Abandon(p) PROVE DiscardsAtStart'
  BY <1>14 DEF Abandon
<1>15. ASSUME NEW p \in Process, WriteOwner(p) PROVE DiscardsAtStart'
  BY <1>15 DEF WriteOwner
<1>16. ASSUME NEW p \in Process, Read(p) PROVE DiscardsAtStart'
  BY <1>16 DEF Read
<1>17. ASSUME NEW p \in Process, ReadUnchanged(p) PROVE DiscardsAtStart'
  BY <1>17 DEF ReadUnchanged
<1>18. ASSUME NEW p \in Process, AssertOwned(p) PROVE DiscardsAtStart'
  BY <1>18 DEF AssertOwned
<1>19. ASSUME NEW p \in Process, Rename(p) PROVE DiscardsAtStart'
  BY <1>19 DEF Rename
<1>20. ASSUME NEW p \in Process, Unlink(p) PROVE DiscardsAtStart'
  BY <1>20 DEF Unlink
<1>21. ASSUME NEW p \in Process, Leave(p) PROVE DiscardsAtStart'
  BY <1>21 DEF Leave
<1>22. ASSUME NEW p \in Process, TimeOut(p) PROVE DiscardsAtStart'
  BY <1>22 DEF TimeOut
<1>23. ASSUME NEW p \in Process, Crash(p) PROVE DiscardsAtStart'
  BY <1>23 DEF Crash
<1>24. CASE Age
  BY <1>24 DEF Age
<1>25. CASE UNCHANGED vars
  BY <1>25 DEF vars
<1> QED
  BY <1>1, <1>2, <1>3, <1>4, <1>5, <1>6, <1>7, <1>8, <1>9, <1>10, <1>11, <1>12, <1>13, <1>14, <1>15, <1>16, <1>17, <1>18, <1>19, <1>20, <1>21, <1>22, <1>23, <1>24, <1>25 DEF Next, Proceed

\* Before a session start begins no one discards.
LEMMA NoDiscard ==
  ASSUME DiscardsAtStart, NoStart, NEW p \in Process
  PROVE  ~At(p, "discardEach")
BY DEF DiscardsAtStart, NoStart, At

\* A session start that has not begun had not begun before.
LEMMA NoStartBefore ==
  ASSUME TypeOK, [Next]_vars, NoStart'
  PROVE  NoStart
<1> SUFFICES ASSUME NEW s \in Starter PROVE pc[s] = "discard"
  BY DEF NoStart
<1>1. s \in Process /\ pc'[s] = "discard"
  BY ProcessKinds DEF NoStart
<1>2. CASE UNCHANGED pc
  BY <1>1, <1>2
<1>3. ASSUME NEW p \in Process, NEW step, step # "discard", Go(p, step)
      PROVE  pc[s] = "discard"
  BY <1>1, <1>3 DEF Go, TypeOK
<1>4. CASE \E p \in Process : \E step \in Steps \ {"discard"} : Go(p, step)
  BY <1>3, <1>4
<1> QED
  BY <1>2, <1>4 DEF Next, Proceed, vars, Steps, Ended, At, Discard, DiscardOwner, DiscardDirectory,
    MakeDirectory, FindLocked, Reclaim, ExamineOwner, ExamineTorn, ExamineDone, Prune, Retry,
    OpenOwner, OpenFails, Abandon, WriteOwner, Read, ReadUnchanged, AssertOwned, Rename,
    Unlink, Leave, TimeOut, Crash, Age

\* Nobody makes an exclusive lock less so, except by intruding.
LEMMA ExclusiveStep == IInv /\ [Next]_vars => Exclusive'
<1> SUFFICES ASSUME IInv, [Next]_vars, ~intruded', NoStart'
             PROVE  OwnersMadeIt' /\ HoldersOwn'
  BY DEF Exclusive
<1>n. NoStart
  BY NoStartBefore DEF IInv
<1>0. /\ TypeOK /\ DiscardsAtStart /\ NoStart
      /\ ~intruded => OwnersMadeIt /\ HoldersOwn
  BY <1>n DEF IInv, Exclusive
<1> USE <1>0, ProcessKinds, NoDiscard
    DEF At, Go, lock, data, Exists, RemoveDirectory, RemoveOwner, DeadOwner, Ended,
        Holding, OwnersMadeIt, HoldersOwn, TypeOK
<1>1. ASSUME NEW p \in Process, Discard(p) PROVE OwnersMadeIt' /\ HoldersOwn'
  BY <1>1 DEF Discard
<1>2. ASSUME NEW p \in Process, DiscardOwner(p) PROVE OwnersMadeIt' /\ HoldersOwn'
  BY <1>2 DEF DiscardOwner
<1>3. ASSUME NEW p \in Process, DiscardDirectory(p) PROVE OwnersMadeIt' /\ HoldersOwn'
  BY <1>3 DEF DiscardDirectory
<1>4. ASSUME NEW p \in Process, MakeDirectory(p) PROVE OwnersMadeIt' /\ HoldersOwn'
  BY <1>4 DEF MakeDirectory
<1>5. ASSUME NEW p \in Process, FindLocked(p) PROVE OwnersMadeIt' /\ HoldersOwn'
  BY <1>5 DEF FindLocked
<1>6. ASSUME NEW p \in Process, Reclaim(p) PROVE OwnersMadeIt' /\ HoldersOwn'
  BY <1>6 DEF Reclaim
<1>7. ASSUME NEW p \in Process, ExamineOwner(p) PROVE OwnersMadeIt' /\ HoldersOwn'
  BY <1>7 DEF ExamineOwner
<1>8. ASSUME NEW p \in Process, ExamineTorn(p) PROVE OwnersMadeIt' /\ HoldersOwn'
  BY <1>8 DEF ExamineTorn
<1>9. ASSUME NEW p \in Process, ExamineDone(p) PROVE OwnersMadeIt' /\ HoldersOwn'
  BY <1>9 DEF ExamineDone
<1>10. ASSUME NEW p \in Process, Prune(p) PROVE OwnersMadeIt' /\ HoldersOwn'
  BY <1>10 DEF Prune
<1>11. ASSUME NEW p \in Process, Retry(p) PROVE OwnersMadeIt' /\ HoldersOwn'
  BY <1>11 DEF Retry
<1>12. ASSUME NEW p \in Process, OpenOwner(p) PROVE OwnersMadeIt' /\ HoldersOwn'
  BY <1>12 DEF OpenOwner
<1>13. ASSUME NEW p \in Process, OpenFails(p) PROVE OwnersMadeIt' /\ HoldersOwn'
  BY <1>13 DEF OpenFails
<1>14. ASSUME NEW p \in Process, Abandon(p) PROVE OwnersMadeIt' /\ HoldersOwn'
  BY <1>14 DEF Abandon
<1>15. ASSUME NEW p \in Process, WriteOwner(p) PROVE OwnersMadeIt' /\ HoldersOwn'
  BY <1>15 DEF WriteOwner
<1>16. ASSUME NEW p \in Process, Read(p) PROVE OwnersMadeIt' /\ HoldersOwn'
  BY <1>16 DEF Read
<1>17. ASSUME NEW p \in Process, ReadUnchanged(p) PROVE OwnersMadeIt' /\ HoldersOwn'
  BY <1>17 DEF ReadUnchanged
<1>18. ASSUME NEW p \in Process, AssertOwned(p) PROVE OwnersMadeIt' /\ HoldersOwn'
  BY <1>18 DEF AssertOwned
<1>19. ASSUME NEW p \in Process, Rename(p) PROVE OwnersMadeIt' /\ HoldersOwn'
  BY <1>19 DEF Rename
<1>20. ASSUME NEW p \in Process, Unlink(p) PROVE OwnersMadeIt' /\ HoldersOwn'
  BY <1>20 DEF Unlink
<1>21. ASSUME NEW p \in Process, Leave(p) PROVE OwnersMadeIt' /\ HoldersOwn'
  BY <1>21 DEF Leave
<1>22. ASSUME NEW p \in Process, TimeOut(p) PROVE OwnersMadeIt' /\ HoldersOwn'
  BY <1>22 DEF TimeOut
<1>23. ASSUME NEW p \in Process, Crash(p) PROVE OwnersMadeIt' /\ HoldersOwn'
  BY <1>23 DEF Crash
<1>24. CASE Age
  BY <1>24 DEF Age
<1>25. CASE UNCHANGED vars
  BY <1>25 DEF vars
<1> QED
  BY <1>1, <1>2, <1>3, <1>4, <1>5, <1>6, <1>7, <1>8, <1>9, <1>10, <1>11, <1>12, <1>13, <1>14, <1>15, <1>16, <1>17, <1>18, <1>19, <1>20, <1>21, <1>22, <1>23, <1>24, <1>25 DEF Next, Proceed

\* Two processes that hold the lock are one.
LEMMA OneHolder ==
  ASSUME TypeOK, Exclusive, ~intruded, NoStart,
         NEW p \in Process, NEW q \in Process, pc[p] \in Holding, pc[q] \in Holding
  PROVE  p = q
BY DEF Exclusive, OwnersMadeIt, HoldersOwn

LEMMA ReadIsCurrentStep == IInv /\ [Next]_vars => ReadIsCurrent'
<1> SUFFICES ASSUME IInv, [Next]_vars, ~intruded', NoStart'
             PROVE  \A u \in Updater : pc'[u] \in {"assert", "rename"} => read'[u] = file'
  BY DEF ReadIsCurrent
<1> DEFINE Current == \A u \in Updater : pc'[u] \in {"assert", "rename"} => read'[u] = file'
<1>n. NoStart
  BY NoStartBefore DEF IInv
<1>0. /\ TypeOK /\ DiscardsAtStart /\ Exclusive /\ NoStart
      /\ ~intruded => \A u \in Updater : pc[u] \in {"assert", "rename"} => read[u] = file
  BY <1>n DEF IInv, ReadIsCurrent
<1> USE <1>0 DEF At, Go, lock, data, Updater, TypeOK
<1>1. ASSUME NEW p \in Process, Discard(p) PROVE Current
  BY <1>1 DEF Discard
<1>2. ASSUME NEW p \in Process, DiscardOwner(p) PROVE Current
  BY <1>2 DEF DiscardOwner
<1>3. ASSUME NEW p \in Process, DiscardDirectory(p) PROVE Current
  BY <1>3 DEF DiscardDirectory
<1>4. ASSUME NEW p \in Process, MakeDirectory(p) PROVE Current
  BY <1>4 DEF MakeDirectory
<1>5. ASSUME NEW p \in Process, FindLocked(p) PROVE Current
  BY <1>5 DEF FindLocked
<1>6. ASSUME NEW p \in Process, Reclaim(p) PROVE Current
  BY <1>6 DEF Reclaim
<1>7. ASSUME NEW p \in Process, ExamineOwner(p) PROVE Current
  BY <1>7 DEF ExamineOwner
<1>8. ASSUME NEW p \in Process, ExamineTorn(p) PROVE Current
  BY <1>8 DEF ExamineTorn
<1>9. ASSUME NEW p \in Process, ExamineDone(p) PROVE Current
  BY <1>9 DEF ExamineDone
<1>10. ASSUME NEW p \in Process, Prune(p) PROVE Current
  BY <1>10 DEF Prune
<1>11. ASSUME NEW p \in Process, Retry(p) PROVE Current
  BY <1>11 DEF Retry
<1>12. ASSUME NEW p \in Process, OpenOwner(p) PROVE Current
  BY <1>12 DEF OpenOwner
<1>13. ASSUME NEW p \in Process, OpenFails(p) PROVE Current
  BY <1>13 DEF OpenFails
<1>14. ASSUME NEW p \in Process, Abandon(p) PROVE Current
  BY <1>14 DEF Abandon
<1>15. ASSUME NEW p \in Process, WriteOwner(p) PROVE Current
  BY <1>15 DEF WriteOwner
<1>16. ASSUME NEW p \in Process, Read(p) PROVE Current
  BY <1>16 DEF Read
<1>17. ASSUME NEW p \in Process, ReadUnchanged(p) PROVE Current
  BY <1>17 DEF ReadUnchanged
<1>18. ASSUME NEW p \in Process, AssertOwned(p) PROVE Current
  BY <1>18 DEF AssertOwned
<1>19. ASSUME NEW p \in Process, Rename(p) PROVE Current
  <2>1. ~intruded /\ pc[p] \in Holding
    BY <1>19 DEF Rename, Holding
  <2>2. \A u \in Updater : pc'[u] \notin {"assert", "rename"}
    <3> SUFFICES ASSUME NEW u \in Updater, pc'[u] \in {"assert", "rename"}
                 PROVE  FALSE
      OBVIOUS
    <3>1. u # p /\ pc[u] \in Holding
      BY <1>19 DEF Rename, Holding
    <3> QED
      BY <2>1, <3>1, OneHolder
  <2> QED
    BY <2>2
<1>20. ASSUME NEW p \in Process, Unlink(p) PROVE Current
  BY <1>20 DEF Unlink
<1>21. ASSUME NEW p \in Process, Leave(p) PROVE Current
  BY <1>21 DEF Leave
<1>22. ASSUME NEW p \in Process, TimeOut(p) PROVE Current
  BY <1>22 DEF TimeOut
<1>23. ASSUME NEW p \in Process, Crash(p) PROVE Current
  BY <1>23 DEF Crash
<1>24. CASE Age
  BY <1>24 DEF Age
<1>25. CASE UNCHANGED vars
  BY <1>25 DEF vars
<1> QED
  BY <1>1, <1>2, <1>3, <1>4, <1>5, <1>6, <1>7, <1>8, <1>9, <1>10, <1>11, <1>12, <1>13, <1>14, <1>15, <1>16, <1>17, <1>18, <1>19, <1>20, <1>21, <1>22, <1>23, <1>24, <1>25 DEF Next, Proceed

THEOREM InvariantHolds == Spec => []IInv
<1>1. Init => IInv
  <2> SUFFICES ASSUME Init PROVE IInv
    OBVIOUS
  <2>1. \A p \in Process : pc[p] \in {"discard", "mkdir"}
    BY DEF Init
  <2>2. TypeOK
    <3>1. pc \in [Process -> Steps]
      BY DEF Init, Steps
    <3>2. creator \in Process \cup {NoProcess} /\ ~Exists
      BY DEF Init, Exists
    <3>3. seen \in [Process -> SUBSET Process] /\ read \in [Process -> SUBSET Process]
      BY DEF Init
    <3>4. crashes \in 0 .. MaxCrashes
      BY ProcessKinds DEF Init
    <3> QED
      BY <3>1, <3>2, <3>3, <3>4 DEF Init, TypeOK
  <2>3. DiscardsAtStart
    BY DEF Init, DiscardsAtStart
  <2>4. Exclusive
    BY <2>1 DEF Init, Exclusive, OwnersMadeIt, HoldersOwn, Holding
  <2>5. ReadIsCurrent
    BY <2>1 DEF ReadIsCurrent, Updater
  <2> QED
    BY <2>2, <2>3, <2>4, <2>5 DEF IInv
<1>2. IInv /\ [Next]_vars => IInv'
  BY TypeStep, DiscardsAtStartStep, ExclusiveStep, ReadIsCurrentStep DEF IInv
<1> QED
  BY <1>1, <1>2, PTL DEF Spec

--------------------------------------------------------------------------------
(* What a reader wants to know. *)

\* Every variable keeps its type, for any hooks and crashes.
THEOREM TypeCorrect == Spec => []TypeOK
<1>1. IInv => TypeOK
  BY DEF IInv
<1> QED
  BY <1>1, InvariantHolds, PTL

\* An update is never computed from a state that is no longer the saved one,
\* as long as no owner file was put in another process's directory.
THEOREM UpdatesCurrent == Spec => []ReadIsCurrent
<1>1. IInv => ReadIsCurrent
  BY DEF IInv
<1> QED
  BY <1>1, InvariantHolds, PTL

\* Only its own process, its death or the start of a session removes an owner
\* file, whatever else the processes that wait for the lock remove.
THEOREM OwnerKept == Spec => LiveOwnerKept
<1>1. IInv /\ [Next]_vars => [OwnersKept]_vars
  <2> SUFFICES ASSUME IInv, Next PROVE OwnersKept
    OBVIOUS
  <2> USE DEF OwnersKept
  <2>1. TypeOK /\ DiscardsAtStart
    BY DEF IInv
  <2>2. ASSUME NEW p \in Process, DiscardOwner(p) PROVE OwnersKept
    BY <2>1, <2>2 DEF DiscardOwner, DiscardsAtStart, At
  <2>3. ASSUME NEW p \in Process, MakeDirectory(p) PROVE OwnersKept
    BY <2>1, <2>3 DEF MakeDirectory, TypeOK
  <2>4. ASSUME NEW p \in Process, ExamineOwner(p) PROVE OwnersKept
    BY <2>4 DEF ExamineOwner, DeadOwner, RemoveOwner, lock
  <2>5. ASSUME NEW p \in Process, Unlink(p) PROVE OwnersKept
    BY <2>5 DEF Unlink, RemoveOwner, At
  <2>6. ASSUME NEW p \in Process,
               \/ DiscardDirectory(p) \/ Prune(p) \/ Abandon(p) \/ Leave(p)
        PROVE  OwnersKept
    BY <2>6 DEF DiscardDirectory, Prune, Abandon, Leave, RemoveDirectory, lock
  <2>7. ASSUME NEW p \in Process,
               \/ Discard(p) \/ FindLocked(p) \/ Reclaim(p) \/ ExamineTorn(p)
               \/ ExamineDone(p) \/ Retry(p) \/ OpenOwner(p) \/ OpenFails(p)
               \/ WriteOwner(p) \/ TimeOut(p) \/ Crash(p)
        PROVE  OwnersKept
    BY <2>7 DEF Discard, FindLocked, Reclaim, ExamineTorn, ExamineDone, Retry,
                OpenOwner, OpenFails, WriteOwner, TimeOut, Crash, lock
  <2>8. ASSUME NEW p \in Process,
               Read(p) \/ ReadUnchanged(p) \/ AssertOwned(p) \/ Rename(p)
        PROVE  OwnersKept
    BY <2>8 DEF Read, ReadUnchanged, AssertOwned, Rename, lock
  <2>9. CASE Age
    BY <2>9 DEF Age
  <2> QED
    BY <2>2, <2>3, <2>4, <2>5, <2>6, <2>7, <2>8, <2>9 DEF Next, Proceed
<1> QED
  BY <1>1, InvariantHolds, PTL DEF LiveOwnerKept, Spec
================================================================================
