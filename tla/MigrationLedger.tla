-------------------------- MODULE MigrationLedger --------------------------
(***************************************************************************)
(* What applying migrations promises, whoever applies them: versions are   *)
(* recorded one at a time, oldest first; recording one makes the           *)
(* statements of its files done, of the first one always and of those that *)
(* followed it too unless they came too late; before that, only statements *)
(* of the next version that cannot run in a transaction may be done.       *)
(* DirectRunner implements it.                                             *)
(***************************************************************************)
EXTENDS MigrationHistory

VARIABLES
  published,  \* the files the directory holds
  ledger,     \* the versions recorded on the target
  done,       \* the statements that took effect
  missed      \* files that came too late for the version's record

ledgerVars == <<published, ledger, done, missed>>

Frontier(v) ==
  /\ v \in VersionsOf(published) \ ledger
  /\ \A w \in VersionsOf(published) \ ledger : v <= w

Init ==
  /\ published \in SUBSET File
  /\ ledger = {}
  /\ done = {}
  /\ missed = {}

\* A file of a new version, or a further one of a version that is there.
Publish ==
  /\ \E f \in File \ published :
        /\ f.version \in VersionsOf(published) \/ \A g \in published : g.version < f.version
        /\ published' = published \cup {f}
        /\ missed' = IF f.version \in ledger THEN missed \cup {f} ELSE missed
  /\ UNCHANGED <<ledger, done>>

PrepareOutsideTransaction ==
  /\ \E v \in VersionsOf(published) :
        /\ Frontier(v)
        /\ ~Transactional(UnitFiles(published, v))
        /\ \E p \in LinesOfAll(UnitFiles(published, v)) : done' = done \cup {p}
  /\ UNCHANGED <<published, ledger, missed>>

\* Only the last files of a unit are missed, never the first.
Record ==
  /\ \E v \in VersionsOf(published) : \E late \in SUBSET UnitFiles(published, v) :
        LET inTime == UnitFiles(published, v) \ late
        IN  /\ Frontier(v)
            /\ inTime # {}
            /\ \A f \in inTime, g \in late : ~FileBefore(g, f)
            /\ ledger' = ledger \cup {v}
            /\ done' = done \cup LinesOfAll(inTime)
            /\ missed' = missed \cup late
  /\ UNCHANGED published

\* Whoever knew of a file in time may still execute it, though another one
\* who did not has recorded its version.
CatchUp ==
  /\ done \subseteq done' /\ done' \subseteq done \cup LinesOfAll(missed)
  /\ UNCHANGED <<published, ledger, missed>>

Next == Publish \/ PrepareOutsideTransaction \/ Record \/ CatchUp

Spec == Init /\ [][Next]_ledgerVars
=============================================================================
