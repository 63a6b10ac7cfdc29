------------------------------ MODULE SessionLock ------------------------------
(***************************************************************************)
(* The state of one agent session, shared by hook processes that run at    *)
(* the same time (scripts/agent-hooks/state.mjs).  A process takes the     *)
(* lock by making a directory and writing an owner file in it, reads the   *)
(* state, checks that its owner file is the only one, renames its new      *)
(* state into place, and removes its file and the directory.  Processes    *)
(* that wait remove the files of dead owners and directories left empty;   *)
(* the start of a session removes every owner.                             *)
(*                                                                         *)
(* Each step is one system call, or several that no other process can tell *)
(* apart.  A process runs one hook, so it names its owner file too.        *)
(***************************************************************************)
EXTENDS Integers, FiniteSets

CONSTANTS Process,      \* the hook processes of one session
          Starter,      \* those that run SessionStart
          Ender,        \* those that run SessionEnd
          NoProcess,
          MaxCrashes    \* bound: how many processes are killed

ASSUME ProcessKinds == /\ Starter \subseteq Process
                       /\ Ender \subseteq Process
                       /\ Starter \cap Ender = {}
                       /\ NoProcess \notin Process
                       /\ MaxCrashes \in Nat

VARIABLES pc,           \* where each process is
          creator,      \* who made the lock directory; NoProcess: there is none
          owners,       \* the owner files in it, by process
          torn,         \* those created and not yet written
          stale,        \* the directory is older than lockInitializationGraceMs
          seen,         \* the entries of a process's readdir still to examine
          file,         \* the saved state: the hooks whose evidence it holds
          read,         \* what each process read of it
          crashes,      \* how many processes were killed
          intruded      \* history: an owner file was put in another's directory

vars == <<pc, creator, owners, torn, stale, seen, file, read, crashes, intruded>>

lock == <<creator, owners, torn, stale>>
data == <<file, read>>

Updater == Process \ (Starter \cup Ender)

Ended == {"end", "failed", "dead"}

Steps == {"discard", "discardEach", "mkdir", "reclaim", "examine", "prune",
          "wait", "open", "abandon", "write", "read", "assert", "rename", "unlink",
          "rmdir"} \cup Ended

Init == /\ pc = [p \in Process |-> IF p \in Starter THEN "discard" ELSE "mkdir"]
        /\ creator = NoProcess
        /\ owners = {}
        /\ torn = {}
        /\ stale = FALSE
        /\ seen = [p \in Process |-> {}]
        /\ file = {}
        /\ read = [p \in Process |-> {}]
        /\ crashes = 0
        /\ intruded = FALSE

At(p, step) == pc[p] = step

Go(p, step) == pc' = [pc EXCEPT ![p] = step]

Exists == creator # NoProcess

--------------------------------------------------------------------------------
(* Mutants: plausible errors in the definitions below. *)

\* A recursive removal: an owner file does not keep its directory.
RemoveDirectoryForced == /\ creator' = NoProcess
                         /\ stale' = FALSE
                         /\ owners' = {}
                         /\ torn' = {}

\* Without processIsLive: any owner of an existing lock is taken for dead.
AnyOwner(q) == q \in owners \ torn

\* A check that recognises no owner as dead.
NoOwner(q) == FALSE

--------------------------------------------------------------------------------
(* The lock directory. *)

\* removeDirectoryIfEmpty: only an empty directory goes, any failure is ignored.
RemoveDirectory ==
  IF owners = {} THEN /\ creator' = NoProcess
                      /\ stale' = FALSE
                      /\ UNCHANGED <<owners, torn>>
                 ELSE UNCHANGED lock

\* An owner file goes; its directory has then just been changed.
RemoveOwner(q) == /\ owners' = owners \ {q}
                  /\ torn' = torn \ {q}
                  /\ stale' = (stale /\ q \notin owners)
                  /\ UNCHANGED creator

\* The owner of a file that can be read is dead.
DeadOwner(q) == q \in owners \ torn /\ pc[q] = "dead"

--------------------------------------------------------------------------------
(* discardSupersededLockOwners, at the start of a session. *)

Discard(p) ==
  /\ At(p, "discard")
  /\ IF Exists THEN /\ Go(p, "discardEach")
                    /\ seen' = [seen EXCEPT ![p] = owners]
               ELSE /\ Go(p, "mkdir")
                    /\ UNCHANGED seen
  /\ UNCHANGED <<lock, data, crashes, intruded>>

\* Every owner that can be read is removed, dead or alive.
DiscardOwner(p) ==
  /\ At(p, "discardEach")
  /\ \E q \in seen[p] :
       /\ seen' = [seen EXCEPT ![p] = @ \ {q}]
       /\ IF q \in owners \ torn THEN RemoveOwner(q) ELSE UNCHANGED lock
  /\ UNCHANGED <<pc, data, crashes, intruded>>

DiscardDirectory(p) ==
  /\ At(p, "discardEach")
  /\ seen[p] = {}
  /\ RemoveDirectory
  /\ Go(p, "mkdir")
  /\ UNCHANGED <<seen, data, crashes, intruded>>

--------------------------------------------------------------------------------
(* acquireSessionLock. *)

MakeDirectory(p) ==
  /\ At(p, "mkdir")
  /\ ~Exists
  /\ Go(p, "open")
  /\ creator' = p
  /\ owners' = {}
  /\ torn' = {}
  /\ stale' = FALSE
  /\ UNCHANGED <<seen, data, crashes, intruded>>

FindLocked(p) ==
  /\ At(p, "mkdir")
  /\ Exists
  /\ Go(p, "reclaim")
  /\ UNCHANGED <<lock, seen, data, crashes, intruded>>

\* reclaimDeadLockOwners lists the directory: gone, empty, or to be examined.
\* One that has just been made is left to the process that made it.
Reclaim(p) ==
  /\ At(p, "reclaim")
  /\ seen' = [seen EXCEPT ![p] = owners]
  /\ \/ /\ ~Exists \/ (owners = {} /\ ~stale)
        /\ Go(p, "wait")
     \/ /\ Exists /\ owners = {} /\ stale
        /\ Go(p, "prune")
     \/ /\ owners # {}
        /\ Go(p, "examine")
  /\ UNCHANGED <<lock, data, crashes, intruded>>

\* One entry: gone meanwhile, dead and removed, or alive and kept.
ExamineOwner(p) ==
  /\ At(p, "examine")
  /\ \E q \in seen[p] :
       /\ q \notin torn
       /\ seen' = [seen EXCEPT ![p] = @ \ {q}]
       /\ IF DeadOwner(q) THEN RemoveOwner(q) ELSE UNCHANGED lock
  /\ UNCHANGED <<pc, data, crashes, intruded>>

\* One that cannot be read: still being written, or an error for the hook.
ExamineTorn(p) ==
  /\ At(p, "examine")
  /\ \E q \in seen[p] : q \in torn
  /\ Go(p, IF stale THEN "failed" ELSE "wait")
  /\ UNCHANGED <<lock, seen, data, crashes, intruded>>

ExamineDone(p) ==
  /\ At(p, "examine")
  /\ seen[p] = {}
  /\ Go(p, "prune")
  /\ UNCHANGED <<lock, seen, data, crashes, intruded>>

Prune(p) ==
  /\ At(p, "prune")
  /\ RemoveDirectory
  /\ Go(p, "wait")
  /\ UNCHANGED <<seen, data, crashes, intruded>>

Retry(p) ==
  /\ At(p, "wait")
  /\ Go(p, "mkdir")
  /\ UNCHANGED <<lock, seen, data, crashes, intruded>>

\* lockWaitExpired: the hook reports that it could not take the lock.
TimeOut(p) ==
  /\ At(p, "wait")
  /\ Go(p, "failed")
  /\ UNCHANGED <<lock, seen, data, crashes, intruded>>

\* The owner file is created in the directory that is there now.
OpenOwner(p) ==
  /\ At(p, "open")
  /\ Exists
  /\ Go(p, "write")
  /\ owners' = owners \cup {p}
  /\ torn' = torn \cup {p}
  /\ stale' = FALSE
  /\ intruded' = (intruded \/ creator # p)
  /\ UNCHANGED <<creator, seen, data, crashes>>

\* The directory is gone: the attempt is cleaned up and repeated.
OpenFails(p) ==
  /\ At(p, "open")
  /\ ~Exists
  /\ Go(p, "abandon")
  /\ UNCHANGED <<lock, seen, data, crashes, intruded>>

Abandon(p) ==
  /\ At(p, "abandon")
  /\ RemoveDirectory
  /\ Go(p, "wait")
  /\ UNCHANGED <<seen, data, crashes, intruded>>

WriteOwner(p) ==
  /\ At(p, "write")
  /\ Go(p, IF p \in Updater THEN "read" ELSE "assert")
  /\ torn' = torn \ {p}
  /\ UNCHANGED <<creator, owners, stale, seen, data, crashes, intruded>>

--------------------------------------------------------------------------------
(* withSessionState, refreshSessionState and clearSessionState. *)

\* Only an update depends on what is saved.
Read(p) ==
  /\ At(p, "read")
  /\ Go(p, "assert")
  /\ read' = [read EXCEPT ![p] = file]
  /\ UNCHANGED <<lock, seen, file, crashes, intruded>>

\* The event changes nothing: nothing is written.
ReadUnchanged(p) ==
  /\ At(p, "read")
  /\ Go(p, "unlink")
  /\ read' = [read EXCEPT ![p] = file]
  /\ UNCHANGED <<lock, seen, file, crashes, intruded>>

\* assertOwned: the owner file is there and alone, or the hook fails.
AssertOwned(p) ==
  /\ At(p, "assert")
  /\ Go(p, IF Exists /\ owners = {p} THEN "rename" ELSE "unlink")
  /\ UNCHANGED <<lock, seen, data, crashes, intruded>>

\* The new state replaces the file; the end of the session removes it.
Rename(p) ==
  /\ At(p, "rename")
  /\ Go(p, "unlink")
  /\ file' = IF p \in Updater THEN read[p] \cup {p} ELSE {}
  /\ UNCHANGED <<lock, seen, read, crashes, intruded>>

\* release, in a finally block.
Unlink(p) ==
  /\ At(p, "unlink")
  /\ Go(p, "rmdir")
  /\ RemoveOwner(p)
  /\ UNCHANGED <<seen, data, crashes, intruded>>

Leave(p) ==
  /\ At(p, "rmdir")
  /\ RemoveDirectory
  /\ Go(p, "end")
  /\ UNCHANGED <<seen, data, crashes, intruded>>

--------------------------------------------------------------------------------
(* The environment. *)

\* A process is killed: its runtime enforces a timeout of its own on hooks.
Crash(p) ==
  /\ pc[p] \notin Ended
  /\ crashes < MaxCrashes
  /\ Go(p, "dead")
  /\ crashes' = crashes + 1
  /\ UNCHANGED <<lock, seen, data, intruded>>

\* The directory has not changed for longer than the grace period.
Age ==
  /\ Exists
  /\ ~stale
  /\ stale' = TRUE
  /\ UNCHANGED <<pc, creator, owners, torn, seen, data, crashes, intruded>>

Proceed(p) ==
  \/ Discard(p) \/ DiscardOwner(p) \/ DiscardDirectory(p)
  \/ MakeDirectory(p) \/ FindLocked(p) \/ Reclaim(p)
  \/ ExamineOwner(p) \/ ExamineTorn(p) \/ ExamineDone(p) \/ Prune(p)
  \/ Retry(p) \/ OpenOwner(p) \/ OpenFails(p) \/ Abandon(p) \/ WriteOwner(p)
  \/ Read(p) \/ ReadUnchanged(p) \/ AssertOwned(p) \/ Rename(p) \/ Unlink(p) \/ Leave(p)

Next == (\E p \in Process : Proceed(p) \/ TimeOut(p) \/ Crash(p)) \/ Age

Spec == Init /\ [][Next]_vars

\* A process that is not killed keeps running and time passes.  The pause
\* before a retry keeps two processes from removing each other's directories
\* in step for ever, so an attempt that can succeed again and again does.
FairSpec == /\ Spec
            /\ WF_vars(Age)
            /\ \A p \in Process : WF_vars(Proceed(p)) /\ SF_vars(OpenOwner(p))

--------------------------------------------------------------------------------
(* Properties. *)

\* Every variable has its type, files lie in a directory that exists.
TypeOK == /\ pc \in [Process -> Steps]
          /\ creator \in Process \cup {NoProcess}
          /\ owners \in SUBSET Process
          /\ torn \in SUBSET owners
          /\ stale \in BOOLEAN
          /\ seen \in [Process -> SUBSET Process]
          /\ file \in SUBSET Process
          /\ read \in [Process -> SUBSET Process]
          /\ crashes \in 0 .. MaxCrashes
          /\ intruded \in BOOLEAN
          /\ ~Exists => owners = {} /\ ~stale

\* No session start has begun.
NoStart == \A s \in Starter : pc[s] = "discard"

\* What an update was computed from is still what is saved when it is renamed
\* into place, whoever crashed, was reclaimed or retried meanwhile, as long as
\* no session start has begun and every owner file went into the directory its
\* own process had made.
ReadIsCurrent ==
  (~intruded /\ NoStart) =>
     \A p \in Updater : pc[p] \in {"assert", "rename"} => read[p] = file

OwnersKept ==
  \A p \in Process : (p \in owners /\ p \notin owners') =>
     \/ pc[p] \in {"unlink", "dead"}
     \/ \E s \in Starter : At(s, "discardEach")

\* Waiting processes never take the lock from a live one: an owner file goes
\* when its process releases it, is dead, or a session starts.
LiveOwnerKept == [][OwnersKept]_vars

\* No hook waits for ever, whoever was killed where: a dead owner, a directory
\* without an owner and an owner file cut short are all got over.
HookEnds == \A p \in Process : <>(pc[p] \in Ended)
================================================================================
