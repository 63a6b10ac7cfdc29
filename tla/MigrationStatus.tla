-------------------------- MODULE MigrationStatus --------------------------
(***************************************************************************)
(* status.ts: a target's history table against the migration files on disk.*)
(* A history is a set of versions, a file any record with a version, the   *)
(* leading digits of its name as a number.                                 *)
(***************************************************************************)
EXTENDS Naturals

VersionsOf(files) == {f.version : f \in files}

Applied(files, history) == {f \in files : f.version \in history}

Pending(files, history) == {f \in files : f.version \notin history}

\* Mutant of OutOfOrder: the comparison is turned around.
OutOfOrderFlipped(files, history) ==
  {f \in Pending(files, history) : \E v \in history : v < f.version}

\* Mutant of OutOfOrder: every pending file may be applied.
OutOfOrderIgnored(files, history) == {}

\* version < newestApplied, for the newest version in the history.
OutOfOrder(files, history) ==
  {f \in Pending(files, history) : \E v \in history : f.version < v}

Ghosts(files, history) == history \ VersionsOf(files)

MissingExpected(expected, history) == expected \ history

\* The report carries an error diagnostic.
HistoryErrors(files, history) ==
  \/ Ghosts(files, history) # {}
  \/ OutOfOrder(files, history) # {}
=============================================================================
