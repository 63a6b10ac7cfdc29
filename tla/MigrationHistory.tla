-------------------------- MODULE MigrationHistory --------------------------
(***************************************************************************)
(* The migration files as the direct runner sees them: what is pending     *)
(* (MigrationStatus) and how pending files are grouped into the units it   *)
(* applies (src/migrations/runners.ts).                                    *)
(*                                                                         *)
(* A file is a record: version is the leading digits of its name, as a     *)
(* number; name orders the files of one version (localeCompare); concurrent*)
(* says that it ends in .concurrent.sql.  Its SQL is Sql[file], a sequence *)
(* of statements.                                                          *)
(***************************************************************************)
EXTENDS MigrationStatus, FiniteSets, Sequences

CONSTANTS
  File,            \* the migration files that may ever be on disk
  Sql,             \* [File -> sequence of statements]
  TransactionMode  \* "per-migration" or "per-statement"

Versions == {f.version : f \in File}

ASSUME FileAssumption ==
  /\ IsFiniteSet(File)
  /\ File \subseteq [version : Nat \ {0}, name : Nat, concurrent : BOOLEAN]
  /\ \A f, g \in File :
        (f.version = g.version /\ f.concurrent = g.concurrent /\ f.name = g.name) => f = g

ASSUME SqlAssumption == DOMAIN Sql = File /\ \A f \in File : Len(Sql[f]) \in Nat

ASSUME ModeAssumption == TransactionMode \in {"per-migration", "per-statement"}

-----------------------------------------------------------------------------
(* runners.ts, groupMigrationUnits: one unit per version, oldest first, its *)
(* concurrent companions last.                                              *)

UnitFiles(files, v) == {f \in files : f.version = v}

FileBefore(f, g) ==
  \/ ~f.concurrent /\ g.concurrent
  \/ f.concurrent = g.concurrent /\ f.name < g.name

FirstOf(f, files) == f \in files /\ \A g \in files : g = f \/ FileBefore(f, g)

\* Mutant of OldestVersion: the files are sorted newest first.
NewestVersion(v, files) ==
  v \in VersionsOf(files) /\ \A w \in VersionsOf(files) : w <= v

OldestVersion(v, files) ==
  v \in VersionsOf(files) /\ \A w \in VersionsOf(files) : v <= w

Transactional(unit) ==
  TransactionMode = "per-migration" /\ \A f \in unit : ~f.concurrent

LinesOf(f) == {<<f, i>> : i \in 1 .. Len(Sql[f])}

LinesOfAll(files) == UNION {LinesOf(f) : f \in files}
=============================================================================
