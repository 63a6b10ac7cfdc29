-------------------------- MODULE MigrationLineage --------------------------
(***************************************************************************)
(* Generated migration files and what can be proved from them: the schema  *)
(* transition a file makes, the replay of a directory, the lineage chain   *)
(* (src/migrations/lineage.ts, context.ts), the before-state               *)
(* sources.from: "auto" selects (src/planner/context.ts) and the gate      *)
(* on the chain (src/workflow/verify.ts).                                  *)
(*                                                                         *)
(* A schema is the set of the objects it has, and its fingerprint is the   *)
(* set itself.  A file is a record of its version, its part (a generated   *)
(* base or its concurrent companion, or a hand-authored file) and the      *)
(* schemas it was written between.  Only a base has a lineage line.        *)
(***************************************************************************)
EXTENDS Naturals, FiniteSetsExt

CONSTANTS
  Object,      \* the schema objects
  Concurrent,  \* the indexes that are created and dropped concurrently
  MaxVersion   \* bound: versions are 1 .. MaxVersion

ASSUME LineageAssumption == Concurrent \subseteq Object /\ MaxVersion \in Nat

File == [version : 1 .. MaxVersion, part : {"base", "companion", "hand"},
         from : SUBSET Object, to : SUBSET Object]

F(v, part, from, to) == [version |-> v, part |-> part, from |-> from, to |-> to]

-----------------------------------------------------------------------------
\* Mutant of Touches: the companion's statements are rendered into the base too.
TouchesAll(f) == IF f.part = "companion" THEN Concurrent ELSE Object

\* renderMigrationSplit: statements on concurrent indexes go to the companion.
Touches(f) ==
  IF f.part = "companion" THEN Concurrent
  ELSE IF f.part = "base" THEN Object \ Concurrent ELSE Object

Adds(f) == (f.to \ f.from) \cap Touches(f)

Drops(f) == (f.from \ f.to) \cap Touches(f)

\* What a schema becomes when files are executed or replayed in the order of
\* their versions: the newest file that touches an object decides.
Execute(schema, files) ==
  {o \in Object :
     LET touching == {f \in files : o \in Adds(f) \cup Drops(f)}
     IN  IF touching = {} THEN o \in schema
         ELSE \E f \in touching : o \in Adds(f) /\ \A g \in touching : g.version <= f.version}

\* defaultMigrationName: named after the operation when there is only one.
Name(f) ==
  LET changed == (f.to \ f.from) \cup (f.from \ f.to)
  IN  IF Cardinality(changed) = 1 THEN <<f.to \ f.from, f.from \ f.to>> ELSE <<{}, {}>>

SamePath(f, g) == f.version = g.version /\ f.part = g.part /\ Name(f) = Name(g)

\* Mutant of NextVersion: the second of the newest file is taken again.
NextVersionSame(files, now) == Max({now} \cup {f.version : f \in files})

\* nextMigrationFile: the current second, or one after the newest file.
NextVersion(files, now) == Max({now} \cup {f.version + 1 : f \in files})

-----------------------------------------------------------------------------
(* The lineage chain. *)

Generated(files) == {f \in files : f.part = "base"}

\* latestLineage, latestGeneratedBaseline: the newest file with a lineage, as a
\* set of at most one.  (Among files of one version it is the last by name,
\* an order the model leaves open.)
Latest(files) ==
  LET newest == {f \in Generated(files) : \A g \in Generated(files) : g.version <= f.version}
  IN  IF newest = {} THEN {} ELSE {CHOOSE f \in newest : TRUE}

\* unprovenBaselineFiles: hand-authored files after the newest lineage.
Unproven(files) ==
  {f \in files : f.part = "hand" /\ \A g \in Generated(files) : g.version < f.version}

\* Mutant of ChainBroken: the gate is not called.
ChainNotChecked(files, from, to) == FALSE

\* checkSyncLineageChain: SUPA_DIFF_LINEAGE_DUPLICATE or SUPA_DIFF_LINEAGE_GAP.
ChainBroken(files, from, to) ==
  \E f \in Latest(files) : (f.from = from /\ f.to = to) \/ f.to # from

-----------------------------------------------------------------------------
(* sources.from: "auto", in a worktree with a HEAD commit. *)

\* stagedGenerationBaseline: the newest generated file is staged without
\* worktree edits, and the indexed tree is the one its lineage ends at.
StagedClosure(files, indexFiles, indexTree, headFiles) ==
  /\ Unproven(files) = {}
  /\ \E f \in Latest(files) : f \in indexFiles \ headFiles /\ f.to = indexTree

ReplayRequired(files) ==
  files # {} /\ (Latest(files) = {} \/ Unproven(files) # {})

\* provesGeneratedBaseline.
Proves(files, tree) == \A f \in Latest(files) : f.to = tree

\* Mutant of AutomaticBaseline: HEAD is taken without a proof.
HeadUnproven(files, indexFiles, indexTree, headFiles, headTree) ==
  IF StagedClosure(files, indexFiles, indexTree, headFiles) THEN "index" ELSE "head"

\* automaticGenerationBaseline.
AutomaticBaseline(files, indexFiles, indexTree, headFiles, headTree) ==
  IF StagedClosure(files, indexFiles, indexTree, headFiles) THEN "index"
  ELSE IF ReplayRequired(files) THEN "migrations"
  ELSE IF Proves(files, headTree) THEN "head" ELSE "migrations"

\* migrationBaselineDiagnostics: SUPA_MIGRATION_BASELINE_REPLAY_REQUIRED or
\* SUPA_MIGRATION_BASELINE_MISMATCH.
BaselineRefused(files, source, tree) ==
  /\ source # "migrations"
  /\ ReplayRequired(files) \/ ~Proves(files, tree)
=============================================================================
