--------------------------- MODULE FrozenContract ---------------------------
(***************************************************************************)
(* What keeps release v0.2 frozen.  A checkout holds task files, reference *)
(* proofs, a Lake environment in two parts and two contract files,         *)
(* v0.2.json and v0.2-references.json, all of which an edit may change     *)
(* together; the source commit in Git and the literals of                  *)
(* harness/v02_release.py may not.  Both checks below compare a checkout   *)
(* with these.                                                             *)
(*                                                                         *)
(* A number stands for the bytes of a task's files, of a reference proof   *)
(* with its imports, of the pins (lean-toolchain, and the Verity package   *)
(* of lake-manifest.json) or of the rest of the environment                *)
(* (lakefile.lean, the other packages): 0 for no files, 1 for those of the *)
(* release.                                                                *)
(***************************************************************************)
EXTENDS Naturals, Sequences, FiniteSets, SequencesExt

CONSTANTS
  Task,
  Order,    \* the tasks in the order of their references
  Frozen    \* those of v0.2

ASSUME ReleaseAssumption ==
  /\ IsFiniteSet(Task) /\ Frozen \subseteq Task
  /\ Order \in Seq(Task) /\ IsInjective(Order) /\ ToSet(Order) = Task

\* Task files of the release, other ones, ones whose task.yaml alone gives the
\* stage (see Runs and Plays), ones that do not load.
Files == 0 .. 4

Unreadable == 4

References == 0 .. 2

Environment == 1 .. 2

-----------------------------------------------------------------------------
(* Reading a checkout.                                                     *)

Present(c, t) == c.files[t] # 0

Readable(c) == \A t \in Task : c.files[t] # Unreadable

\* task_is_runnable of harness/task_runner.py, which takes the stage of case.yaml.
Runs(c, t) == c.files[t] \in {1, 2}

\* task_is_runnable of harness/manifests.py, which asks task.yaml first.
Plays(c, t) == c.files[t] \in {1, 2, 3}

\* The tasks of a set, in the order of their references.
InOrder(S) ==
  LET upto[n \in 0 .. Len(Order)] ==
        IF n = 0 THEN <<>>
        ELSE IF Order[n] \in S THEN Append(upto[n - 1], Order[n]) ELSE upto[n - 1]
  IN upto[Len(Order)]

\* task_entries: the entry of each task that plays.
Entry(c) == [t \in {u \in Task : Plays(c, u)} |-> c.files[t]]

\* The whole environment is the release's.
EnvironmentIsReleased(c) == c.pins = 1 /\ c.packages = 1

\* environment_id, which hashes the whole environment, among the metadata.
EnvironmentId(c) == IF EnvironmentIsReleased(c) THEN "release" ELSE "other"

\* build_version_manifest, and the mappings a version adds to it.
ManifestOf(c) ==
  [source |-> "release", metadata |-> EnvironmentId(c), environment |-> c.pins,
   tasks |-> InOrder({t \in Task : Plays(c, t)}),
   entry |-> Entry(c), bytes |-> [t \in {u \in Task : Plays(c, u)} |-> c.files[t]]]

\* The references contract of a checkout and its manifest.
ReferencesOf(c) ==
  [manifest |-> c.manifest, tasks |-> c.manifest.tasks,
   entry |-> [t \in DOMAIN c.manifest.entry |->
                [task |-> c.manifest.entry[t], reference |-> c.references[t]]]]

ReleaseCheckout ==
  LET c == [files |-> [t \in Task |-> IF t \in Frozen THEN 1 ELSE 0],
            references |-> [t \in Task |-> 1], pins |-> 1, packages |-> 1, helper |-> TRUE,
            contract |-> 0, manifest |-> 0]
      d == [c EXCEPT !.manifest = ManifestOf(c)]
  IN [d EXCEPT !.contract = ReferencesOf(d)]

-----------------------------------------------------------------------------
(* baseline_contract_entries: the same derivations in the source commit.   *)

Baseline == ReleaseCheckout

BaselineEntry == Entry(Baseline)

-----------------------------------------------------------------------------
(* load_v02_task_refs                                                      *)

PinnedMutant(c) == \A t \in Frozen \cap DOMAIN c.manifest.entry : c.manifest.entry[t] = Entry(c)[t]

\* Three sources of a task's entry agree: manifest, source commit, working tree.
Pinned(c) ==
  /\ ToSet(c.manifest.tasks) = DOMAIN BaselineEntry
  /\ \A t \in Frozen : c.manifest.entry[t] = BaselineEntry[t] /\ Entry(c)[t] = BaselineEntry[t]

\* The list is handed out when nothing has drifted and Git has the source commit.
ListPasses(c, git) ==
  LET tasks == ToSet(c.manifest.tasks) IN
    /\ c.manifest.source = "release"
    /\ IsInjective(c.manifest.tasks)
    /\ tasks = DOMAIN c.manifest.bytes
    /\ Readable(c)
    /\ tasks \subseteq DOMAIN Entry(c)
    /\ c.helper /\ git
    /\ Pinned(c)
    /\ \A t \in tasks : c.files[t] = c.manifest.bytes[t]

-----------------------------------------------------------------------------
(* validate without Lean: ensure_structural_contract                       *)

ReleaseLiterals(c) ==
  /\ c.manifest.source = "release"
  /\ c.manifest.metadata = "release"
  /\ c.manifest.environment = 1

\* runtime_environment_error: the pins alone; lakefile.lean and the other packages
\* of lake-manifest.json are not looked at.
RuntimeIsReleased(c) == c.pins = 1

\* discover_task_refs of the frozen suite: every task of the list loads.
Discovered(c, git) ==
  ListPasses(c, git) /\ \A t \in ToSet(c.manifest.tasks) : c.files[t] \notin {0, Unreadable}

\* The same for a list of runnable tasks.
DiscoveredRunnable(c, git) ==
  Discovered(c, git) /\ \A t \in ToSet(c.manifest.tasks) : Runs(c, t)

ReferencesHold(c) ==
  /\ c.contract.manifest = c.manifest
  /\ c.contract.tasks = c.manifest.tasks
  /\ \A t \in ToSet(c.manifest.tasks) :
       /\ c.contract.entry[t].task = c.manifest.entry[t]
       /\ c.contract.entry[t].reference = Baseline.references[t]
       /\ c.references[t] = c.contract.entry[t].reference

PreflightPasses(c, git) ==
  /\ ReleaseLiterals(c)
  /\ c.helper
  /\ RuntimeIsReleased(c)
  /\ git
  /\ Discovered(c, git)
  /\ ReferencesHold(c)

-----------------------------------------------------------------------------
(* What the checks are for.                                                *)

\* The tasks are those of the release.
TasksAreReleased(c) == \A t \in Frozen : c.files[t] = 1

\* Tasks, reference proofs, Lean toolchain and Verity are those of the release.
CheckoutIsReleased(c) ==
  TasksAreReleased(c) /\ c.pins = 1 /\ \A t \in Frozen : c.references[t] = 1

=============================================================================
