---------------------------- MODULE WorkspaceCache ----------------------------
(***************************************************************************)
(* How runners share the build cache of the repository                     *)
(* (harness/workspace_builder.py): a runner hydrates the Mathlib cache     *)
(* once, warms the public modules one by one, and then clones the build    *)
(* directory into its workspace and prunes it.  Every section that touches *)
(* the cache asks for the verification lease first; here the lease is the  *)
(* semaphore that VerifyLease implements, which a caller may fail to get.  *)
(*                                                                         *)
(* lake is external: it checks out packages before anything else, writes a *)
(* module that is out of date, and leaves half of it when it is killed.    *)
(***************************************************************************)
EXTENDS Naturals, FiniteSets, Sequences

CONSTANTS
  Runner,    \* the runner processes
  Cap,       \* DEFAULT_HARNESS_VERIFY_CONCURRENCY
  Public,    \* the public modules of the group, in the order of the warm
  Secret,    \* modules in the cache whose sources no workspace gets
  CrashMax   \* bound: runners that are killed

PublicModule == {Public[i] : i \in DOMAIN Public}

Artifact == PublicModule \cup Secret

ASSUME CacheAssumption ==
  /\ Cap \in Nat \ {0}
  /\ CrashMax \in Nat
  /\ Public \in Seq(PublicModule)
  /\ PublicModule \cap Secret = {}

VARIABLES
  pc,        \* where each runner is
  unwarmed,  \* modules it has still to warm
  outcome,   \* how its warm ended
  copied,    \* artifacts it has copied
  clone,     \* the build directory of its workspace
  holders,   \* runners that hold the lease
  sentinel,  \* whether the sentinel file exists
  fetched,   \* whether the Mathlib cache is complete
  checkout,  \* the package checkouts: "absent", "partial" or "whole"
  build,     \* state of each artifact in the shared build directory
  orphans,   \* modules that a lake without its runner still builds
  open,      \* history: a section ran without the lease or outlived its runner
  crashes    \* history: runners killed

cacheVars == <<pc, unwarmed, outcome, copied, clone, holders, sentinel, fetched, checkout,
               build, orphans, open, crashes>>

runnerVars == <<unwarmed, outcome, copied, clone>>

sharedVars == <<sentinel, fetched, checkout, build, orphans, crashes>>

Empty == [a \in Artifact |-> "none"]

Init ==
  /\ pc = [p \in Runner |-> "toolchain"]
  /\ unwarmed = [p \in Runner |-> Public]
  /\ outcome = [p \in Runner |-> "none"]
  /\ copied = [p \in Runner |-> {}]
  /\ clone = [p \in Runner |-> Empty]
  /\ holders = {}
  /\ sentinel = FALSE
  /\ fetched = FALSE
  /\ checkout \in {"absent", "whole"}
  /\ build = [a \in Artifact |-> IF a \in Secret THEN "done" ELSE "none"]
  /\ orphans = {}
  /\ open = FALSE
  /\ crashes = 0

Goto(p, place) == pc' = [pc EXCEPT ![p] = place]

-----------------------------------------------------------------------------
(* The lease of one section.                                               *)

Waits == {"want get", "want build", "want clone"}

Enters == [w \in Waits |->
             CASE w = "want get" -> "recheck" [] w = "want build" -> "health"
               [] w = "want clone" -> "cloning"]

GetLease(p) ==
  /\ pc[p] \in Waits
  /\ Cardinality(holders) < Cap
  /\ holders' = holders \cup {p}
  /\ Goto(p, Enters[pc[p]])
  /\ UNCHANGED <<runnerVars, sharedVars, open>>

\* The lease timed out or is unusable: the section runs without it.
FallOpen(p) ==
  /\ pc[p] \in Waits
  /\ open' = TRUE
  /\ Goto(p, Enters[pc[p]])
  /\ UNCHANGED <<runnerVars, holders, sharedVars>>

Leave(p) == holders' = holders \ {p}

-----------------------------------------------------------------------------
(* The warm.                                                               *)

\* The warm is over, the workspace is built in any case.
WarmEnds(p, how) ==
  /\ outcome' = [outcome EXCEPT ![p] = how]
  /\ Goto(p, "sources")

\* _validate_effective_toolchain, which is required.
Toolchain(p) ==
  /\ pc[p] = "toolchain"
  /\ \/ Goto(p, "prefetch") /\ UNCHANGED outcome
     \/ WarmEnds(p, "failed")
  /\ UNCHANGED <<unwarmed, copied, clone, holders, sharedVars, open>>

NextModule(p) == IF unwarmed[p] = <<>> THEN "warmed" ELSE "want build"

\* The sentinel is read without the lease ...
Prefetch(p) ==
  /\ pc[p] = "prefetch"
  /\ Goto(p, IF sentinel THEN NextModule(p) ELSE "want get")
  /\ UNCHANGED <<runnerVars, holders, sharedVars, open>>

\* ... and once more with it.
Recheck(p) ==
  /\ pc[p] = "recheck"
  /\ IF sentinel THEN Goto(p, NextModule(p)) /\ Leave(p)
     ELSE Goto(p, "getting") /\ UNCHANGED holders
  /\ UNCHANGED <<runnerVars, sharedVars, open>>

\* exit_code = 0
FetchPasses(ended) == ended = "complete"

\* lake exe cache get ends by itself or is killed after its timeout; nothing
\* of it is required.
Fetched(p) ==
  /\ pc[p] = "getting"
  /\ \E ended \in {"complete", "failed", "killed"} :
       /\ ended = "complete" => checkout = "whole"
       /\ fetched' = (fetched \/ ended = "complete")
       /\ sentinel' = (sentinel \/ FetchPasses(ended))
  /\ Goto(p, NextModule(p))
  /\ Leave(p)
  /\ UNCHANGED <<runnerVars, checkout, build, orphans, open, crashes>>

\* _wait_for_package_checkouts: polls until they are whole or time is up.
Healthy(p) ==
  /\ pc[p] = "health" /\ checkout = "whole"
  /\ Goto(p, "building")
  /\ UNCHANGED <<runnerVars, holders, sharedVars, open>>

UnhealthyMutant(p) == pc[p] = "health" /\ checkout # "whole" /\ UNCHANGED cacheVars

\* Not whole when the time is up: the warm ends.
Unhealthy(p) ==
  /\ pc[p] = "health" /\ checkout # "whole"
  /\ WarmEnds(p, "failed")
  /\ Leave(p)
  /\ UNCHANGED <<unwarmed, copied, clone, sharedVars, open>>

\* lake build of the next module passed: it was up to date or is now.
BuildPasses(p) ==
  /\ pc[p] = "building" /\ build[Head(unwarmed[p])] = "done"
  /\ unwarmed' = [unwarmed EXCEPT ![p] = Tail(@)]
  /\ Goto(p, IF Tail(unwarmed[p]) = <<>> THEN "warmed" ELSE "want build")
  /\ Leave(p)
  /\ UNCHANGED <<outcome, copied, clone, sharedVars, open>>

\* The remaining modules are built after a failure.
BuildFailsMutant(p) ==
  /\ pc[p] = "building"
  /\ unwarmed' = [unwarmed EXCEPT ![p] = Tail(@)]
  /\ Goto(p, IF Tail(unwarmed[p]) = <<>> THEN "warmed" ELSE "want build")
  /\ Leave(p)
  /\ UNCHANGED <<outcome, copied, clone, sharedVars, open>>

\* It failed, or it was killed with its process group after the timeout.
BuildFails(p) ==
  /\ pc[p] = "building"
  /\ WarmEnds(p, "failed")
  /\ Leave(p)
  /\ UNCHANGED <<unwarmed, copied, clone, sharedVars, open>>

Warmed(p) ==
  /\ pc[p] = "warmed"
  /\ WarmEnds(p, "passed")
  /\ UNCHANGED <<unwarmed, copied, clone, holders, sharedVars, open>>

-----------------------------------------------------------------------------
(* The workspace.                                                          *)

\* The clone does not ask for the lease again.
CopySourcesMutant(p) ==
  /\ pc[p] = "sources"
  /\ Goto(p, "cloning")
  /\ UNCHANGED <<runnerVars, holders, sharedVars, open>>

\* build_group_workspace copies sources, then setup_private_lake clones.
CopySources(p) ==
  /\ pc[p] = "sources"
  /\ Goto(p, "want clone")
  /\ UNCHANGED <<runnerVars, holders, sharedVars, open>>

\* _clone_tree copies one artifact after the other.
CloneOne(p) ==
  /\ pc[p] = "cloning"
  /\ \E a \in Artifact \ copied[p] :
       /\ copied' = [copied EXCEPT ![p] = @ \cup {a}]
       /\ clone' = [clone EXCEPT ![p][a] = build[a]]
  /\ UNCHANGED <<pc, unwarmed, outcome, holders, sharedVars, open>>

Cloned(p) ==
  /\ pc[p] = "cloning" /\ copied[p] = Artifact
  /\ Goto(p, "prune")
  /\ Leave(p)
  /\ UNCHANGED <<runnerVars, sharedVars, open>>

\* The source of the artifact is in the workspace: neither Proofs.lean nor
\* GeneratedPreview nor another case is copied.
Sourced(a) == a \notin Secret

\* _prune_build_to_sources, on the runner's own copy and without the lease.
Prune(p) ==
  /\ pc[p] = "prune"
  /\ clone' = [clone EXCEPT ![p] =
                 [a \in Artifact |-> IF Sourced(a) THEN @[a] ELSE "none"]]
  /\ Goto(p, "ready")
  /\ UNCHANGED <<unwarmed, outcome, copied, holders, sharedVars, open>>

-----------------------------------------------------------------------------
(* lake (external) and crashes.                                            *)

Busy == {p \in Runner : pc[p] \in {"getting", "building"}}

\* Packages are checked out by whatever lake runs first.
LakeChecksOut ==
  /\ Busy # {}
  /\ checkout # "whole"
  /\ checkout' = IF checkout = "absent" THEN "partial" ELSE "whole"
  /\ UNCHANGED <<pc, runnerVars, holders, sentinel, fetched, build, orphans, open, crashes>>

\* What is up to date is not written again.
LakeWrites ==
  /\ \E a \in {Head(unwarmed[p]) : p \in {q \in Busy : pc[q] = "building"}} \cup orphans :
       /\ build[a] # "done"
       /\ build' = [build EXCEPT ![a] = IF @ = "none" THEN "half" ELSE "done"]
  /\ UNCHANGED <<pc, runnerVars, holders, sentinel, fetched, checkout, orphans, open, crashes>>

\* The lease is dropped with the process; lake has a session of its own.  A new
\* runner takes its place.
Crash(p) ==
  /\ pc[p] # "ready" /\ crashes < CrashMax
  /\ crashes' = crashes + 1
  /\ orphans' = IF pc[p] = "building" THEN orphans \cup {Head(unwarmed[p])} ELSE orphans
  /\ open' = (open \/ pc[p] \in {"building", "getting"})
  /\ Goto(p, "toolchain")
  /\ unwarmed' = [unwarmed EXCEPT ![p] = Public]
  /\ outcome' = [outcome EXCEPT ![p] = "none"]
  /\ copied' = [copied EXCEPT ![p] = {}]
  /\ clone' = [clone EXCEPT ![p] = Empty]
  /\ Leave(p)
  /\ UNCHANGED <<sentinel, fetched, checkout, build>>

OrphanEnds ==
  /\ \E a \in orphans : orphans' = orphans \ {a}
  /\ UNCHANGED <<pc, runnerVars, holders, sentinel, fetched, checkout, build, open, crashes>>

\* What a runner does by itself, where every wait has a timeout.
Step(p) ==
  \/ GetLease(p) \/ FallOpen(p) \/ Toolchain(p) \/ Prefetch(p) \/ Recheck(p)
  \/ Fetched(p) \/ Healthy(p) \/ Unhealthy(p) \/ BuildPasses(p) \/ BuildFails(p)
  \/ Warmed(p) \/ CopySources(p) \/ CloneOne(p) \/ Cloned(p) \/ Prune(p)

Next ==
  \/ \E p \in Runner : Step(p) \/ Crash(p)
  \/ LakeChecksOut \/ LakeWrites \/ OrphanEnds

Fairness == \A p \in Runner : WF_cacheVars(Step(p))

Spec == Init /\ [][Next]_cacheVars /\ Fairness

-----------------------------------------------------------------------------
(* Properties.                                                             *)

State == {"none", "half", "done"}

TypeOK ==
  /\ pc \in [Runner -> Waits \cup {Enters[w] : w \in Waits} \cup
                       {"toolchain", "prefetch", "getting", "building", "warmed",
                        "sources", "prune", "ready"}]
  /\ unwarmed \in [Runner -> {SubSeq(Public, i, Len(Public)) : i \in 1 .. Len(Public) + 1}]
  /\ outcome \in [Runner -> {"none", "passed", "failed"}]
  /\ copied \in [Runner -> SUBSET Artifact]
  /\ clone \in [Runner -> [Artifact -> State]]
  /\ holders \subseteq {p \in Runner : pc[p] \in {Enters[w] : w \in Waits} \cup
                                                 {"getting", "building"}}
  /\ {sentinel, fetched, open} \subseteq BOOLEAN
  /\ checkout \in {"absent", "partial", "whole"}
  /\ build \in [Artifact -> State]
  /\ orphans \subseteq PublicModule
  /\ crashes \in 0 .. CrashMax

\* "another runner cannot change the source tree halfway through our copy": as
\* long as every section had the lease and no runner was killed inside of one,
\* nobody builds while a runner clones.
CloneUndisturbed ==
  (\E p \in Runner : pc[p] = "cloning") /\ ~open =>
    orphans = {} /\ \A p \in Runner : pc[p] # "building"

\* A workspace whose warm passed starts warm: its clone has every public module
\* complete, whatever other runners' builds broke and whoever was killed.
WorkspaceIsWarm ==
  \A p \in Runner : pc[p] = "ready" /\ outcome[p] = "passed" =>
    \A a \in PublicModule : clone[p][a] = "done"

\* "Sharing the repo build dir verbatim would leak compiled hidden reference
\* proofs": no workspace keeps an artifact without its source, also when the
\* cache changed under the clone.
NoHiddenArtifact ==
  \A p \in Runner : pc[p] = "ready" => \A a \in Secret : clone[p][a] = "none"

\* The sentinel is only there if some fetch was complete, whoever was killed.
SentinelIsTrue == sentinel => fetched /\ checkout = "whole"

\* The shared cache is used one section at a time, however leases are asked for,
\* fetches end and runners die (setup_private_lake, _prefetch_mathlib_cache).
CacheIsShared == TypeOK /\ CloneUndisturbed /\ SentinelIsTrue

\* Whatever the clone caught, the workspace that a task gets is usable and tells
\* the model nothing (build_group_workspace).
WorkspaceIsSound == WorkspaceIsWarm /\ NoHiddenArtifact

\* Every runner gets its workspace, whatever the others hold, build or break.
WorkspaceComes == \A p \in Runner : <>[](pc[p] = "ready")
=============================================================================
