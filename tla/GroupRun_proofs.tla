---------------------------- MODULE GroupRun_proofs ----------------------------
(***************************************************************************)
(* Proofs about the run of a group of tasks and the workspace it builds.   *)
(* The two models share no variable.                                       *)
(*                                                                         *)
(* WorkspaceCache, for any runners, modules and kills: the sentinel tells  *)
(* the truth, and every workspace is warm if its warm passed and holds     *)
(* nothing without a source.  That nobody builds under a clone is proved   *)
(* for the lease of one holder, DEFAULT_HARNESS_VERIFY_CONCURRENCY = 1.    *)
(*                                                                         *)
(* RunGroup, for any tasks, settings, retries and messages of the server:  *)
(* the requests of a completion are bounded, what the Lean server tells a  *)
(* task is the answer to its own call about the file as it is, and what a  *)
(* run reports is what it did, wherever it stops.                          *)
(***************************************************************************)
EXTENDS WorkspaceCache, RunGroup, FiniteSetTheorems, SequenceTheorems, TLAPS

-----------------------------------------------------------------------------
(* The workspace.                                                          *)


Leased == {"recheck", "getting", "health", "building", "cloning"}

\* Who holds the lease, and that a leased section is in its holder's hands.
LeaseInv ==
  /\ IsFiniteSet(holders) /\ Cardinality(holders) <= Cap
  /\ ~open => orphans = {} /\ \A p \in Runner : pc[p] \in Leased => p \in holders

\* The modules of Public that runner p has warmed are complete.
Warmed1(p) ==
  \A i \in 1 .. Len(Public) : i + Len(unwarmed[p]) <= Len(Public) => build[Public[i]] = "done"

WarmInv ==
  \A p \in Runner :
    /\ Warmed1(p)
    /\ pc[p] \in {"want build", "health", "building"} => unwarmed[p] # <<>>
    /\ pc[p] = "warmed" => unwarmed[p] = <<>>
    /\ outcome[p] = "passed" => \A a \in PublicModule : build[a] = "done"

\* What a runner has copied.
CloneInv ==
  \A p \in Runner :
    /\ copied[p] # {} => pc[p] \in {"cloning", "prune", "ready"}
    /\ outcome[p] = "passed" => \A a \in copied[p] \cap PublicModule : clone[p][a] = "done"
    /\ pc[p] \in {"prune", "ready"} => copied[p] = Artifact
    /\ pc[p] = "ready" => \A a \in Secret : clone[p][a] = "none"

CacheInv == TypeOK /\ LeaseInv /\ WarmInv /\ CloneInv /\ SentinelIsTrue

-----------------------------------------------------------------------------
(* The modules that are left.                                              *)

Rest(i) == SubSeq(Public, i, Len(Public))

Rests == {Rest(i) : i \in 1 .. Len(Public) + 1}

\* A warm works through the end of the list, one module after the other.
LEMMA RestFacts ==
  /\ Len(Public) \in Nat
  /\ \A i \in 1 .. Len(Public) : Public[i] \in PublicModule
  /\ \A i \in 1 .. Len(Public) + 1 :
       /\ Rest(i) \in Seq(PublicModule)
       /\ Len(Rest(i)) = Len(Public) + 1 - i
       /\ Rest(i) = <<>> <=> i = Len(Public) + 1
       /\ i <= Len(Public) => Head(Rest(i)) = Public[i] /\ Tail(Rest(i)) = Rest(i + 1)
  <1>1. Public \in Seq(PublicModule)
    BY CacheAssumption
  <1>2. /\ Len(Public) \in Nat /\ DOMAIN Public = 1 .. Len(Public)
        /\ \A i \in 1 .. Len(Public) : Public[i] \in PublicModule
    BY <1>1
  <1>3. ASSUME NEW i \in 1 .. Len(Public) + 1
        PROVE  /\ Rest(i) \in Seq(PublicModule)
               /\ Len(Rest(i)) = Len(Public) + 1 - i
               /\ \A j \in 1 .. Len(Public) - i + 1 : Rest(i)[j] = Public[i + j - 1]
    <2>1. i \in Int /\ Len(Public) \in Int /\ \A j \in i .. Len(Public) : Public[j] \in PublicModule
      BY <1>2
    <2>2. /\ Rest(i) \in Seq(PublicModule)
          /\ Len(Rest(i)) = IF i <= Len(Public) THEN Len(Public) - i + 1 ELSE 0
          /\ \A j \in 1 .. Len(Public) - i + 1 : Rest(i)[j] = Public[i + j - 1]
      BY <2>1, SubSeqProperties DEF Rest
    <2> QED
      BY <1>2, <2>2
  <1>4. ASSUME NEW i \in 1 .. Len(Public) + 1 PROVE Rest(i) = <<>> <=> i = Len(Public) + 1
    BY <1>2, <1>3
  <1>5. ASSUME NEW i \in 1 .. Len(Public)
        PROVE  Head(Rest(i)) = Public[i] /\ Tail(Rest(i)) = Rest(i + 1)
    BY <1>1, <1>2, HeadTailOfSubSeq DEF Rest
  <1> QED
    BY <1>2, <1>3, <1>4, <1>5

\* The module that is warmed next is public, and the list gets shorter by it.
LEMMA NextModuleFacts ==
  ASSUME TypeOK, NEW p \in Runner
  PROVE  /\ Len(unwarmed[p]) \in Nat
         /\ unwarmed[p] # <<>> =>
              /\ Head(unwarmed[p]) \in PublicModule /\ Tail(unwarmed[p]) \in Rests
              /\ Len(Tail(unwarmed[p])) = Len(unwarmed[p]) - 1
              /\ \E i \in 1 .. Len(Public) :
                   i + Len(unwarmed[p]) = Len(Public) + 1 /\ Head(unwarmed[p]) = Public[i]
  <1>1. PICK i \in 1 .. Len(Public) + 1 : unwarmed[p] = Rest(i)
    BY DEF TypeOK, Rest
  <1>2. Len(Public) \in Nat /\ Len(unwarmed[p]) = Len(Public) + 1 - i
    BY <1>1, RestFacts
  <1>3. ASSUME unwarmed[p] # <<>>
        PROVE  /\ Head(unwarmed[p]) \in PublicModule /\ Tail(unwarmed[p]) \in Rests
               /\ Len(Tail(unwarmed[p])) = Len(unwarmed[p]) - 1
               /\ i \in 1 .. Len(Public) /\ Head(unwarmed[p]) = Public[i]
    <2>1. i \in 1 .. Len(Public)
      <3>1. Rest(i) = <<>> <=> i = Len(Public) + 1
        BY RestFacts
      <3> QED
        BY <1>1, <1>2, <1>3, <3>1
    <2>2. Head(unwarmed[p]) = Public[i] /\ Tail(unwarmed[p]) = Rest(i + 1) /\ i + 1 \in 1 .. Len(Public) + 1
      BY <1>1, <1>2, <2>1, RestFacts
    <2>3. Len(Rest(i + 1)) = Len(Public) + 1 - (i + 1)
      BY <2>2, RestFacts
    <2>4. Public[i] \in PublicModule
      BY <2>1, RestFacts
    <2>5. Rest(i + 1) \in Rests
      BY <2>2 DEF Rests
    <2>6. Len(Tail(unwarmed[p])) = Len(unwarmed[p]) - 1
      BY <1>2, <2>2, <2>3
    <2> QED
      BY <2>1, <2>2, <2>4, <2>5, <2>6
  <1> QED
    BY <1>2, <1>3

-----------------------------------------------------------------------------
(* Type correctness.                                                       *)

\* The artifacts that lake may write are artifacts.
LEMMA WrittenArtifact ==
  ASSUME TypeOK, WarmInv, NEW a,
         a \in {Head(unwarmed[p]) : p \in {q \in Busy : pc[q] = "building"}} \cup orphans
  PROVE  a \in Artifact
  <1>1. ASSUME NEW p \in Runner, pc[p] = "building" PROVE Head(unwarmed[p]) \in PublicModule
    BY <1>1, NextModuleFacts DEF WarmInv
  <1> QED
    BY <1>1 DEF TypeOK, Artifact, Busy

\* Where a runner may be.
Places ==
  {"want get", "want build", "want clone", "recheck", "getting", "health", "building",
   "cloning", "toolchain", "prefetch", "warmed", "sources", "prune", "ready"}

\* The places, written out.
LEMMA PlaceSets ==
  /\ Waits \cup {Enters[w] : w \in Waits} \cup
       {"toolchain", "prefetch", "getting", "building", "warmed", "sources", "prune", "ready"} = Places
  /\ {Enters[w] : w \in Waits} \cup {"getting", "building"} = Leased
  /\ Enters["want get"] = "recheck" /\ Enters["want build"] = "health"
  /\ Enters["want clone"] = "cloning"
  BY DEF Waits, Enters, Places, Leased

\* The type invariant without the definitions of the places.
Types ==
  /\ pc \in [Runner -> Places]
  /\ unwarmed \in [Runner -> Rests]
  /\ outcome \in [Runner -> {"none", "passed", "failed"}]
  /\ copied \in [Runner -> SUBSET Artifact]
  /\ clone \in [Runner -> [Artifact -> State]]
  /\ holders \subseteq {p \in Runner : pc[p] \in Leased}
  /\ sentinel \in BOOLEAN /\ fetched \in BOOLEAN /\ open \in BOOLEAN
  /\ checkout \in {"absent", "partial", "whole"}
  /\ build \in [Artifact -> State]
  /\ orphans \subseteq PublicModule
  /\ crashes \in 0 .. CrashMax

\* It is the type invariant.
LEMMA TypesAreTypeOK == TypeOK <=> Types
  BY PlaceSets DEF TypeOK, Types, Rests, Rest

\* The lease moves from one leased section to none or the next.
LEMMA TypeStep == ASSUME Types, WarmInv, [Next]_cacheVars PROVE Types'
  <1> USE DEF Types, Goto, Leave
  <1>0. TypeOK
    BY TypesAreTypeOK
  <1>1. ASSUME NEW p \in Runner, GetLease(p) \/ FallOpen(p) PROVE Types'
    <2>1. pc[p] \in {"want get", "want build", "want clone"} /\ Enters[pc[p]] \in Leased
      BY <1>1, PlaceSets DEF GetLease, FallOpen, Waits, Leased
    <2>2. Leased \subseteq Places
      BY DEF Leased, Places
    <2> QED
      BY <1>1, <2>1, <2>2 DEF GetLease, FallOpen, runnerVars, sharedVars, Leased
  <1>2. ASSUME NEW p \in Runner, Toolchain(p) \/ Warmed(p) PROVE Types'
    <2>1. CASE Toolchain(p)
      BY <2>1 DEF Toolchain, WarmEnds, sharedVars, Places, Leased
    <2>2. CASE Warmed(p)
      BY <2>2 DEF Warmed, WarmEnds, sharedVars, Places, Leased
    <2> QED
      BY <1>2, <2>1, <2>2
  <1>3. ASSUME NEW p \in Runner, Prefetch(p) \/ Recheck(p) \/ Healthy(p) PROVE Types'
    BY <1>3 DEF Prefetch, Recheck, Healthy, NextModule, runnerVars, sharedVars, Places, Leased
  <1>4. ASSUME NEW p \in Runner, Fetched(p) PROVE Types'
    BY <1>4 DEF Fetched, FetchPasses, NextModule, runnerVars, Places, Leased
  <1>5. ASSUME NEW p \in Runner, Unhealthy(p) \/ BuildFails(p) PROVE Types'
    BY <1>5 DEF Unhealthy, BuildFails, WarmEnds, sharedVars, Places, Leased
  <1>6. ASSUME NEW p \in Runner, BuildPasses(p) PROVE Types'
    <2>1. unwarmed[p] # <<>> /\ Tail(unwarmed[p]) \in Rests
      BY <1>0, <1>6, NextModuleFacts DEF BuildPasses, WarmInv
    <2> QED
      BY <1>6, <2>1 DEF BuildPasses, sharedVars, Places, Leased
  <1>7. ASSUME NEW p \in Runner, CopySources(p) \/ CloneOne(p) \/ Cloned(p) PROVE Types'
    <2>1. CASE CopySources(p) \/ Cloned(p)
      BY <2>1 DEF CopySources, Cloned, runnerVars, sharedVars, Places, Leased
    <2>2. CASE CloneOne(p)
      BY <2>2 DEF CloneOne, sharedVars
    <2> QED
      BY <1>7, <2>1, <2>2
  <1>8. ASSUME NEW p \in Runner, Prune(p) PROVE Types'
    BY <1>8 DEF Prune, sharedVars, Places, Leased, State
  <1>9. ASSUME NEW p \in Runner, Crash(p) PROVE Types'
    <2>1. pc[p] = "building" => Head(unwarmed[p]) \in PublicModule
      BY <1>0, NextModuleFacts DEF WarmInv
    <2>2. crashes' \in 0 .. CrashMax
      BY <1>9, CacheAssumption DEF Crash
    <2>3. Empty \in [Artifact -> State]
      BY DEF Empty, State
    <2>4. Public \in Rests
      <3>1. Len(Public) \in Nat /\ 1 \in 1 .. Len(Public) + 1
        BY RestFacts
      <3>2. Public = Rest(1)
        BY CacheAssumption DEF Rest
      <3> QED
        BY <3>1, <3>2 DEF Rests
    <2> QED
      BY <1>9, <2>1, <2>2, <2>3, <2>4 DEF Crash, Places, Leased
  <1>10. CASE LakeChecksOut
    BY <1>10 DEF LakeChecksOut, runnerVars
  <1>11. CASE LakeWrites
    BY <1>11 DEF LakeWrites, runnerVars, State
  <1>12. CASE OrphanEnds
    BY <1>12 DEF OrphanEnds, runnerVars
  <1>13. CASE UNCHANGED cacheVars
    BY <1>13 DEF cacheVars
  <1> QED
    BY <1>1, <1>2, <1>3, <1>4, <1>5, <1>6, <1>7, <1>8, <1>9, <1>10, <1>11, <1>12, <1>13
       DEF Next, Step

-----------------------------------------------------------------------------
(* What is warm stays warm.                                                *)

\* Nobody makes a complete artifact incomplete: lake does not write it again.
LEMMA DoneStays ==
  ASSUME Types, WarmInv, [Next]_cacheVars, NEW a \in Artifact, build[a] = "done"
  PROVE  build'[a] = "done"
  <1>1. CASE LakeWrites
    BY <1>1 DEF LakeWrites, Types
  <1>2. ASSUME NEW p \in Runner, Step(p) \/ Crash(p) PROVE build' = build
    BY <1>2 DEF Step, GetLease, FallOpen, Toolchain, Prefetch, Recheck, Fetched, Healthy,
                Unhealthy, BuildPasses, BuildFails, Warmed, CopySources, CloneOne, Cloned, Prune,
                Crash, sharedVars
  <1>3. CASE LakeChecksOut \/ OrphanEnds \/ UNCHANGED cacheVars
    BY <1>3 DEF LakeChecksOut, OrphanEnds, cacheVars
  <1> QED
    BY <1>1, <1>2, <1>3 DEF Next

\* What a runner's warm has shown, apart from the modules that are behind it.
WarmOf(q) ==
  /\ pc[q] \in {"want build", "health", "building"} => unwarmed[q] # <<>>
  /\ pc[q] = "warmed" => unwarmed[q] = <<>>
  /\ outcome[q] = "passed" => \A a \in PublicModule : build[a] = "done"

\* The end of the list is reached only when every module is complete.
LEMMA WarmedAll ==
  ASSUME TypeOK, NEW p \in Runner, Warmed1(p), unwarmed[p] = <<>>
  PROVE  \A a \in PublicModule : build[a] = "done"
  <1>1. Len(unwarmed[p]) = 0
    OBVIOUS
  <1>2. \A i \in 1 .. Len(Public) : build[Public[i]] = "done"
    BY <1>1, RestFacts DEF Warmed1
  <1>3. DOMAIN Public = 1 .. Len(Public)
    BY CacheAssumption
  <1> QED
    BY <1>2, <1>3 DEF PublicModule

\* A list of modules behind a runner grows only by a complete one.
LEMMA Warmed1Step ==
  ASSUME Types, WarmInv, [Next]_cacheVars, NEW q \in Runner
  PROVE  Warmed1(q)'
  <1>0. TypeOK /\ Warmed1(q)
    BY TypesAreTypeOK DEF WarmInv
  <1>1. \A i \in 1 .. Len(Public) : Public[i] \in Artifact
    BY RestFacts DEF Artifact
  <1>2. CASE unwarmed'[q] = unwarmed[q]
    <2> SUFFICES ASSUME NEW i \in 1 .. Len(Public), i + Len(unwarmed[q]) <= Len(Public)
                 PROVE  build'[Public[i]] = "done"
      BY <1>2 DEF Warmed1
    <2>1. build[Public[i]] = "done"
      BY <1>0 DEF Warmed1
    <2> QED
      BY <1>1, <2>1, DoneStays
  <1>3. CASE Crash(q)
    <2>1. unwarmed'[q] = Public
      BY <1>3 DEF Crash, Types
    <2>2. \A i \in 1 .. Len(Public) : ~(i + Len(Public) <= Len(Public))
      BY RestFacts
    <2> QED
      BY <2>1, <2>2 DEF Warmed1
  <1>4. CASE BuildPasses(q)
    <2>1. unwarmed'[q] = Tail(unwarmed[q]) /\ build' = build /\ build[Head(unwarmed[q])] = "done"
      BY <1>4 DEF BuildPasses, Types, sharedVars
    <2>2. unwarmed[q] # <<>>
      BY <1>4 DEF WarmInv, BuildPasses
    <2>3. PICK j \in 1 .. Len(Public) :
            j + Len(unwarmed[q]) = Len(Public) + 1 /\ Head(unwarmed[q]) = Public[j]
      BY <1>0, <2>2, NextModuleFacts
    <2>4. /\ Len(Tail(unwarmed[q])) = Len(unwarmed[q]) - 1
          /\ Len(unwarmed[q]) \in Nat /\ Len(Public) \in Nat
      BY <1>0, <2>2, NextModuleFacts, RestFacts
    <2> SUFFICES ASSUME NEW i \in 1 .. Len(Public), i + Len(Tail(unwarmed[q])) <= Len(Public)
                 PROVE  build[Public[i]] = "done"
      BY <2>1 DEF Warmed1
    <2>5. CASE i = j
      BY <2>1, <2>3, <2>5
    <2>6. CASE i # j
      <3>1. i + Len(unwarmed[q]) <= Len(Public)
        BY <2>3, <2>4, <2>6
      <3> QED
        BY <1>0, <3>1 DEF Warmed1
    <2> QED
      BY <2>5, <2>6
  <1>5. unwarmed'[q] = unwarmed[q] \/ Crash(q) \/ BuildPasses(q)
    <2>1. ASSUME NEW p \in Runner, BuildPasses(p) \/ Crash(p), p # q PROVE unwarmed'[q] = unwarmed[q]
      BY <2>1 DEF BuildPasses, Crash, Types
    <2>2. ASSUME NEW p \in Runner, Step(p), ~BuildPasses(p) PROVE unwarmed' = unwarmed
      BY <2>2 DEF Step, GetLease, FallOpen, Toolchain, Prefetch, Recheck, Fetched, Healthy,
                  Unhealthy, BuildFails, Warmed, CopySources, CloneOne, Cloned, Prune, runnerVars
    <2>3. CASE LakeChecksOut \/ LakeWrites \/ OrphanEnds \/ UNCHANGED cacheVars
      BY <2>3 DEF LakeChecksOut, LakeWrites, OrphanEnds, cacheVars, runnerVars
    <2> QED
      BY <2>1, <2>2, <2>3 DEF Next
  <1> QED
    BY <1>2, <1>3, <1>4, <1>5

\* A warm is called passed only at the end of its list.
LEMMA WarmStep == ASSUME Types, WarmInv, [Next]_cacheVars PROVE WarmInv'
  <1> USE DEF Types, Goto, Leave, WarmOf
  <1>0. TypeOK /\ \A q \in Runner : WarmOf(q)
    BY TypesAreTypeOK DEF WarmInv
  <1> DEFINE Late(q) == outcome[q] = "passed" => \A a \in PublicModule : build'[a] = "done"
  <1>a. \A q \in Runner : Late(q)
    BY DoneStays DEF WarmInv, Artifact
  <1> HIDE DEF Late
  <1> SUFFICES ASSUME NEW q \in Runner PROVE WarmOf(q)'
    BY Warmed1Step DEF WarmInv
  <1>b. Late(q) /\ WarmOf(q)
    BY <1>0, <1>a
  <1> DEFINE Same == pc'[q] = pc[q] /\ unwarmed'[q] = unwarmed[q] /\ outcome'[q] = outcome[q]
  <1>s. CASE Same
    BY <1>b, <1>s DEF Late
  <1>1. ASSUME NEW p \in Runner, GetLease(p) \/ FallOpen(p) PROVE WarmOf(q)'
    <2>1. /\ pc[p] \in {"want get", "want build", "want clone"}
          /\ Enters[pc[p]] = "health" => pc[p] = "want build"
          /\ Enters[pc[p]] \notin {"want build", "building", "warmed"}
      BY <1>1, PlaceSets DEF GetLease, FallOpen, Waits
    <2>2. pc' = [pc EXCEPT ![p] = Enters[pc[p]]] /\ unwarmed' = unwarmed /\ outcome' = outcome
      BY <1>1 DEF GetLease, FallOpen, runnerVars
    <2> QED
      BY <1>b, <2>1, <2>2 DEF Late
  <1>2. ASSUME NEW p \in Runner, Toolchain(p) PROVE WarmOf(q)'
    BY <1>2, <1>b DEF Toolchain, WarmEnds, Late
  <1>3. ASSUME NEW p \in Runner, Warmed(p) PROVE WarmOf(q)'
    <2>1. unwarmed[p] = <<>> /\ Warmed1(p)
      BY <1>3 DEF Warmed, WarmInv
    <2>2. \A a \in PublicModule : build[a] = "done"
      BY <1>0, <2>1, WarmedAll
    <2>3. build' = build
      BY <1>3 DEF Warmed, sharedVars
    <2> QED
      BY <1>3, <1>b, <2>2, <2>3 DEF Warmed, WarmEnds, Late
  <1>4. ASSUME NEW p \in Runner, Prefetch(p) \/ Recheck(p) \/ Healthy(p) PROVE WarmOf(q)'
    BY <1>4, <1>b DEF Prefetch, Recheck, Healthy, NextModule, runnerVars, Late
  <1>5. ASSUME NEW p \in Runner, Fetched(p) PROVE WarmOf(q)'
    BY <1>5, <1>b DEF Fetched, NextModule, runnerVars, Late
  <1>6. ASSUME NEW p \in Runner, Unhealthy(p) \/ BuildFails(p) PROVE WarmOf(q)'
    BY <1>6, <1>b DEF Unhealthy, BuildFails, WarmEnds, Late
  <1>7. ASSUME NEW p \in Runner, BuildPasses(p) PROVE WarmOf(q)'
    BY <1>7, <1>b DEF BuildPasses, Late
  <1>8. ASSUME NEW p \in Runner, CopySources(p) \/ CloneOne(p) \/ Cloned(p) \/ Prune(p)
        PROVE  WarmOf(q)'
    BY <1>8, <1>b DEF CopySources, CloneOne, Cloned, Prune, runnerVars, Late
  <1>9. ASSUME NEW p \in Runner, Crash(p) PROVE WarmOf(q)'
    BY <1>9, <1>b DEF Crash, Late
  <1>10. CASE LakeChecksOut \/ LakeWrites \/ OrphanEnds \/ UNCHANGED cacheVars
    <2>1. Same
      BY <1>10 DEF LakeChecksOut, LakeWrites, OrphanEnds, cacheVars, runnerVars
    <2> QED
      BY <1>s, <2>1
  <1> QED
    BY <1>1, <1>2, <1>3, <1>4, <1>5, <1>6, <1>7, <1>8, <1>9, <1>10 DEF Next, Step

-----------------------------------------------------------------------------
(* What a clone holds.                                                     *)

\* What runner q has copied.
CloneOf(q) ==
  /\ copied[q] # {} => pc[q] \in {"cloning", "prune", "ready"}
  /\ outcome[q] = "passed" => \A a \in copied[q] \cap PublicModule : clone[q][a] = "done"
  /\ pc[q] \in {"prune", "ready"} => copied[q] = Artifact
  /\ pc[q] = "ready" => \A a \in Secret : clone[q][a] = "none"

\* A clone after a passed warm copies complete modules; pruning takes the rest.
LEMMA CloneStep == ASSUME Types, WarmInv, CloneInv, [Next]_cacheVars PROVE CloneInv'
  <1> USE DEF Types, Goto, Leave, CloneOf
  <1> SUFFICES ASSUME NEW q \in Runner PROVE CloneOf(q)'
    BY DEF CloneInv
  <1>a. CloneOf(q)
    BY DEF CloneInv
  <1>1. ASSUME NEW p \in Runner, GetLease(p) \/ FallOpen(p) PROVE CloneOf(q)'
    <2>1. /\ pc[p] \in {"want get", "want build", "want clone"}
          /\ Enters[pc[p]] \notin {"prune", "ready"}
      BY <1>1, PlaceSets DEF GetLease, FallOpen, Waits
    <2>2. /\ pc' = [pc EXCEPT ![p] = Enters[pc[p]]]
          /\ copied' = copied /\ outcome' = outcome /\ clone' = clone
      BY <1>1 DEF GetLease, FallOpen, runnerVars
    <2> QED
      BY <1>a, <2>1, <2>2
  <1>2. ASSUME NEW p \in Runner,
               Toolchain(p) \/ Warmed(p) \/ Unhealthy(p) \/ BuildFails(p) \/ BuildPasses(p)
        PROVE  CloneOf(q)'
    BY <1>2, <1>a, ZenonT(40) DEF Toolchain, Warmed, Unhealthy, BuildFails, BuildPasses, WarmEnds
  <1>3. ASSUME NEW p \in Runner,
               Prefetch(p) \/ Recheck(p) \/ Healthy(p) \/ Fetched(p) \/ CopySources(p)
        PROVE  CloneOf(q)'
    BY <1>3, <1>a DEF Prefetch, Recheck, Healthy, Fetched, CopySources, NextModule, runnerVars
  <1>4. ASSUME NEW p \in Runner, CloneOne(p) PROVE CloneOf(q)'
    <2>1. PICK a \in Artifact \ copied[p] :
            /\ copied' = [copied EXCEPT ![p] = @ \cup {a}]
            /\ clone' = [clone EXCEPT ![p][a] = build[a]]
      BY <1>4 DEF CloneOne
    <2>2. pc' = pc /\ outcome' = outcome /\ pc[p] = "cloning"
      BY <1>4 DEF CloneOne
    <2>3. outcome[q] = "passed" /\ a \in PublicModule => build[a] = "done"
      BY DEF WarmInv
    <2> QED
      BY <1>a, <2>1, <2>2, <2>3
  <1>5. ASSUME NEW p \in Runner, Cloned(p) PROVE CloneOf(q)'
    BY <1>5, <1>a DEF Cloned, runnerVars
  <1>6. ASSUME NEW p \in Runner, Prune(p) PROVE CloneOf(q)'
    <2>1. \A a \in PublicModule : Sourced(a) /\ a \in Artifact
      BY CacheAssumption DEF Sourced, Artifact
    <2>2. \A a \in Secret : ~Sourced(a) /\ a \in Artifact
      BY DEF Sourced, Artifact
    <2> QED
      BY <1>6, <1>a, <2>1, <2>2 DEF Prune
  <1>7. ASSUME NEW p \in Runner, Crash(p) PROVE CloneOf(q)'
    BY <1>7, <1>a DEF Crash
  <1>8. CASE LakeChecksOut \/ LakeWrites \/ OrphanEnds \/ UNCHANGED cacheVars
    BY <1>8, <1>a DEF LakeChecksOut, LakeWrites, OrphanEnds, cacheVars, runnerVars
  <1> QED
    BY <1>1, <1>2, <1>3, <1>4, <1>5, <1>6, <1>7, <1>8 DEF Next, Step

-----------------------------------------------------------------------------
(* Who is in the cache.                                                    *)

\* That a leased section is in its holder's hands.
HeldInv == ~open => orphans = {} /\ \A p \in Runner : pc[p] \in Leased => p \in holders

\* The lease is given to no more than Cap runners.
LEMMA HoldersStep ==
  ASSUME Types, [Next]_cacheVars, IsFiniteSet(holders), Cardinality(holders) <= Cap
  PROVE  IsFiniteSet(holders)' /\ Cardinality(holders)' <= Cap
  <1>0. Cardinality(holders) \in Nat /\ Cap \in Nat
    BY FS_CardinalityType, CacheAssumption
  <1>1. ASSUME NEW p \in Runner, GetLease(p)
        PROVE  IsFiniteSet(holders)' /\ Cardinality(holders)' <= Cap
    <2>1. holders' = holders \cup {p} /\ Cardinality(holders) < Cap
      BY <1>1 DEF GetLease
    <2>2. /\ IsFiniteSet(holders \cup {p})
          /\ Cardinality(holders \cup {p}) = Cardinality(holders)
             \/ Cardinality(holders \cup {p}) = Cardinality(holders) + 1
      BY FS_AddElement
    <2> QED
      BY <1>0, <2>1, <2>2
  <1>2. CASE \E p \in Runner : holders' = holders \ {p}
    <2>1. PICK p \in Runner : holders' = holders \ {p}
      BY <1>2
    <2>2. /\ IsFiniteSet(holders \ {p})
          /\ Cardinality(holders \ {p}) = Cardinality(holders)
             \/ Cardinality(holders \ {p}) = Cardinality(holders) - 1
      BY FS_RemoveElement
    <2> QED
      BY <1>0, <2>1, <2>2
  <1>3. CASE holders' = holders
    BY <1>3
  <1>4. ASSUME NEW p \in Runner, Step(p) \/ Crash(p), ~GetLease(p)
        PROVE  holders' = holders \/ \E r \in Runner : holders' = holders \ {r}
    BY <1>4 DEF Step, FallOpen, Toolchain, Prefetch, Recheck, Fetched, Healthy, Unhealthy,
                BuildPasses, BuildFails, Warmed, CopySources, CloneOne, Cloned, Prune, Crash, Leave
  <1>5. CASE LakeChecksOut \/ LakeWrites \/ OrphanEnds \/ UNCHANGED cacheVars
    BY <1>3, <1>5 DEF LakeChecksOut, LakeWrites, OrphanEnds, cacheVars
  <1> QED
    BY <1>1, <1>2, <1>3, <1>4, <1>5 DEF Next

\* A runner enters a section with the lease, or the cache counts as open.
LEMMA HeldStep == ASSUME Types, HeldInv, [Next]_cacheVars PROVE HeldInv'
  <1> USE DEF Types, Goto, Leave, HeldInv, Leased
  <1>1. ASSUME NEW p \in Runner, GetLease(p) PROVE HeldInv'
    BY <1>1 DEF GetLease, sharedVars
  <1>2. ASSUME NEW p \in Runner, FallOpen(p) PROVE HeldInv'
    BY <1>2 DEF FallOpen
  <1>3. ASSUME NEW p \in Runner,
               Toolchain(p) \/ Warmed(p) \/ Unhealthy(p) \/ BuildFails(p) \/ BuildPasses(p)
        PROVE  HeldInv'
    BY <1>3 DEF Toolchain, Warmed, Unhealthy, BuildFails, BuildPasses, WarmEnds, sharedVars
  <1>4. ASSUME NEW p \in Runner, Prefetch(p) \/ Recheck(p) \/ Healthy(p) \/ CopySources(p)
        PROVE  HeldInv'
    BY <1>4 DEF Prefetch, Recheck, Healthy, CopySources, NextModule, sharedVars
  <1>5. ASSUME NEW p \in Runner, Fetched(p) PROVE HeldInv'
    BY <1>5 DEF Fetched, NextModule
  <1>6. ASSUME NEW p \in Runner, CloneOne(p) \/ Cloned(p) \/ Prune(p) PROVE HeldInv'
    BY <1>6 DEF CloneOne, Cloned, Prune, sharedVars
  <1>7. ASSUME NEW p \in Runner, Crash(p) PROVE HeldInv'
    BY <1>7 DEF Crash
  <1>8. CASE LakeChecksOut \/ LakeWrites \/ OrphanEnds \/ UNCHANGED cacheVars
    BY <1>8 DEF LakeChecksOut, LakeWrites, OrphanEnds, cacheVars
  <1> QED
    BY <1>1, <1>2, <1>3, <1>4, <1>5, <1>6, <1>7, <1>8 DEF Next, Step

\* The sentinel is written after a complete fetch and checkouts stay whole.
LEMMA SentinelStep == ASSUME SentinelIsTrue, [Next]_cacheVars PROVE SentinelIsTrue'
  <1> USE DEF SentinelIsTrue
  <1>1. ASSUME NEW p \in Runner, Fetched(p) PROVE SentinelIsTrue'
    <2>1. PICK ended \in {"complete", "failed", "killed"} :
            /\ ended = "complete" => checkout = "whole"
            /\ fetched' = (fetched \/ ended = "complete")
            /\ sentinel' = (sentinel \/ ended = "complete")
      BY <1>1 DEF Fetched, FetchPasses
    <2>2. checkout' = checkout
      BY <1>1 DEF Fetched
    <2> QED
      BY <2>1, <2>2
  <1> DEFINE Same == sentinel' = sentinel /\ fetched' = fetched /\ checkout' = checkout
  <1>2. ASSUME Same PROVE SentinelIsTrue'
    BY <1>2
  <1>3. ASSUME NEW p \in Runner, Step(p), ~Fetched(p) PROVE Same
    BY <1>3 DEF Step, GetLease, FallOpen, Toolchain, Prefetch, Recheck, Healthy, Unhealthy,
                BuildPasses, BuildFails, Warmed, CopySources, CloneOne, Cloned, Prune, sharedVars
  <1>4. ASSUME NEW p \in Runner, Crash(p) PROVE Same
    BY <1>4 DEF Crash
  <1>5. CASE LakeChecksOut
    BY <1>5 DEF LakeChecksOut
  <1>6. CASE LakeWrites \/ OrphanEnds \/ UNCHANGED cacheVars
    BY <1>6 DEF LakeWrites, OrphanEnds, cacheVars
  <1> QED
    BY <1>1, <1>2, <1>3, <1>4, <1>5, <1>6 DEF Next

-----------------------------------------------------------------------------
(* The theorems.                                                           *)

\* Nothing is held, copied or warm in the beginning.
LEMMA InitInv == Init => CacheInv
  <1> SUFFICES ASSUME Init PROVE CacheInv
    OBVIOUS
  <1> USE DEF Init
  <1>1. Types
    <2>1. Public \in Rests
      <3>1. Len(Public) \in Nat /\ 1 \in 1 .. Len(Public) + 1
        BY RestFacts
      <3>2. Public = Rest(1)
        BY CacheAssumption DEF Rest
      <3> QED
        BY <3>1, <3>2 DEF Rests
    <2>2. Empty \in [Artifact -> State]
      BY DEF Empty, State
    <2>3. 0 \in 0 .. CrashMax
      BY CacheAssumption
    <2> QED
      BY <2>1, <2>2, <2>3 DEF Types, Places, State
  <1>2. LeaseInv
    BY FS_EmptySet, CacheAssumption DEF LeaseInv, Leased
  <1>3. WarmInv
    <2>1. \A i \in 1 .. Len(Public) : ~(i + Len(Public) <= Len(Public))
      BY RestFacts
    <2> QED
      BY <2>1 DEF WarmInv, Warmed1
  <1>4. CloneInv /\ SentinelIsTrue
    BY DEF CloneInv, SentinelIsTrue
  <1> QED
    BY <1>1, <1>2, <1>3, <1>4, TypesAreTypeOK DEF CacheInv

\* The type invariant after a step.
LEMMA TypesAreTypeOKAfter == Types' => TypeOK'
  BY PlaceSets DEF TypeOK, Types, Rests, Rest

\* The inductive invariant: who holds the lease, what each warm has shown, what
\* each clone holds (setup_private_lake, prewarm_dependencies).
THEOREM CacheInvariance == Spec => []CacheInv
  <1>1. Init => CacheInv
    BY InitInv
  <1>2. CacheInv /\ [Next]_cacheVars => CacheInv'
    <2> SUFFICES ASSUME CacheInv, [Next]_cacheVars PROVE CacheInv'
      OBVIOUS
    <2>1. Types
      BY TypesAreTypeOK DEF CacheInv
    <2>2. Types' /\ TypeOK'
      BY <2>1, TypeStep, TypesAreTypeOKAfter DEF CacheInv
    <2>3. WarmInv' /\ CloneInv' /\ SentinelIsTrue'
      BY <2>1, WarmStep, CloneStep, SentinelStep DEF CacheInv
    <2>4. LeaseInv'
      BY <2>1, HoldersStep, HeldStep DEF CacheInv, LeaseInv, HeldInv
    <2> QED
      BY <2>2, <2>3, <2>4 DEF CacheInv
  <1> QED
    BY <1>1, <1>2, PTL DEF Spec

\* Every workspace is warm if its warm passed and holds no hidden artifact, for
\* any number of runners, modules and kills (build_group_workspace).
THEOREM WorkspacesAreSound == Spec => []WorkspaceIsSound
  <1>1. CacheInv => WorkspaceIsSound
    <2> SUFFICES ASSUME CacheInv PROVE WorkspaceIsSound
      OBVIOUS
    <2>1. PublicModule \subseteq Artifact
      BY DEF Artifact
    <2> QED
      BY <2>1 DEF CacheInv, CloneInv, WorkspaceIsSound, WorkspaceIsWarm, NoHiddenArtifact
  <1> QED
    BY <1>1, CacheInvariance, PTL

\* The sentinel promises a complete Mathlib cache, whoever was killed
\* (_prefetch_mathlib_cache).
THEOREM SentinelHolds == Spec => []SentinelIsTrue
  <1>1. CacheInv => SentinelIsTrue
    BY DEF CacheInv
  <1> QED
    BY <1>1, CacheInvariance, PTL

\* With one lease, the default, nobody builds while a runner clones, unless a
\* section went without the lease or outlived its runner (setup_private_lake).
THEOREM CacheIsUsedAlone == ASSUME Cap = 1 PROVE Spec => []CacheIsShared
  <1>1. CacheInv => CacheIsShared
    <2> SUFFICES ASSUME CacheInv PROVE CacheIsShared
      OBVIOUS
    <2>1. ASSUME NEW p \in Runner, NEW q \in Runner, p \in holders, q \in holders PROVE p = q
      <3>1. IsFiniteSet(holders) /\ Cardinality(holders) <= 1
        BY DEF CacheInv, LeaseInv
      <3>2. CASE p # q
        <4>1. IsFiniteSet({p, q}) /\ Cardinality({p, q}) = 2
          <5>1. IsFiniteSet({q}) /\ Cardinality({q}) = 1
            BY FS_Singleton
          <5>2. p \notin {q} /\ {p, q} = {q} \cup {p}
            BY <3>2
          <5>3. /\ IsFiniteSet({q} \cup {p})
                /\ Cardinality({q} \cup {p}) =
                     IF p \in {q} THEN Cardinality({q}) ELSE Cardinality({q}) + 1
            BY <5>1, FS_AddElement, Zenon
          <5> QED
            BY <5>1, <5>2, <5>3
        <4>2. {p, q} \subseteq holders
          BY <2>1
        <4>3. Cardinality({p, q}) <= Cardinality(holders)
          BY <3>1, <4>2, FS_Subset
        <4>4. Cardinality(holders) \in Nat
          BY <3>1, FS_CardinalityType
        <4> QED
          BY <3>1, <4>1, <4>3, <4>4
      <3> QED
        BY <3>2
    <2>2. CloneUndisturbed
      BY <2>1 DEF CacheInv, LeaseInv, CloneUndisturbed, Leased
    <2> QED
      BY <2>2 DEF CacheInv, CacheIsShared
  <1> QED
    BY <1>1, CacheInvariance, PTL


-----------------------------------------------------------------------------
(* One completion.                                                         *)

\* What a completion has cost, by where it is; a rejection is paid once.
CostInv ==
  /\ call.at = "idle" => call.exchanges = 0
  /\ call.at \notin {"idle", "returned"} => call.attempt >= 1
  /\ call.at = "send" => call.exchanges + 1 <= call.attempt + rejections
  /\ call.at = "again" => rejections = 1 /\ call.exchanges <= call.attempt
  /\ call.at \in {"sleep", "returned"} => call.exchanges <= call.attempt + rejections
  /\ call.at = "sleep" => call.attempt < MaxAttempts

ChatInv ==
  ChatTypeOK /\ CostInv /\ RejectionLearned /\ TransientIsRetried /\ (rejections = 1 => fallback)

\* What the rest of the program does with the transport.
ChatNext ==
  \/ \E role \in Role, api \in {"chat", "responses"} : Begin(role, api)
  \/ \E role \in Role : BeginAfterReset(role) \/ Keyless(role)
  \/ Take \/ ChatStep

Errors == [kind : {"none", "transport_error", "http_transient", "invalid_response", "fatal",
                   "provider_setup_error"},
           transient : BOOLEAN]

\* A completion by its fields.
Completion(where, role, api, attempt, exchanges, error) ==
  [at |-> where, role |-> role, api |-> api, attempt |-> attempt, exchanges |-> exchanges,
   error |-> error]

\* The types of the fields.
LEMMA CallFields ==
  ASSUME ChatTypeOK
  PROVE  \E where \in {"idle", "send", "again", "sleep", "returned"}, role \in Role,
            api \in {"chat", "responses"}, attempt \in 0 .. MaxAttempts, exchanges \in Nat,
            error \in Errors :
           call = Completion(where, role, api, attempt, exchanges, error)
  BY DEF ChatTypeOK, Completion, Errors

\* What the invariant says of the fields of a completion after some rejections.
Sound(where, role, api, attempt, exchanges, error, rejected) ==
  /\ where \in {"idle", "send", "again", "sleep", "returned"} /\ role \in Role
  /\ api \in {"chat", "responses"} /\ attempt \in 0 .. MaxAttempts
  /\ exchanges \in Nat /\ error \in Errors
  /\ where = "idle" => exchanges = 0
  /\ where \notin {"idle", "returned"} => attempt >= 1
  /\ where = "send" => exchanges + 1 <= attempt + rejected
  /\ where = "again" => rejected = 1 /\ exchanges <= attempt
  /\ where \in {"sleep", "returned"} => exchanges <= attempt + rejected
  /\ where = "sleep" => attempt < MaxAttempts
  /\ where = "returned" /\ api = "chat" /\ error.transient => attempt = MaxAttempts

\* The switch that all completions share.
Switch ==
  /\ accepts \in [Role -> BOOLEAN] /\ fallback \in BOOLEAN /\ rejections \in Nat
  /\ rejections <= 1 /\ (rejections = 1 => fallback)

\* They are the invariant.
LEMMA Rebuilt ==
  ASSUME NEW where, NEW role, NEW api, NEW attempt, NEW exchanges, NEW error,
         call' = Completion(where, role, api, attempt, exchanges, error),
         Sound(where, role, api, attempt, exchanges, error, rejections'), Switch'
  PROVE  ChatInv'
  <1> USE DEF Sound, Switch
  <1>1. /\ call'.at = where /\ call'.role = role /\ call'.api = api /\ call'.attempt = attempt
        /\ call'.exchanges = exchanges /\ call'.error = error
    BY DEF Completion
  <1>2. call' \in [at : {"idle", "send", "again", "sleep", "returned"}, role : Role,
                   api : {"chat", "responses"}, attempt : 0 .. MaxAttempts, exchanges : Nat,
                   error : Errors]
    BY DEF Completion
  <1>3. ChatTypeOK'
    BY <1>2 DEF ChatTypeOK, Errors
  <1>4. CostInv'
    BY <1>1 DEF CostInv
  <1>5. RejectionLearned' /\ TransientIsRetried'
    BY <1>1 DEF RejectionLearned, TransientIsRetried, Returned
  <1> QED
    BY <1>3, <1>4, <1>5 DEF ChatInv

\* The invariant gives them back.
LEMMA Taken ==
  ASSUME ChatInv
  PROVE  /\ Switch
         /\ \E where, role, api, attempt, exchanges, error :
              /\ call = Completion(where, role, api, attempt, exchanges, error)
              /\ call.at = where /\ call.role = role /\ call.api = api /\ call.attempt = attempt
              /\ call.exchanges = exchanges /\ call.error = error
              /\ Sound(where, role, api, attempt, exchanges, error, rejections)
  <1>1. Switch
    BY DEF Switch, ChatInv, ChatTypeOK, RejectionLearned
  <1>2. PICK where \in {"idle", "send", "again", "sleep", "returned"}, role \in Role,
            api \in {"chat", "responses"}, attempt \in 0 .. MaxAttempts, exchanges \in Nat,
            error \in Errors :
           call = Completion(where, role, api, attempt, exchanges, error)
    BY CallFields DEF ChatInv
  <1>3. /\ call.at = where /\ call.role = role /\ call.api = api /\ call.attempt = attempt
        /\ call.exchanges = exchanges /\ call.error = error
    BY <1>2 DEF Completion
  <1>4. Sound(where, role, api, attempt, exchanges, error, rejections)
    BY <1>3 DEF Sound, ChatInv, CostInv, TransientIsRetried, Returned
  <1> QED
    BY <1>1, <1>2, <1>3, <1>4

\* A new call starts its first attempt.
LEMMA BeginFacts ==
  ASSUME NEW role \in Role, NEW api \in {"chat", "responses"},
         call' = [NoCall EXCEPT !.at = "send", !.role = role, !.api = api, !.attempt = 1],
         Switch'
  PROVE  ChatInv'
  <1>1. call' = Completion("send", role, api, 1, 0, NoError)
    BY DEF NoCall, Completion
  <1>2. Sound("send", role, api, 1, 0, NoError, rejections')
    BY ChatRequestAssumption DEF Sound, NoError, Errors, Switch
  <1> QED
    BY <1>1, <1>2, Rebuilt

\* The caller takes what came back.
LEMMA TakeFacts == ASSUME ChatInv, Take PROVE ChatInv'
  <1>1. call' = Completion("idle", "driver", "chat", 0, 0, NoError)
    BY DEF Take, NoCall, Completion
  <1>2. Sound("idle", "driver", "chat", 0, 0, NoError, rejections')
    BY ChatRequestAssumption DEF Sound, NoError, Errors, Role
  <1>3. Switch'
    BY Taken DEF Take, Switch
  <1> QED
    BY <1>1, <1>2, <1>3, Rebuilt

\* An exchange that is not rejected, first or repeated.
LEMMA SettledFacts ==
  ASSUME ChatInv, NEW stream \in BOOLEAN, NEW result \in Exchanged(stream), result # "rejected",
         call.at \in {"send", "again"}, call' = Settled(result),
         UNCHANGED <<accepts, fallback, rejections>>
  PROVE  ChatInv'
  <1>1. PICK where, role, api, attempt, exchanges, error :
          /\ call = Completion(where, role, api, attempt, exchanges, error)
          /\ call.at = where /\ call.role = role /\ call.api = api /\ call.attempt = attempt
          /\ call.exchanges = exchanges /\ call.error = error
          /\ Sound(where, role, api, attempt, exchanges, error, rejections)
    BY Taken
  <1>2. Switch'
    BY Taken DEF Switch
  <1>3. /\ result \in {"transient", "network", "fatal", "response", "cut"}
        /\ result = "cut" => api = "responses"
    <2>1. api \in {"chat", "responses"} /\ call.api = api
      BY <1>1 DEF Sound
    <2>2. result \in Failures \/ \E ended : result = Decoded(ended)
      BY DEF Exchanged
    <2> QED
      BY <2>1, <2>2 DEF Decoded, Failures
  <1>4. Error(result) \in Errors /\ NoError \in Errors /\ NoError.transient = FALSE
    BY <1>3 DEF Error, Errors, NoError
  <1>5. /\ role \in Role /\ api \in {"chat", "responses"} /\ exchanges + 1 \in Nat
        /\ attempt \in 0 .. MaxAttempts /\ attempt >= 1 /\ MaxAttempts \in Nat
        /\ exchanges + 1 <= attempt + rejections'
    BY <1>1, <1>2, ChatRequestAssumption DEF Sound, Switch
  <1> DEFINE done == [call EXCEPT !.exchanges = @ + 1]
  <1>6. done = Completion(where, role, api, attempt, exchanges + 1, error)
    BY <1>1 DEF Completion
  <1>7. CASE result = "response"
    <2>1. call' = [done EXCEPT !.at = "returned", !.error = NoError]
      BY <1>7 DEF Settled
    <2> HIDE DEF done
    <2>2. call' = Completion("returned", role, api, attempt, exchanges + 1, NoError)
      BY <1>6, <2>1 DEF Completion
    <2>3. Sound("returned", role, api, attempt, exchanges + 1, NoError, rejections')
      BY <1>4, <1>5 DEF Sound
    <2> QED
      BY <1>2, <2>2, <2>3, Rebuilt
  <1>8. CASE result # "response" /\ result # "cut" /\ Retries(Error(result))
    <2>1. call' = [done EXCEPT !.error = Error(result), !.at = "sleep"]
      BY <1>8 DEF Settled
    <2> HIDE DEF done
    <2>2. call' = Completion("sleep", role, api, attempt, exchanges + 1, Error(result))
      BY <1>6, <2>1 DEF Completion
    <2>3. attempt < MaxAttempts
      BY <1>1, <1>8 DEF Retries
    <2>4. Sound("sleep", role, api, attempt, exchanges + 1, Error(result), rejections')
      BY <1>4, <1>5, <2>3 DEF Sound
    <2> QED
      BY <1>2, <2>2, <2>4, Rebuilt
  <1>9. CASE result # "response" /\ (result = "cut" \/ ~Retries(Error(result)))
    <2>1. call' = [done EXCEPT !.error = Error(result), !.at = "returned"]
      BY <1>9 DEF Settled
    <2> HIDE DEF done
    <2>2. call' = Completion("returned", role, api, attempt, exchanges + 1, Error(result))
      BY <1>6, <2>1 DEF Completion
    <2>3. api = "chat" /\ Error(result).transient => ~(attempt < MaxAttempts)
      BY <1>1, <1>3, <1>9 DEF Retries
    <2>4. Sound("returned", role, api, attempt, exchanges + 1, Error(result), rejections')
      BY <1>4, <1>5, <2>3 DEF Sound
    <2> QED
      BY <1>2, <2>2, <2>4, Rebuilt
  <1> QED
    BY <1>7, <1>8, <1>9

\* A rejection turns streaming off, so no other follows it.
LEMMA RejectFacts ==
  ASSUME ChatInv, call.at = "send", StreamingAllowed, Reject
  PROVE  ChatInv'
  <1>1. PICK where, role, api, attempt, exchanges, error :
          /\ call = Completion(where, role, api, attempt, exchanges, error)
          /\ call.at = where /\ call.role = role /\ call.api = api /\ call.attempt = attempt
          /\ call.exchanges = exchanges /\ call.error = error
          /\ Sound(where, role, api, attempt, exchanges, error, rejections)
    BY Taken
  <1>2. rejections = 0
    BY Taken DEF Switch, StreamingAllowed
  <1>3. Switch' /\ rejections' = 1
    BY <1>2, Taken DEF Switch, Reject
  <1>4. call' = [call EXCEPT !.at = "again", !.exchanges = @ + 1]
    BY DEF Reject
  <1>5. call' = Completion("again", role, api, attempt, exchanges + 1, error)
    BY <1>1, <1>4 DEF Completion
  <1>6. Sound("again", role, api, attempt, exchanges + 1, error, rejections')
    BY <1>1, <1>2, <1>3, ChatRequestAssumption DEF Sound
  <1> QED
    BY <1>3, <1>5, <1>6, Rebuilt

\* The next attempt.
LEMMA BackOffFacts == ASSUME ChatInv, BackOff PROVE ChatInv'
  <1>1. PICK where, role, api, attempt, exchanges, error :
          /\ call = Completion(where, role, api, attempt, exchanges, error)
          /\ call.at = where /\ call.role = role /\ call.api = api /\ call.attempt = attempt
          /\ call.exchanges = exchanges /\ call.error = error
          /\ Sound(where, role, api, attempt, exchanges, error, rejections)
    BY Taken
  <1>2. Switch' /\ rejections' = rejections /\ rejections \in Nat
    BY Taken DEF BackOff, Switch
  <1>3. call' = [call EXCEPT !.at = "send", !.attempt = @ + 1, !.error = NoError]
    BY DEF BackOff
  <1>4. call' = Completion("send", role, api, attempt + 1, exchanges, NoError)
    BY <1>1, <1>3 DEF Completion
  <1>5. where = "sleep"
    BY <1>1 DEF BackOff
  <1>6. attempt + 1 \in 0 .. MaxAttempts /\ exchanges + 1 <= (attempt + 1) + rejections
        /\ attempt + 1 >= 1
    BY <1>1, <1>2, <1>5, ChatRequestAssumption DEF Sound
  <1>7. Sound("send", role, api, attempt + 1, exchanges, NoError, rejections')
    BY <1>1, <1>2, <1>6 DEF Sound, NoError, Errors
  <1> QED
    BY <1>2, <1>4, <1>7, Rebuilt

\* Whatever the program asks of the transport.
LEMMA ChatStepFacts == ASSUME ChatInv, ChatNext \/ UNCHANGED chatVars PROVE ChatInv'
  <1>1. ASSUME NEW role \in Role, NEW api \in {"chat", "responses"}, Begin(role, api)
        PROVE  ChatInv'
    <2>1. Switch'
      BY <1>1, Taken DEF Begin, Switch
    <2> QED
      BY <1>1, <2>1, BeginFacts DEF Begin
  <1>2. ASSUME NEW role \in Role, BeginAfterReset(role) PROVE ChatInv'
    <2>1. call' = [NoCall EXCEPT !.at = "send", !.role = role, !.attempt = 1]
      BY <1>2 DEF BeginAfterReset
    <2>2. Completion("send", role, "chat", 1, 0, NoError) = call'
      BY <2>1 DEF NoCall, Completion
    <2>3. Sound("send", role, "chat", 1, 0, NoError, rejections')
      BY <1>2, ChatRequestAssumption DEF Sound, NoError, Errors, BeginAfterReset
    <2>4. Switch'
      <3>1. ResetFallback \in BOOLEAN /\ fallback' = ResetFallback
        BY <1>2, Taken, ChatRequestAssumption DEF BeginAfterReset, ResetFallback, Switch
      <3>2. accepts' \in [Role -> BOOLEAN] /\ rejections' = 0
        BY <1>2, Taken DEF BeginAfterReset, Switch
      <3> QED
        BY <3>1, <3>2 DEF Switch
    <2> QED
      BY <2>2, <2>3, <2>4, Rebuilt
  <1>3. ASSUME NEW role \in Role, Keyless(role) PROVE ChatInv'
    <2>1. PICK error : error = [kind |-> "provider_setup_error", transient |-> FALSE]
      OBVIOUS
    <2>2. Completion("returned", role, "responses", 0, 0, error) = call'
      BY <1>3, <2>1 DEF Keyless, NoCall, Completion
    <2>3. Sound("returned", role, "responses", 0, 0, error, rejections')
      BY <1>3, <2>1, Taken, ChatRequestAssumption DEF Sound, Errors, Keyless, Switch
    <2>4. Switch'
      BY <1>3, Taken DEF Keyless, Switch
    <2> QED
      BY <2>2, <2>3, <2>4, Rebuilt
  <1>4. CASE Exchange
    <2> DEFINE stream == IF call.api = "chat" THEN StreamingAllowed ELSE Streaming
    <2>1. stream \in BOOLEAN
      BY ChatRequestAssumption DEF StreamingAllowed, ChatInv, ChatTypeOK
    <2>2. PICK result \in Exchanged(stream) :
            \/ result = "rejected" /\ Reject
            \/ /\ result # "rejected"
               /\ call' = Settled(result)
               /\ UNCHANGED <<accepts, fallback, rejections>>
      BY <1>4 DEF Exchange
    <2>3. call.at = "send"
      BY <1>4 DEF Exchange
    <2>4. CASE result = "rejected" /\ Reject
      <3>1. call.api # "responses" /\ stream
        BY <2>2, <2>4 DEF Exchanged, Decoded, Failures
      <3>2. call.api = "chat"
        BY <3>1 DEF ChatInv, ChatTypeOK
      <3> QED
        BY <2>3, <2>4, <3>1, <3>2, RejectFacts
    <2>5. CASE result # "rejected"
      <3> HIDE DEF stream
      <3> QED
        BY <2>1, <2>2, <2>3, <2>5, SettledFacts
    <2> QED
      BY <2>2, <2>4, <2>5
  <1>5. CASE ExchangeAgain
    <2>1. PICK result \in Exchanged(FALSE) : call' = Settled(result)
      BY <1>5 DEF ExchangeAgain
    <2>2. result # "rejected"
      BY DEF Exchanged, Decoded, Failures
    <2>3. call.at = "again" /\ UNCHANGED <<accepts, fallback, rejections>>
      BY <1>5 DEF ExchangeAgain
    <2> QED
      BY <2>1, <2>2, <2>3, SettledFacts
  <1>6. CASE UNCHANGED chatVars
    BY <1>6 DEF chatVars, ChatInv, ChatTypeOK, CostInv, RejectionLearned, TransientIsRetried, Returned
  <1> QED
    BY <1>1, <1>2, <1>3, <1>4, <1>5, <1>6, TakeFacts, BackOffFacts DEF ChatNext, ChatStep

-----------------------------------------------------------------------------
(* The Lean server.                                                        *)

\* The server has opened each file as it is now, or not at all.
Current == \A t \in Task : view[t] \in {0, disk[t]}

\* The client waits for the latest request, and asks no server that has an old file.
McpInv ==
  /\ McpTypeOK
  /\ asked # NoRequest => asked.id = lastId /\ reply = NoReply /\ asked.for # "none"
  /\ reply.how = "result" => reply.id = lastId /\ ~changed
  /\ asked.for = "call" => ~changed
  /\ ~changed \/ asked.for \in {"initialize", "list"} => Current
  /\ reply.how = "started" => proc # "none"

\* Where a session may be used.
Using == {"preflight", "probing", "tasks", "turn", "driving", "acting", "looking", "drafting"}

\* The session as the run uses it.
SessionInv ==
  /\ asked # NoRequest \/ reply # NoReply => at \in {"starting", "looking"}
  /\ at \in Using =>
       /\ proc = "none" => changed
       /\ asked.for \in {"initialize", "list"} => changed
  /\ NeverUsedClosed
  /\ task \in Task \cup {"none"} /\ todo \subseteq Task

\* A request is sent: it is the latest, and nothing was told to the caller yet.
LEMMA SendFacts ==
  ASSUME McpInv, NEW for \in {"list", "call"}, NEW t \in Task \cup {"none"}, Send(for, t),
         UNCHANGED <<disk, view>>, proc' \in {"none", "live", "exited"}, reply' = NoReply,
         changed' \in BOOLEAN, for = "call" => ~changed', Current
  PROVE  McpInv'
  <1> DEFINE request == [id |-> lastId + 1, for |-> for, task |-> t]
  <1>1. /\ lastId' = lastId + 1 /\ asked' = request /\ computing' = computing \cup {request}
        /\ lastId \in Nat
    BY DEF Send, McpInv, McpTypeOK
  <1>2. /\ asked'.for = for /\ asked'.id = lastId'
        /\ asked' \in [id : Nat, for : {"none", "initialize", "list", "call"},
                       task : Task \cup {"none"}]
        /\ request \in [id : 1 .. lastId', for : {"initialize", "list", "call"},
                        task : Task \cup {"none"}]
    BY <1>1
  <1>3. [id : 1 .. lastId, for : {"initialize", "list", "call"}, task : Task \cup {"none"}]
          \subseteq [id : 1 .. lastId', for : {"initialize", "list", "call"},
                     task : Task \cup {"none"}]
    BY <1>1
  <1> HIDE DEF request
  <1>4. reply'.how = "none"
    BY DEF NoReply
  <1>5. McpTypeOK'
    BY <1>1, <1>2, <1>3, <1>4 DEF McpInv, McpTypeOK
  <1> QED
    BY <1>2, <1>4, <1>5 DEF McpInv, Current

\* A new server has opened nothing.
LEMMA LaunchFacts ==
  ASSUME McpInv, reply = NoReply, NEW t \in Task \cup {"none"}, Launch(t)
  PROVE  McpInv'
  <1> DEFINE request == [id |-> lastId + 1, for |-> "initialize", task |-> t]
  <1>1. /\ lastId' = lastId + 1 /\ asked' = request /\ computing' = {request}
        /\ lastId \in Nat /\ proc' = "live" /\ changed' = changed /\ reply' = NoReply
        /\ view' = [u \in Task |-> 0] /\ disk' = disk
    BY DEF Launch, McpInv, McpTypeOK, FlagAtLaunch
  <1>2. /\ asked'.for = "initialize" /\ asked'.id = lastId'
        /\ asked' \in [id : Nat, for : {"none", "initialize", "list", "call"},
                       task : Task \cup {"none"}]
        /\ request \in [id : 1 .. lastId', for : {"initialize", "list", "call"},
                        task : Task \cup {"none"}]
    BY <1>1
  <1> HIDE DEF request
  <1>3. reply'.how = "none"
    BY <1>1 DEF NoReply
  <1>4. McpTypeOK' /\ Current'
    BY <1>1, <1>2, <1>3 DEF McpInv, McpTypeOK, Current
  <1> QED
    BY <1>1, <1>2, <1>3, <1>4 DEF McpInv

\* A request ends, or never started, and the caller is told how.
LEMMA EndFacts ==
  ASSUME McpInv, UNCHANGED <<lastId, computing, disk, view>>, asked' = NoRequest,
         proc' \in {"none", "live", "exited"}, changed' \in BOOLEAN, ~changed' => Current,
         reply'.how \in {"none", "started", "result", "error", "transport", "not running"},
         reply'.how = "result" => reply'.id = lastId /\ ~changed',
         reply'.how = "started" => proc' # "none"
  PROVE  McpInv'
  <1>1. /\ asked'.for = "none"
        /\ asked' \in [id : Nat, for : {"none", "initialize", "list", "call"},
                       task : Task \cup {"none"}]
    BY DEF NoRequest
  <1>2. McpTypeOK'
    BY <1>1 DEF McpInv, McpTypeOK
  <1> QED
    BY <1>1, <1>2 DEF McpInv, Current

\* What a session that is free may be asked to do.
LEMMA CallFacts ==
  ASSUME McpInv, McpFree, NEW t \in Task \cup {"none"}, McpStart \/ CallTool(t)
  PROVE  McpInv'
  <1>0. /\ asked = NoRequest /\ reply = NoReply /\ asked.for = "none"
        /\ proc \in {"none", "live", "exited"} /\ changed \in BOOLEAN /\ (~changed => Current)
    BY DEF McpFree, NoRequest, McpInv, McpTypeOK
  <1>1. CASE LaunchFails
    <2>1. PICK how \in {"error", "transport"} : Raise(how)
      BY <1>1 DEF LaunchFails
    <2>2. reply'.how = how
      BY <2>1 DEF Raise, NoReply
    <2> QED
      BY <1>0, <1>1, <2>2, EndFacts DEF LaunchFails
  <1>2. CASE \E u \in Task \cup {"none"} : Launch(u)
    BY <1>0, <1>2, LaunchFacts
  <1>3. CASE ~changed /\ Send("call", t) /\ UNCHANGED <<proc, changed, disk, view, reply>>
    BY <1>0, <1>3, SendFacts
  <1>4. CASE \E how \in {"error", "transport", "not running"} :
               Raise(how) /\ UNCHANGED <<proc, changed, lastId, asked, computing, disk, view>>
    <2>1. PICK how \in {"error", "transport", "not running"} :
                 Raise(how) /\ UNCHANGED <<proc, changed, lastId, asked, computing, disk, view>>
      BY <1>4
    <2>2. reply'.how = how
      BY <2>1 DEF Raise, NoReply
    <2> QED
      BY <1>0, <2>1, <2>2, EndFacts
  <1> QED
    BY <1>1, <1>2, <1>3, <1>4 DEF McpStart, CallTool

\* The client reads, gives up or skips.
LEMMA ClientFacts == ASSUME McpInv, ClientStep PROVE McpInv'
  <1>0. /\ proc \in {"none", "live", "exited"} /\ changed \in BOOLEAN
        /\ (~changed \/ asked.for \in {"initialize", "list"} => Current)
        /\ (asked # NoRequest => reply = NoReply /\ asked.id = lastId)
        /\ (asked.for = "call" => ~changed) /\ (asked # NoRequest => asked.task \in Task \cup {"none"})
    BY DEF McpInv, McpTypeOK
  <1>1. CASE \E how \in {"error", "transport"} :
               RequestRaises(how) /\ UNCHANGED <<changed, lastId, computing, disk, view>>
    <2>1. PICK how \in {"error", "transport"} :
               RequestRaises(how) /\ UNCHANGED <<changed, lastId, computing, disk, view>>
      BY <1>1
    <2>2. reply'.how = how
      BY <2>1 DEF RequestRaises, Raise, NoReply
    <2>3. asked' = NoRequest /\ proc' \in {"none", "live", "exited"}
      BY <1>0, <2>1 DEF RequestRaises
    <2> QED
      BY <1>0, <2>1, <2>2, <2>3, EndFacts
  <1>2. CASE SkipLine
    BY <1>2 DEF SkipLine, McpInv, McpTypeOK, Current
  <1>3. CASE ReadInitialized
    BY <1>0, <1>3, SendFacts DEF ReadInitialized, Answers, Readable
  <1>4. CASE ReadTools
    <2>1. asked # NoRequest /\ proc = "live" /\ asked.for = "list" /\ changed' = FALSE
      BY <1>4 DEF ReadTools, Answers, Readable
    <2>2. CASE asked' = NoRequest /\ reply' = [NoReply EXCEPT !.how = "started"]
               /\ UNCHANGED <<lastId, computing>>
      <3>1. reply'.how = "started"
        BY <2>2 DEF NoReply
      <3> QED
        BY <1>0, <1>4, <2>1, <2>2, <3>1, EndFacts DEF ReadTools
    <2>3. CASE Send("call", asked.task) /\ UNCHANGED reply
      BY <1>0, <1>4, <2>1, <2>3, SendFacts DEF ReadTools
    <2> QED
      BY <1>4, <2>2, <2>3 DEF ReadTools
  <1>5. CASE ReadResult
    <2>1. /\ asked # NoRequest /\ asked.for = "call" /\ Head(Lines).id = asked.id
      BY <1>5 DEF ReadResult, Answers, Readable, Foreign
    <2>2. reply'.how = "result" /\ reply'.id = lastId
      BY <1>0, <1>5, <2>1 DEF ReadResult
    <2> QED
      BY <1>0, <1>5, <2>1, <2>2, EndFacts DEF ReadResult
  <1> QED
    BY <1>1, <1>2, <1>3, <1>4, <1>5
       DEF ClientStep, TimeOut, SeesExit, ReadFailure, ToolsMissing

\* The server opens files as they are.
LEMMA ServerFacts == ASSUME McpInv, ServerStep PROVE McpInv'
  <1>1. CASE ServerAnswers
    <2>1. PICK request \in computing :
            LET opens == request.for = "call" /\ view[request.task] = 0
            IN /\ view' = IF opens THEN [view EXCEPT ![request.task] = disk[request.task]] ELSE view
               /\ computing' = computing \ {request}
      BY <1>1 DEF ServerAnswers
    <2>2. /\ view' \in [Task -> Nat]
          /\ Current => Current'
      BY <1>1, <2>1 DEF McpInv, McpTypeOK, Current, ServerAnswers
    <2> QED
      BY <1>1, <2>1, <2>2 DEF ServerAnswers, McpInv, McpTypeOK
  <1>2. CASE ServerNotifies
    BY <1>2 DEF ServerNotifies, McpInv, McpTypeOK, Current
  <1>3. CASE ServerExits
    BY <1>3 DEF ServerExits, McpInv, McpTypeOK, Current
  <1> QED
    BY <1>1, <1>2, <1>3 DEF ServerStep

-----------------------------------------------------------------------------
(* The run.                                                                *)

\* The settings, and the role that is probed.
ProbeInv == conf \in Configs /\ "role" \in DOMAIN probe /\ probe.role \in Role

IInv == ChatInv /\ McpInv /\ SessionInv /\ ProbeInv

\* Nobody waits for the server elsewhere.
LEMMA Unasked ==
  ASSUME McpInv, SessionInv, at \notin {"starting", "looking"}
  PROVE  asked = NoRequest /\ reply = NoReply /\ asked.for = "none" /\ reply.how = "none"
  BY DEF SessionInv, NoRequest, NoReply

\* A step that leaves the session alone, and does not go where one is used from
\* where it may not be.
LEMMA ApartFacts ==
  ASSUME McpInv, SessionInv, UNCHANGED mcpVars, task' \in Task \cup {"none"}, todo' \subseteq Task,
         \/ at' = at
         \/ /\ at \notin {"starting", "looking"} /\ at' \notin {"starting", "looking"}
            /\ at' \in Using => at \in Using
  PROVE  McpInv' /\ SessionInv'
  <1>1. McpInv'
    BY DEF mcpVars, McpInv, McpTypeOK, Current
  <1>2. SessionInv'
    BY DEF mcpVars, SessionInv, NeverUsedClosed
  <1> QED
    BY <1>1, <1>2

\* A verdict ends the probe of its role.
LEMMA JudgeFacts ==
  ASSUME NEW done, NEW passed, Judge(done, passed)
  PROVE  /\ at' \in {"preflight", "tasks", "closing"}
         /\ "role" \in DOMAIN probe' /\ probe'.role \in Role
  BY DEF Judge, FirstProbe, NoProbe, Role

\* A probe goes on with its role.
LEMMA GoOnFacts ==
  ASSUME NEW next, GoOn(next), "role" \in DOMAIN next, next.role \in Role
  PROVE  /\ at' \in {"preflight", "tasks", "closing"}
         /\ "role" \in DOMAIN probe' /\ probe'.role \in Role
  BY DEF GoOn

\* Where a probe that has come back goes.
LEMMA ProbedFacts ==
  ASSUME Probed, "role" \in DOMAIN probe, probe.role \in Role
  PROVE  /\ at' \in {"preflight", "tasks", "closing"}
         /\ "role" \in DOMAIN probe' /\ probe'.role \in Role
  <1>1. CASE ResponsesProbed
    <2>1. PICK calls \in BOOLEAN, counted \in BOOLEAN :
            \/ Judge(probe, FALSE) \/ Judge(probe, counted)
            \/ GoOn([probe EXCEPT !.step = "second", !.tool = TRUE])
      BY <1>1 DEF ResponsesProbed
    <2> DEFINE next == [probe EXCEPT !.step = "second", !.tool = TRUE]
    <2>2. "role" \in DOMAIN next /\ next.role = probe.role
      OBVIOUS
    <2> HIDE DEF next
    <2> QED
      BY <2>1, <2>2, JudgeFacts, GoOnFacts
  <1>2. CASE GenericProbed
    <2>1. PICK observed \in BOOLEAN, metered \in BOOLEAN :
            LET seen == ~Failed /\ observed
                base == [probe EXCEPT !.counted = @ \/ (~Failed /\ metered)]
            IN CASE probe.step = "text" /\ Failed -> Judge(probe, FALSE)
                 [] probe.step = "text" /\ ~Failed -> GoOn([base EXCEPT !.step = "tools"])
                 [] probe.step = "tools" ->
                      LET next == [base EXCEPT !.tool = seen, !.step = "json"] IN
                      IF seen THEN Judge(next, Enough(next)) ELSE GoOn(next)
                 [] OTHER ->
                      LET next == [base EXCEPT !.json = seen, !.tries = @ + 1] IN
                      IF seen \/ next.tries = ProbeAttempts THEN Judge(next, Enough(next))
                      ELSE GoOn(next)
      BY <1>2 DEF GenericProbed
    <2> DEFINE seen == ~Failed /\ observed
               base == [probe EXCEPT !.counted = @ \/ (~Failed /\ metered)]
               asText == [base EXCEPT !.step = "tools"]
               asTools == [base EXCEPT !.tool = seen, !.step = "json"]
               asJson == [base EXCEPT !.json = seen, !.tries = @ + 1]
    <2>2. "role" \in DOMAIN base /\ base.role = probe.role
      <3> DEFINE more == probe.counted \/ (~Failed /\ metered)
      <3>1. base = [probe EXCEPT !.counted = more]
        OBVIOUS
      <3> HIDE DEF more, base
      <3> QED
        BY <3>1
    <2>3. "role" \in DOMAIN asText /\ asText.role \in Role
      <3> HIDE DEF base
      <3> QED
        BY <2>2
    <2>4. "role" \in DOMAIN asTools /\ asTools.role \in Role
      <3> HIDE DEF base, seen
      <3> QED
        BY <2>2
    <2>5. "role" \in DOMAIN asJson /\ asJson.role \in Role
      <3> HIDE DEF base, seen
      <3> QED
        BY <2>2
    <2>6. CASE probe.step = "text"
      <3>1. Judge(probe, FALSE) \/ GoOn(asText)
        BY <2>1, <2>6, Zenon
      <3> HIDE DEF asText
      <3> QED
        BY <2>3, <3>1, JudgeFacts, GoOnFacts
    <2>7. CASE probe.step = "tools"
      <3>1. IF seen THEN Judge(asTools, Enough(asTools)) ELSE GoOn(asTools)
        BY <2>1, <2>7
      <3> HIDE DEF seen, asTools
      <3> QED
        BY <2>4, <3>1, JudgeFacts, GoOnFacts
    <2>8. CASE probe.step \notin {"text", "tools"}
      <3>1. IF seen \/ asJson.tries = ProbeAttempts THEN Judge(asJson, Enough(asJson))
            ELSE GoOn(asJson)
        BY <2>1, <2>8
      <3> HIDE DEF seen, asJson
      <3> QED
        BY <2>5, <3>1, JudgeFacts, GoOnFacts
    <2> QED
      BY <2>6, <2>7, <2>8
  <1> QED
    BY <1>1, <1>2 DEF Probed

\* Where the steps without the server go.
LEMMA ApartSteps ==
  ASSUME McpInv, SessionInv, ProbeInv,
         \/ WarmUp \/ SetupEnds \/ AskProbe \/ RefuseProbe \/ Probed \/ NextTask \/ Ask \/ Driven
         \/ AskProver \/ Drafted \/ EndTurn \/ TaskReturns \/ HarnessFails \/ TasksDone \/ Report
         \/ Chat \/ UNCHANGED allVars
  PROVE  McpInv' /\ SessionInv'
  <1> USE DEF Using
  <1>0. task \in Task \cup {"none"} /\ todo \subseteq Task
    BY DEF SessionInv
  <1>1. CASE WarmUp \/ SetupEnds \/ Report
    BY <1>0, <1>1, ApartFacts DEF WarmUp, TargetsWarmed, SetupEnds, Report, Elsewhere
  <1>2. CASE AskProbe
    BY <1>0, <1>2, ApartFacts DEF AskProbe
  <1>4. CASE RefuseProbe
    BY <1>0, <1>4, JudgeFacts, ApartFacts DEF RefuseProbe, Elsewhere
  <1>5. CASE Probed
    <2>1. at' \in {"preflight", "tasks", "closing"}
      BY <1>5, ProbedFacts DEF ProbeInv
    <2> QED
      BY <1>0, <1>5, <2>1, ApartFacts DEF Probed
  <1>6. CASE NextTask
    <2>1. task' \in Task \cup {"none"} /\ todo' \subseteq Task
      BY <1>0, <1>6 DEF NextTask, NextOf
    <2> QED
      BY <1>6, <2>1, ApartFacts DEF NextTask, Elsewhere
  <1>7. CASE Ask \/ Driven
    BY <1>0, <1>7, ApartFacts DEF Ask, Driven, EndTask
  <1>8. CASE AskProver \/ Drafted
    BY <1>0, <1>8, ApartFacts DEF AskProver, Drafted, Acting
  <1>9. CASE EndTurn \/ TaskReturns \/ HarnessFails \/ TasksDone
    BY <1>0, <1>9, ApartFacts DEF EndTurn, TaskReturns, HarnessFails, TasksDone, EndTask, Elsewhere
  <1>10. CASE Chat \/ UNCHANGED allVars
    BY <1>0, <1>10, ApartFacts DEF Chat, allVars, groupVars
  <1> QED
    BY <1>1, <1>2, <1>4, <1>5, <1>6, <1>7, <1>8, <1>9, <1>10

\* The start of the session, after which the run waits for it.
LEMMA StartFacts == ASSUME McpInv, SessionInv, StartSession PROVE McpInv' /\ SessionInv'
  <1>1. McpFree /\ at' = "starting" /\ UNCHANGED <<task, todo>>
    BY DEF StartSession, McpStart
  <1>2. McpInv'
    BY CallFacts DEF StartSession, McpStart
  <1>3. reply'.how \in {"none", "error", "transport"}
    <2>1. CASE Launch("none")
      BY <1>1, <2>1 DEF Launch, McpFree, NoReply
    <2>2. CASE LaunchFails
      BY <2>2 DEF LaunchFails, Raise, NoReply
    <2> QED
      BY <2>1, <2>2 DEF StartSession, McpStart
  <1> QED
    BY <1>1, <1>2, <1>3 DEF SessionInv, NeverUsedClosed, Using

\* The run takes what the session told it.
LEMMA TakenFacts ==
  ASSUME McpInv, SessionInv, SessionStarted \/ SessionFailed \/ Looked
  PROVE  McpInv' /\ SessionInv'
  <1>1. /\ reply # NoReply /\ TakeReply /\ UNCHANGED <<task, todo>>
        /\ \/ at' = "closing"
           \/ at' = "preflight" /\ reply.how = "started"
           \/ at = "looking" /\ at' \in {"tasks", "acting"}
    BY DEF SessionStarted, SessionFailed, Looked, NoReply, TaskFrame, EndTask
  <1>2. asked = NoRequest /\ asked.for = "none"
    BY <1>1 DEF McpInv, NoRequest
  <1>3. /\ UNCHANGED <<proc, changed, asked, lastId, computing, disk, view>>
        /\ reply' = NoReply /\ reply'.how = "none"
    BY <1>1 DEF TakeReply, NoReply
  <1>4. McpInv'
    BY <1>2, <1>3, EndFacts DEF McpInv, McpTypeOK
  <1>5. at' \in Using => (proc = "none" => changed)
    BY <1>1 DEF McpInv, SessionInv, Using
  <1> QED
    BY <1>1, <1>2, <1>3, <1>4, <1>5 DEF SessionInv, NeverUsedClosed

\* A Lean tool: a session that is not running is started first.
LEMMA UseFacts == ASSUME McpInv, SessionInv, UseServer PROVE McpInv' /\ SessionInv'
  <1>1. /\ at = "acting" /\ at' = "looking" /\ UNCHANGED <<task, todo>> /\ CallTool(task)
        /\ task \in Task \cup {"none"}
    BY DEF UseServer, Acting, TaskFrame, SessionInv
  <1>2. McpFree /\ (proc = "none" => changed) /\ proc \in {"none", "live", "exited"}
    BY <1>1 DEF CallTool, SessionInv, Using, McpInv, McpTypeOK
  <1>3. McpInv'
    BY <1>1, <1>2, CallFacts
  <1>4. /\ proc' = "none" => changed'
        /\ asked'.for \in {"initialize", "list"} => changed'
        /\ reply'.how \in {"none", "error", "transport"}
    <2>1. CASE changed /\ Launch(task)
      BY <1>2, <2>1 DEF Launch, McpFree, NoReply, FlagAtLaunch
    <2>2. CASE changed /\ LaunchFails
      BY <2>2 DEF LaunchFails, Raise, NoReply
    <2>3. CASE ~changed /\ proc = "live" /\ Send("call", task) /\ UNCHANGED <<proc, changed, reply>>
      BY <1>2, <2>3 DEF Send, McpFree, NoReply
    <2>4. CASE /\ ~changed
               /\ \/ proc # "live" /\ Raise(IF proc = "exited" THEN "transport" ELSE "not running")
                  \/ Raise("error")
               /\ UNCHANGED <<proc, changed, asked>>
      <3>1. Raise("transport") \/ Raise("error")
        BY <1>2, <2>4
      <3>2. asked.for = "none"
        BY <1>2 DEF McpFree, NoRequest
      <3> QED
        BY <1>2, <2>4, <3>1, <3>2 DEF Raise, NoReply
    <2> QED
      BY <1>1, <2>1, <2>2, <2>3, <2>4 DEF CallTool
  <1> QED
    BY <1>1, <1>3, <1>4 DEF SessionInv, NeverUsedClosed, Using

\* A proof is checked: the session is told that the files changed.
LEMMA CheckFacts == ASSUME McpInv, SessionInv, Check PROVE McpInv' /\ SessionInv'
  <1>1. /\ at = "acting" /\ at' = "acting" /\ UNCHANGED <<task, todo>> /\ ProofWritten(task)
    BY DEF Check, Acting, TaskFrame
  <1>2. asked = NoRequest /\ reply = NoReply /\ asked.for = "none" /\ reply.how = "none"
    BY <1>1, Unasked
  <1>3. changed' = TRUE /\ UNCHANGED <<proc, lastId, asked, computing, view, reply>>
    BY <1>1 DEF ProofWritten
  <1>5. disk' \in [Task -> Nat \ {0}]
    <2>1. disk \in [Task -> Nat \ {0}] /\ disk' = [disk EXCEPT ![task] = disk[task] + 1]
      BY <1>1 DEF ProofWritten, McpInv, McpTypeOK
    <2>2. CASE task \in Task
      <3>1. disk[task] + 1 \in Nat \ {0}
        BY <2>1, <2>2
      <3> QED
        BY <2>1, <3>1
    <2>3. CASE task \notin Task
      BY <2>1, <2>3
    <2> QED
      BY <2>2, <2>3
  <1>4. McpInv'
    BY <1>2, <1>3, <1>5 DEF McpInv, McpTypeOK
  <1> QED
    BY <1>1, <1>2, <1>3, <1>4 DEF SessionInv, NeverUsedClosed

\* The end of the session.
LEMMA CloseFacts == ASSUME McpInv, SessionInv, CloseGroup PROVE McpInv' /\ SessionInv'
  <1>1. at = "closing" /\ at' = "report" /\ UNCHANGED <<task, todo>> /\ CloseSession
    BY DEF CloseGroup
  <1>2. asked = NoRequest /\ reply = NoReply /\ asked.for = "none" /\ reply.how = "none"
    BY <1>1, Unasked
  <1>3. /\ UNCHANGED <<changed, lastId, computing, disk, view, reply>> /\ asked' = NoRequest
        /\ proc' = "none"
    BY <1>1 DEF CloseSession, Close
  <1>4. McpInv'
    BY <1>2, <1>3, EndFacts DEF McpInv, McpTypeOK
  <1> QED
    BY <1>1, <1>2, <1>3, <1>4 DEF SessionInv, NeverUsedClosed, Using

\* The client reads: a session that was starting is closed when that fails, and
\* then the files count as changed.
LEMMA ReadFacts == ASSUME McpInv, SessionInv, Client PROVE McpInv' /\ SessionInv'
  <1>1. ClientStep /\ UNCHANGED <<at, task, todo>>
    BY DEF Client, groupVars
  <1>2. McpInv'
    BY <1>1, ClientFacts
  <1>3. asked # NoRequest
    BY <1>1 DEF ClientStep, TimeOut, SeesExit, SkipLine, ReadFailure, ReadInitialized, ReadTools,
                ToolsMissing, ReadResult, RequestRaises, Answers, Readable
  <1>4. asked.for \in {"initialize", "list", "call"} /\ reply = NoReply /\ at \in {"starting", "looking"}
    BY <1>3 DEF McpInv, McpTypeOK, SessionInv
  <1>5. /\ at \in Using => /\ proc' = "none" => changed'
                           /\ asked'.for \in {"initialize", "list"} => changed'
        /\ reply'.how # "not running"
    <2>1. CASE \E how \in {"error", "transport"} : RequestRaises(how) /\ UNCHANGED changed
      <3>1. PICK how \in {"error", "transport"} : RequestRaises(how) /\ UNCHANGED changed
        BY <2>1
      <3>2. reply'.how = how /\ asked'.for = "none"
        BY <3>1 DEF RequestRaises, Raise, NoReply, NoRequest
      <3> QED
        BY <1>4, <3>1, <3>2 DEF RequestRaises, SessionInv
    <2>2. CASE SkipLine
      BY <1>4, <2>2 DEF SkipLine, SessionInv, NoReply
    <2>3. CASE ReadInitialized
      BY <1>4, <2>3 DEF ReadInitialized, Send, SessionInv, NoReply, Answers, Readable
    <2>4. CASE ReadTools
      <3>1. proc' = "live" /\ asked'.for \in {"none", "call"} /\ reply'.how \in {"started", "none"}
        BY <1>4, <2>4 DEF ReadTools, Send, NoReply, NoRequest, Answers, Readable
      <3> QED
        BY <3>1
    <2>5. CASE ReadResult
      BY <1>4, <2>5 DEF ReadResult, SessionInv, NoRequest, Answers, Readable
    <2> QED
      BY <1>1, <2>1, <2>2, <2>3, <2>4, <2>5
         DEF ClientStep, TimeOut, SeesExit, ReadFailure, ToolsMissing
  <1> QED
    BY <1>1, <1>2, <1>4, <1>5 DEF SessionInv, NeverUsedClosed

\* The server answers, notifies or exits by itself.
LEMMA ServingFacts == ASSUME McpInv, SessionInv, Server PROVE McpInv' /\ SessionInv'
  <1>1. ServerStep /\ UNCHANGED <<at, task, todo>>
    BY DEF Server, groupVars
  <1>2. UNCHANGED <<changed, asked, reply>> /\ (proc' = "none" => proc = "none")
    BY <1>1 DEF ServerStep, ServerAnswers, ServerNotifies, ServerExits
  <1>3. McpInv'
    BY <1>1, ServerFacts
  <1> QED
    BY <1>1, <1>2, <1>3 DEF SessionInv, NeverUsedClosed

\* Every step of the run keeps what the session promises.
LEMMA SessionFacts ==
  ASSUME McpInv, SessionInv, ProbeInv, GroupNext \/ UNCHANGED allVars
  PROVE  McpInv' /\ SessionInv'
  BY ApartSteps, StartFacts, TakenFacts, UseFacts, CheckFacts, CloseFacts, ReadFacts, ServingFacts
     DEF GroupNext, Harness

\* Every step of the run uses the transport as it may.
LEMMA TransportFacts ==
  ASSUME ChatInv, ProbeInv, GroupNext \/ UNCHANGED allVars
  PROVE  ChatInv' /\ ProbeInv'
  <1>1. conf' = conf
    <2>1. CASE WarmUp \/ SetupEnds \/ StartSession \/ SessionStarted \/ SessionFailed
      BY <2>1 DEF WarmUp, TargetsWarmed, SetupEnds, StartSession, SessionStarted, SessionFailed
    <2>2. CASE AskProbe \/ RefuseProbe \/ Probed \/ CloseGroup \/ Report
      BY <2>2 DEF AskProbe, RefuseProbe, Probed, CloseGroup, Report
    <2>3. CASE NextTask \/ Ask \/ Driven \/ UseServer \/ Looked \/ Check \/ AskProver \/ Drafted
      BY <2>3 DEF NextTask, Ask, Driven, UseServer, Looked, Check, AskProver, Drafted, TaskFrame
    <2>4. CASE EndTurn \/ TaskReturns \/ HarnessFails \/ TasksDone
      BY <2>4 DEF EndTurn, TaskReturns, HarnessFails, TasksDone, TaskFrame
    <2>5. CASE Chat \/ Client \/ Server \/ UNCHANGED allVars
      BY <2>5 DEF Chat, Client, Server, allVars, groupVars
    <2> QED
      BY <2>1, <2>2, <2>3, <2>4, <2>5 DEF GroupNext, Harness
  <1>2. /\ "driver" \in Role /\ "prover" \in Role /\ conf.wire \in {"chat", "responses"}
        /\ probe.role \in Role
    BY RunGroupAssumption DEF Role, Config, ProbeInv
  <1>3. ChatNext \/ UNCHANGED chatVars
    <2>1. CASE AskProbe
      <3>1. CASE probe.step = "text"
        <4>1. BeginAfterReset(probe.role)
          BY <2>1, <3>1 DEF AskProbe
        <4> QED
          BY <1>2, <4>1 DEF ChatNext
      <3>2. CASE probe.step \in {"tools", "json"}
        BY <1>2, <2>1, <3>2 DEF AskProbe, ChatNext
      <3>3. CASE probe.step \notin {"text", "tools", "json"}
        BY <1>2, <2>1, <3>3 DEF AskProbe, AskDriver, ChatNext
      <3> QED
        BY <3>1, <3>2, <3>3
    <2>2. CASE Ask \/ AskProver
      BY <1>2, <2>2 DEF Ask, AskDriver, AskProver, ChatNext
    <2>3. CASE Probed \/ Driven \/ Drafted
      BY <2>3 DEF Probed, Driven, Drafted, ChatNext
    <2>4. CASE Chat \/ UNCHANGED allVars
      BY <2>4 DEF Chat, ChatNext, allVars
    <2>5. CASE WarmUp \/ SetupEnds \/ StartSession \/ SessionStarted \/ SessionFailed \/ RefuseProbe
      BY <2>5 DEF WarmUp, TargetsWarmed, SetupEnds, StartSession, SessionStarted, SessionFailed, RefuseProbe, Elsewhere
    <2>6. CASE NextTask \/ UseServer \/ Looked \/ Check \/ EndTurn \/ TaskReturns
      BY <2>6 DEF NextTask, UseServer, Looked, Check, EndTurn, TaskReturns, Elsewhere
    <2>7. CASE HarnessFails \/ TasksDone \/ CloseGroup \/ Report \/ Client \/ Server
      BY <2>7 DEF HarnessFails, TasksDone, CloseGroup, Report, Client, Server, Elsewhere
    <2> QED
      BY <2>1, <2>2, <2>3, <2>4, <2>5, <2>6, <2>7 DEF GroupNext, Harness
  <1>4. ProbeInv'
    <2>1. CASE SessionStarted
      BY <1>1, <1>2, <2>1 DEF SessionStarted, FirstProbe, NoProbe, ProbeInv
    <2>2. CASE RefuseProbe
      BY <1>1, <2>2, JudgeFacts DEF RefuseProbe, ProbeInv
    <2>3. CASE Probed
      BY <1>1, <2>3, ProbedFacts DEF ProbeInv
    <2>4. CASE UNCHANGED probe
      BY <1>1, <2>4 DEF ProbeInv
    <2>5. CASE WarmUp \/ SetupEnds \/ StartSession \/ SessionFailed \/ AskProbe \/ CloseGroup \/ Report
      BY <2>4, <2>5 DEF WarmUp, TargetsWarmed, SetupEnds, StartSession, SessionFailed, AskProbe, CloseGroup, Report
    <2>6. CASE NextTask \/ Ask \/ Driven \/ UseServer \/ Looked \/ Check \/ AskProver \/ Drafted
      BY <2>4, <2>6 DEF NextTask, Ask, Driven, UseServer, Looked, Check, AskProver, Drafted, TaskFrame
    <2>7. CASE EndTurn \/ TaskReturns \/ HarnessFails \/ TasksDone
      BY <2>4, <2>7 DEF EndTurn, TaskReturns, HarnessFails, TasksDone, TaskFrame
    <2>8. CASE Chat \/ Client \/ Server \/ UNCHANGED allVars
      BY <2>4, <2>8 DEF Chat, Client, Server, allVars, groupVars
    <2> QED
      BY <2>1, <2>2, <2>3, <2>5, <2>6, <2>7, <2>8 DEF GroupNext, Harness
  <1> QED
    BY <1>1, <1>3, <1>4, ChatStepFacts

\* The run starts with no completion and no server.
LEMMA Beginning == GroupInit => IInv
  <1> SUFFICES ASSUME GroupInit PROVE IInv
    OBVIOUS
  <1>1. ChatInv
    <2>1. call = Completion("idle", "driver", "chat", 0, 0, NoError)
      BY DEF GroupInit, ChatInit, NoCall, Completion
    <2>2. /\ call.at = "idle" /\ call.exchanges = 0 /\ fallback = FALSE /\ rejections = 0
          /\ accepts \in [Role -> BOOLEAN]
      BY <2>1, ChatRequestAssumption DEF GroupInit, ChatInit, Completion
    <2>3. call \in [at : {"idle", "send", "again", "sleep", "returned"}, role : Role,
                    api : {"chat", "responses"}, attempt : 0 .. MaxAttempts, exchanges : Nat,
                    error : Errors]
      BY <2>1, ChatRequestAssumption DEF Completion, Role, NoError, Errors
    <2>4. ChatTypeOK
      BY <2>2, <2>3 DEF ChatTypeOK, Errors
    <2>5. CostInv /\ TransientIsRetried
      BY <2>2 DEF CostInv, TransientIsRetried, Returned
    <2> QED
      BY <2>2, <2>4, <2>5 DEF ChatInv, RejectionLearned
  <1>2. McpInv
    <2>1. asked.for = "none" /\ reply.how = "none" /\ asked = NoRequest
      BY DEF GroupInit, McpInit, NoRequest, NoReply
    <2>2. asked \in [id : Nat, for : {"none", "initialize", "list", "call"}, task : Task \cup {"none"}]
      BY <2>1 DEF NoRequest
    <2>3. /\ proc = "none" /\ changed = FALSE /\ lastId = 0 /\ computing = {}
          /\ disk = [t \in Task |-> 1] /\ view = [t \in Task |-> 0]
      BY DEF GroupInit, McpInit
    <2>4. Current
      BY <2>3 DEF Current
    <2>5. disk \in [Task -> Nat \ {0}] /\ view \in [Task -> Nat]
      BY <2>3
    <2>6. McpTypeOK
      BY <2>1, <2>2, <2>3, <2>5 DEF McpTypeOK
    <2> QED
      BY <2>1, <2>3, <2>4, <2>6 DEF McpInv
  <1>3. SessionInv
    BY DEF GroupInit, McpInit, SessionInv, NeverUsedClosed, Using, NoReply
  <1>4. ProbeInv
    BY DEF GroupInit, ProbeInv, NoProbe, Role
  <1> QED
    BY <1>1, <1>2, <1>3, <1>4 DEF IInv

\* The invariant of the run.
THEOREM Invariance == GroupSpec => []IInv
  <1>1. IInv /\ [GroupNext]_allVars => IInv'
    BY SessionFacts, TransportFacts DEF IInv
  <1> QED
    BY <1>1, Beginning, PTL DEF GroupSpec

\* The retries of a completion, its repetition without streaming and the switch
\* that the whole process shares never multiply requests nor give up early
\* (chat_completion).
THEOREM RequestsAreBounded == GroupSpec => []RequestsBounded
  <1>1. IInv => RequestsBounded
    <2> SUFFICES ASSUME IInv PROVE RequestsBounded
      OBVIOUS
    <2>1. ChatInv /\ CostInv /\ ChatTypeOK
      BY DEF IInv, ChatInv
    <2>2. /\ call.attempt \in 0 .. MaxAttempts /\ call.exchanges \in Nat /\ rejections \in 0 .. 1
          /\ call.at \in {"idle", "send", "again", "sleep", "returned"}
      BY <2>1 DEF ChatTypeOK, ChatInv, RejectionLearned
    <2>3. ExchangesBounded
      BY <2>1, <2>2, ChatRequestAssumption DEF CostInv, ExchangesBounded
    <2> QED
      BY <2>1, <2>3 DEF RequestsBounded, ChatInv
  <1> QED
    BY <1>1, Invariance, PTL

\* What the tools of the Lean server tell a task is the answer to its own call,
\* about the file as it is now, through timeouts, late answers and restarts
\* (LeanLspMcpSession).
THEOREM AnswersStayCurrent == GroupSpec => []AnswersAreCurrent
  <1>1. IInv => AnswersAreCurrent
    BY DEF IInv, McpInv, SessionInv, AnswersAreCurrent, AnswerIsOwn, NoStaleFile, Current
  <1> QED
    BY <1>1, Invariance, PTL

-----------------------------------------------------------------------------
(* The course of a run.                                                    *)

Early == {"setup", "warmed", "starting", "preflight", "probing"}
Attempting == {"turn", "driving", "acting", "looking", "drafting"}
Late == {"closing", "report", "written"}

Probe == [role : Role, step : {"none", "first", "second", "text", "tools", "json"},
          tries : 0 .. ProbeAttempts, tool : BOOLEAN, json : BOOLEAN, counted : BOOLEAN]

\* The fields of the run; the transport, the server and the probe have their own.
FieldsInv ==
  /\ conf \in Configs
  /\ at \in Early \cup {"tasks"} \cup Attempting \cup Late
  /\ warm \in {"none", "passed", "dependencies failed", "targets timed out"}
  /\ verdicts \in [Role -> {"none", "passed", "failed"}]
  /\ protocol \in [tool : BOOLEAN, json : BOOLEAN]
  /\ todo \subseteq Task
  /\ task \in Task \cup {"none"}
  /\ steps \in 0 .. StepMax
  /\ rows \in [Task -> {"none", "setup_failed", "preflight_failed", "request_failed",
                        "returned"}]
  /\ status \in {"none", "dry_run", "missing_credentials", "preflight_failed",
                 "completed_with_failures", "completed", "harness_error"}
  /\ lifecycle \in {"none", "not_attempted", "started", "completed"}
  /\ verifier \in {"none", "skipped", "ran"}

\* A probe that has something left to ask, and has seen what it goes on from.
Asking(p) == p.step # "none" /\ p.tries < ProbeAttempts /\ (p.step = "second" => p.tool)

\* Tasks are attempted once the driver has passed, which it does only with a
\* protocol that was seen working; the prover is asked after the driver.
VerdictInv ==
  /\ probe \in Probe
  /\ at \in {"preflight", "probing"} =>
       Asking(probe) /\ (probe.role = "prover" => verdicts["driver"] # "none")
  /\ verdicts["driver"] = "passed" => protocol.tool \/ protocol.json
  /\ at \in {"tasks"} \cup Attempting => verdicts["driver"] = "passed"

HaveRows(tasks) == \A t \in tasks : rows[t] # "none"

\* Every task that is no longer to do has its row, the one under attempt apart;
\* a run that ends otherwise than by an exception gives the others theirs.
RowInv ==
  /\ at \in Late <=> status # "none"
  /\ at \in Early => todo = Task /\ rows = AllRows("none")
  /\ at = "tasks" => HaveRows(Task \ todo)
  /\ at \in Attempting => task \in Task /\ HaveRows(Task \ (todo \cup {task}))
  /\ status \in {"completed", "completed_with_failures"} => HaveRows(Task)
  /\ ProviderSetupError =>
       IF at = "written" THEN HaveRows(Task) ELSE rows = AllRows("none")
  /\ ProviderSetupError \/ status = "completed_with_failures" => todo = Task

\* A run that is not set up has asked nothing of a model or of the server, and a
\* run that is set up records its server.
SetupInv ==
  /\ at # "setup" => (warm = "none" <=> conf.dry \/ ~Available)
  /\ at # "setup" => lifecycle = Lifecycle(warm) \/ (lifecycle = "completed" /\ HasMetadata)
  /\ at \notin {"setup", "warmed", "report", "written"} => HasMetadata
  /\ at \in {"setup", "warmed"} \/ ~HasMetadata => ~HasActivity
  /\ verifier = "skipped" => at = "written" /\ todo = Task

RunInv == FieldsInv /\ VerdictInv /\ RowInv /\ SetupInv

\* The first probe of a role has something to ask.
LEMMA FirstFacts ==
  /\ NoProbe \in Probe
  /\ \A role \in Role :
       FirstProbe(role) \in Probe /\ FirstProbe(role).role = role /\ Asking(FirstProbe(role))
  <1>1. 0 \in 0 .. ProbeAttempts /\ 0 < ProbeAttempts /\ "driver" \in Role
    BY RunGroupAssumption DEF Role
  <1>2. NoProbe \in Probe
    BY <1>1 DEF NoProbe, Probe
  <1>3. ASSUME NEW role \in Role
        PROVE  FirstProbe(role) \in Probe /\ FirstProbe(role).role = role /\ Asking(FirstProbe(role))
    <2>1. PICK step \in {"first", "text"} :
            FirstProbe(role) = [NoProbe EXCEPT !.role = role, !.step = step]
      BY DEF FirstProbe
    <2>2. FirstProbe(role) = [role |-> role, step |-> step, tries |-> 0, tool |-> FALSE,
                              json |-> FALSE, counted |-> FALSE]
      BY <2>1 DEF NoProbe
    <2> QED
      BY <1>1, <2>2 DEF Probe, Asking
  <1> QED
    BY <1>2, <1>3

\* The settings and the warm builds decide what a run may do.
LEMMA SameSetup ==
  ASSUME UNCHANGED <<conf, warm>>
  PROVE  /\ (Available' <=> Available) /\ (HasMetadata' <=> HasMetadata)
         /\ (WarmFailed' <=> WarmFailed) /\ Lifecycle(warm)' = Lifecycle(warm)
  <1>1. conf' = conf /\ warm' = warm
    OBVIOUS
  <1>2. (Available' <=> Available) /\ (WarmFailed' <=> WarmFailed)
    BY <1>1 DEF Available, WarmFailed
  <1>3. HasMetadata' <=> HasMetadata
    BY <1>1 DEF HasMetadata, Usable, WarmFailed
  <1>4. Lifecycle(warm)' = Lifecycle(warm)
    BY <1>1 DEF Lifecycle
  <1> QED
    BY <1>2, <1>3, <1>4

\* A run that is set up stays so.
LEMMA SetupKept ==
  ASSUME SetupInv, HasMetadata, at \notin {"setup", "written"}, at' \notin {"setup", "warmed"},
         UNCHANGED <<conf, warm, lifecycle, verifier>>
  PROVE  SetupInv'
  BY SameSetup DEF SetupInv

\* The end of the warm builds.
LEMMA WarmUpFacts == ASSUME RunInv, WarmUp PROVE RunInv'
  <1>1. /\ at = "setup" /\ at' = "warmed" /\ lifecycle' = Lifecycle(warm')
        /\ warm' \in {"none", "passed", "dependencies failed", "targets timed out"}
        /\ warm' = "none" <=> conf.dry \/ ~Available
        /\ UNCHANGED <<conf, probe, verdicts, protocol, todo, task, steps, rows, status, verifier,
                       lastId>>
    BY DEF WarmUp, TargetsWarmed, Elsewhere, mcpVars
  <1>2. FieldsInv'
    BY <1>1, ZenonT(40) DEF RunInv, FieldsInv, Lifecycle, Early
  <1>3. VerdictInv' /\ RowInv'
    BY <1>1 DEF RunInv, VerdictInv, RowInv, Attempting, Early, Late, ProviderSetupError, HaveRows,
                AllRows
  <1>4. SetupInv'
    BY <1>1 DEF RunInv, SetupInv, Available, HasActivity, Lifecycle
  <1> QED
    BY <1>2, <1>3, <1>4 DEF RunInv

\* A run ends before the session, or starts it.
LEMMA SetupFacts == ASSUME RunInv, SetupEnds \/ StartSession PROVE RunInv'
  <1>1. CASE SetupEnds
    <2>1. /\ at = "warmed" /\ at' = "report"
          /\ UNCHANGED <<conf, warm, probe, verdicts, protocol, todo, task, steps, lifecycle,
                         verifier, lastId>>
          /\ \/ conf.dry /\ status' = "dry_run" /\ rows' = rows
             \/ ~conf.dry /\ ~Usable /\ status' = "missing_credentials" /\ rows' = rows
             \/ /\ WarmFailed /\ status' = "completed_with_failures"
                /\ rows' = AllRows("setup_failed")
      BY <1>1 DEF SetupEnds, Elsewhere, mcpVars
    <2>2. FieldsInv' /\ VerdictInv' /\ RowInv'
      BY <2>1, ZenonT(40) DEF RunInv, FieldsInv, VerdictInv, RowInv, Attempting, Early, Late,
                  ProviderSetupError, HaveRows, AllRows
    <2>3. ~HasMetadata
      BY <2>1 DEF HasMetadata
    <2>4. SetupInv'
      BY <2>1, <2>3, SameSetup DEF RunInv, SetupInv, HasActivity
    <2> QED
      BY <2>2, <2>4 DEF RunInv
  <1>2. CASE StartSession
    <2>1. /\ at = "warmed" /\ at' = "starting" /\ HasMetadata
          /\ UNCHANGED <<conf, warm, probe, verdicts, protocol, todo, task, steps, rows, status,
                         lifecycle, verifier>>
      BY <1>2 DEF StartSession, HasMetadata
    <2>2. FieldsInv' /\ VerdictInv' /\ RowInv'
      BY <2>1, ZenonT(40) DEF RunInv, FieldsInv, VerdictInv, RowInv, Attempting, Early, Late,
                  ProviderSetupError, HaveRows
    <2> QED
      BY <2>1, <2>2, SetupKept DEF RunInv
  <1> QED
    BY <1>1, <1>2

\* The preflight starts, or the session could not.
LEMMA StartedFacts == ASSUME RunInv, SessionStarted \/ SessionFailed PROVE RunInv'
  <1>1. HasMetadata /\ at = "starting"
    BY DEF RunInv, SetupInv, SessionStarted, SessionFailed
  <1>2. CASE SessionStarted
    <2>1. /\ at' = "preflight" /\ probe' = FirstProbe("driver")
          /\ UNCHANGED <<conf, warm, verdicts, protocol, todo, task, steps, rows, status,
                         lifecycle, verifier>>
      BY <1>2 DEF SessionStarted
    <2>2. FieldsInv' /\ RowInv'
      BY <1>1, <2>1, ZenonT(40) DEF RunInv, FieldsInv, RowInv, Attempting, Early, Late, ProviderSetupError,
                        HaveRows
    <2>3. VerdictInv'
      BY <2>1, FirstFacts DEF RunInv, VerdictInv, Role, Attempting
    <2> QED
      BY <1>1, <2>1, <2>2, <2>3, SetupKept DEF RunInv
  <1>3. CASE SessionFailed
    <2>1. /\ at' = "closing" /\ status' = "completed_with_failures"
          /\ rows' = AllRows("setup_failed")
          /\ UNCHANGED <<conf, warm, probe, verdicts, protocol, todo, task, steps, lifecycle,
                         verifier>>
      BY <1>3 DEF SessionFailed
    <2>2. FieldsInv' /\ VerdictInv' /\ RowInv'
      BY <1>1, <2>1, ZenonT(40) DEF RunInv, FieldsInv, VerdictInv, RowInv, Attempting, Early, Late,
                        ProviderSetupError, HaveRows, AllRows
    <2> QED
      BY <1>1, <2>1, <2>2, SetupKept DEF RunInv
  <1> QED
    BY <1>2, <1>3

\* A verdict on a role: on to the prover, to the tasks or to the end.
LEMMA VerdictFacts ==
  ASSUME RunInv, at \in {"preflight", "probing"}, NEW done \in Probe, NEW passed \in BOOLEAN,
         done.role = probe.role, passed => done.tool \/ done.json, Judge(done, passed),
         UNCHANGED <<conf, warm, todo, task, steps, rows, lifecycle, verifier>>
  PROVE  RunInv'
  <1> DEFINE verdict == [verdicts EXCEPT ![done.role] = IF passed THEN "passed" ELSE "failed"]
             more == done.role = "driver" /\ conf.prover
             all == "failed" \notin {verdict[r] : r \in Role}
  <1>1. /\ verdicts' = verdict
        /\ probe' = IF more THEN FirstProbe("prover") ELSE NoProbe
        /\ protocol' = IF done.role = "driver" THEN [tool |-> done.tool, json |-> done.json]
                       ELSE protocol
        /\ at' = IF more THEN "preflight" ELSE IF all THEN "tasks" ELSE "closing"
        /\ status' = IF more \/ all THEN status ELSE "preflight_failed"
    BY Zenon DEF Judge
  <1>2. /\ done.role \in Role /\ done.tool \in BOOLEAN /\ done.json \in BOOLEAN
        /\ verdicts \in [Role -> {"none", "passed", "failed"}] /\ "driver" \in Role
        /\ status = "none" /\ rows = AllRows("none") /\ todo = Task /\ HasMetadata
        /\ done.role # "driver" => verdicts["driver"] # "none"
    BY DEF Probe, RunInv, FieldsInv, RowInv, SetupInv, VerdictInv, Early, Late, Role
  <1>3. /\ verdict \in [Role -> {"none", "passed", "failed"}]
        /\ done.role = "driver" => verdict["driver"] = IF passed THEN "passed" ELSE "failed"
        /\ done.role # "driver" => verdict["driver"] = verdicts["driver"]
    BY <1>2
  <1>4. all => verdict["driver"] = "passed"
    BY <1>2, <1>3
  <1>5. protocol' \in [tool : BOOLEAN, json : BOOLEAN]
        /\ (verdict["driver"] = "passed" => protocol'.tool \/ protocol'.json)
    BY <1>1, <1>2, <1>3, ZenonT(40) DEF RunInv, FieldsInv, VerdictInv
  <1>6. /\ probe' \in Probe
        /\ more => Asking(probe')
    BY <1>1, FirstFacts DEF Role
  <1>7. more => verdict["driver"] # "none"
    BY <1>3
  <1> HIDE DEF verdict, more, all
  <1>8. FieldsInv'
    BY <1>1, <1>2, <1>3, <1>5, ZenonT(40) DEF RunInv, FieldsInv, Early, Late
  <1>9. VerdictInv'
    BY <1>1, <1>4, <1>5, <1>6, <1>7 DEF VerdictInv, Attempting
  <1>10. RowInv'
    BY <1>1, <1>2 DEF RowInv, Early, Late, Attempting, HaveRows, ProviderSetupError, AllRows
  <1>11. SetupInv'
    BY <1>1, <1>2, SetupKept DEF RunInv
  <1> QED
    BY <1>8, <1>9, <1>10, <1>11 DEF RunInv

\* A probe goes on with what it has seen.
LEMMA OnwardFacts ==
  ASSUME RunInv, at = "probing", NEW next \in Probe, next.role = probe.role, Asking(next),
         GoOn(next), UNCHANGED <<conf, warm, todo, task, steps, rows, lifecycle, verifier>>
  PROVE  RunInv'
  <1>1. /\ at' = "preflight" /\ probe' = next /\ UNCHANGED <<verdicts, protocol, status>>
        /\ HasMetadata
    BY DEF GoOn, RunInv, SetupInv
  <1>2. FieldsInv' /\ VerdictInv' /\ RowInv'
    BY <1>1, ZenonT(40) DEF RunInv, FieldsInv, VerdictInv, RowInv, Attempting, Early, Late,
                ProviderSetupError, HaveRows
  <1> QED
    BY <1>1, <1>2, SetupKept DEF RunInv

\* The preflight asks, or a probe that cannot be asked fails.
LEMMA AskedFacts == ASSUME RunInv, AskProbe \/ RefuseProbe PROVE RunInv'
  <1>1. CASE AskProbe
    <2>1. /\ at = "preflight" /\ at' = "probing" /\ HasMetadata
          /\ UNCHANGED <<conf, warm, probe, verdicts, protocol, todo, task, steps, rows, status,
                         lifecycle, verifier>>
      BY <1>1 DEF AskProbe, RunInv, SetupInv
    <2>2. FieldsInv' /\ VerdictInv' /\ RowInv'
      BY <2>1, ZenonT(40) DEF RunInv, FieldsInv, VerdictInv, RowInv, Attempting, Early, Late,
                  ProviderSetupError, HaveRows
    <2> QED
      BY <2>1, <2>2, SetupKept DEF RunInv
  <1>2. CASE RefuseProbe
    <2>1. probe \in Probe
      BY DEF RunInv, VerdictInv
    <2> QED
      BY <1>2, <2>1, VerdictFacts DEF RefuseProbe
  <1> QED
    BY <1>1, <1>2

\* A probe that has come back ends with a verdict or goes on.
LEMMA ProbeEnds == ASSUME RunInv, Probed PROVE RunInv'
  <1>1. /\ probe \in Probe /\ Asking(probe) /\ at = "probing"
        /\ UNCHANGED <<conf, warm, todo, task, steps, rows, lifecycle, verifier>>
    BY DEF Probed, RunInv, VerdictInv
  <1>2. /\ probe.role \in Role /\ probe.tries \in 0 .. ProbeAttempts /\ probe.tries < ProbeAttempts
        /\ probe.tool \in BOOLEAN /\ probe.json \in BOOLEAN /\ probe.counted \in BOOLEAN
        /\ probe.step \in {"none", "first", "second", "text", "tools", "json"}
        /\ ProbeAttempts \in Nat \ {0}
    BY <1>1, RunGroupAssumption DEF Probe, Asking
  <1>3. CASE ResponsesProbed /\ probe.step \in {"first", "second"}
    <2>1. PICK calls \in BOOLEAN, counted \in BOOLEAN :
            \/ Judge(probe, FALSE) \/ (probe.step = "second" /\ Judge(probe, counted))
            \/ GoOn([probe EXCEPT !.step = "second", !.tool = TRUE])
      BY <1>3 DEF ResponsesProbed
    <2> DEFINE next == [probe EXCEPT !.step = "second", !.tool = TRUE]
    <2>2. next \in Probe /\ next.role = probe.role /\ Asking(next)
      BY <1>1, <1>2 DEF Probe, Asking
    <2>3. probe.step = "second" => probe.tool
      BY <1>1 DEF Asking
    <2> HIDE DEF next
    <2>4. CASE Judge(probe, FALSE)
      BY <1>1, <2>4, VerdictFacts
    <2>5. CASE probe.step = "second" /\ Judge(probe, counted)
      BY <1>1, <2>3, <2>5, VerdictFacts
    <2>6. CASE GoOn(next)
      BY <1>1, <2>2, <2>6, OnwardFacts
    <2> QED
      BY <2>1, <2>4, <2>5, <2>6 DEF next
  <1>4. CASE GenericProbed /\ probe.step \notin {"first", "second"}
    <2>1. PICK observed \in BOOLEAN, metered \in BOOLEAN :
            LET seen == ~Failed /\ observed
                base == [probe EXCEPT !.counted = @ \/ (~Failed /\ metered)]
            IN CASE probe.step = "text" /\ Failed -> Judge(probe, FALSE)
                 [] probe.step = "text" /\ ~Failed -> GoOn([base EXCEPT !.step = "tools"])
                 [] probe.step = "tools" ->
                      LET next == [base EXCEPT !.tool = seen, !.step = "json"] IN
                      IF seen THEN Judge(next, Enough(next)) ELSE GoOn(next)
                 [] OTHER ->
                      LET next == [base EXCEPT !.json = seen, !.tries = @ + 1] IN
                      IF seen \/ next.tries = ProbeAttempts THEN Judge(next, Enough(next))
                      ELSE GoOn(next)
      BY <1>4 DEF GenericProbed
    <2> DEFINE seen == ~Failed /\ observed
               base == [probe EXCEPT !.counted = @ \/ (~Failed /\ metered)]
               asText == [base EXCEPT !.step = "tools"]
               asTools == [base EXCEPT !.tool = seen, !.step = "json"]
               asJson == [base EXCEPT !.json = seen, !.tries = @ + 1]
    <2>2. base \in Probe /\ base.role = probe.role /\ base.tries = probe.tries
      <3> DEFINE more == probe.counted \/ (~Failed /\ metered)
      <3>1. base = [probe EXCEPT !.counted = more] /\ more \in BOOLEAN
        BY <1>2
      <3> HIDE DEF more, base
      <3> QED
        BY <1>1, <3>1 DEF Probe
    <2>3. seen \in BOOLEAN
      OBVIOUS
    <2>4. asText \in Probe /\ asText.role = probe.role /\ Asking(asText)
      <3> HIDE DEF base
      <3> QED
        BY <1>2, <2>2 DEF Probe, Asking
    <2>5. asTools \in Probe /\ asTools.role = probe.role /\ Asking(asTools)
      <3> HIDE DEF base, seen
      <3> QED
        BY <1>2, <2>2, <2>3 DEF Probe, Asking
    <2>6. /\ asJson \in Probe /\ asJson.role = probe.role
          /\ asJson.tries = ProbeAttempts \/ probe.step \in {"none", "text", "tools"} \/ Asking(asJson)
      <3>1. base.tries + 1 \in 0 .. ProbeAttempts
        BY <1>2, <2>2
      <3>2. base.step = probe.step
        OBVIOUS
      <3>3. Asking(probe) /\ ProbeAttempts \in Nat
        BY <1>1, <1>2
      <3> HIDE DEF base, seen
      <3>4. asJson \in Probe /\ asJson.role = probe.role
        BY <2>2, <2>3, <3>1 DEF Probe
      <3>5. asJson.step = probe.step /\ asJson.tries = base.tries + 1
        BY <2>2, <3>2 DEF Probe
      <3> HIDE DEF asJson
      <3> QED
        BY <1>4, <3>1, <3>3, <3>4, <3>5 DEF Asking
    <2>7. \A p \in Probe : Enough(p) \in BOOLEAN /\ (Enough(p) => p.tool \/ p.json)
      BY DEF Enough, Probe
    <2>8. CASE probe.step = "text"
      <3>1. Judge(probe, FALSE) \/ GoOn(asText)
        BY <2>1, <2>8, Zenon
      <3> HIDE DEF asText
      <3> QED
        BY <1>1, <2>4, <3>1, VerdictFacts, OnwardFacts
    <2>9. CASE probe.step = "tools"
      <3>1. IF seen THEN Judge(asTools, Enough(asTools)) ELSE GoOn(asTools)
        BY <2>1, <2>9
      <3> HIDE DEF seen, asTools
      <3> QED
        BY <1>1, <2>5, <2>7, <3>1, VerdictFacts, OnwardFacts
    <2>10. CASE probe.step \notin {"text", "tools"}
      <3>1. IF seen \/ asJson.tries = ProbeAttempts THEN Judge(asJson, Enough(asJson))
            ELSE GoOn(asJson)
        BY <2>1, <2>10
      <3>2. probe.step # "none"
        BY <1>1 DEF Asking
      <3> HIDE DEF seen, asJson
      <3> QED
        BY <1>1, <2>6, <2>7, <2>10, <3>1, <3>2, VerdictFacts, OnwardFacts
    <2> QED
      BY <2>8, <2>9, <2>10
  <1> QED
    BY <1>3, <1>4 DEF Probed

\* The next task is taken, or there is none left.
LEMMA TurnFacts == ASSUME RunInv, NextTask \/ TasksDone PROVE RunInv'
  <1>1. HasMetadata /\ at = "tasks" /\ status = "none"
    BY DEF RunInv, SetupInv, RowInv, NextTask, TasksDone, Late
  <1>2. CASE NextTask
    <2>1. PICK t \in todo : task' = t /\ todo' = todo \ {t}
      <3>1. NextOf(todo) \in todo
        BY <1>2 DEF NextTask, NextOf
      <3> QED
        BY <1>2, <3>1 DEF NextTask
    <2>2. /\ steps' = 0 /\ at' = "turn"
          /\ UNCHANGED <<conf, warm, probe, verdicts, protocol, lifecycle, verifier, rows, status>>
      BY <1>2 DEF NextTask, TaskFrame
    <2>3. FieldsInv' /\ VerdictInv'
      <3>1. steps' \in 0 .. StepMax
        BY <2>2, RunGroupAssumption
      <3>2. FieldsInv'
        BY <2>1, <2>2, <3>1, ZenonT(40) DEF RunInv, FieldsInv, Attempting
      <3>3. VerdictInv'
        BY <1>1, <2>2 DEF RunInv, VerdictInv, Attempting
      <3> QED
        BY <3>2, <3>3
    <2>4. RowInv'
      BY <1>1, <2>1, <2>2, ZenonT(40) DEF RunInv, FieldsInv, RowInv, Attempting, Early, Late,
                              ProviderSetupError, HaveRows
    <2> QED
      BY <1>1, <2>2, <2>3, <2>4, SetupKept DEF RunInv
  <1>3. CASE TasksDone
    <2>1. /\ todo = {} /\ status' = "completed" /\ at' = "closing"
          /\ UNCHANGED <<conf, warm, probe, verdicts, protocol, lifecycle, verifier, todo, task,
                         steps, rows>>
      BY <1>3 DEF TasksDone, TaskFrame
    <2>2. FieldsInv' /\ VerdictInv' /\ RowInv'
      BY <1>1, <2>1, ZenonT(40) DEF RunInv, FieldsInv, VerdictInv, RowInv, Attempting, Early, Late,
                        ProviderSetupError, HaveRows
    <2> QED
      BY <1>1, <2>1, <2>2, SetupKept DEF RunInv
  <1> QED
    BY <1>2, <1>3

\* A step of an attempt, after which it goes on or has its row.
LEMMA AttemptFacts ==
  ASSUME RunInv, at \in Attempting, TaskFrame, UNCHANGED <<todo, task, status>>,
         steps' \in 0 .. StepMax,
         \/ at' \in Attempting /\ rows' = rows
         \/ \E row \in {"request_failed", "returned"} : EndTask(row)
  PROVE  RunInv'
  <1>1. /\ HasMetadata /\ status = "none" /\ task \in Task
        /\ UNCHANGED <<conf, warm, probe, verdicts, protocol, lifecycle, verifier>>
    BY DEF RunInv, SetupInv, RowInv, Attempting, Late, TaskFrame
  <1>2. CASE at' \in Attempting /\ rows' = rows
    <2>1. FieldsInv' /\ VerdictInv'
      BY <1>1, <1>2, ZenonT(40) DEF RunInv, FieldsInv, VerdictInv, Attempting
    <2>2. RowInv'
      BY <1>1, <1>2 DEF RunInv, RowInv, Attempting, Early, Late, ProviderSetupError, HaveRows
    <2>3. at \notin {"setup", "written"} /\ at' \notin {"setup", "warmed"}
      BY <1>2 DEF Attempting
    <2> QED
      BY <1>1, <2>1, <2>2, <2>3, SetupKept DEF RunInv
  <1>3. CASE \E row \in {"request_failed", "returned"} : EndTask(row)
    <2>1. PICK row \in {"request_failed", "returned"} :
            rows' = [rows EXCEPT ![task] = row] /\ at' = "tasks"
      BY <1>3 DEF EndTask
    <2>2. FieldsInv' /\ VerdictInv'
      BY <1>1, <2>1, ZenonT(40) DEF RunInv, FieldsInv, VerdictInv, Attempting, Early, Late
    <2>3. RowInv'
      BY <1>1, <2>1, ZenonT(40) DEF RunInv, FieldsInv, RowInv, Attempting, Early, Late, ProviderSetupError,
                        HaveRows
    <2>4. at \notin {"setup", "written"} /\ at' \notin {"setup", "warmed"}
      BY <2>1 DEF Attempting
    <2> QED
      BY <1>1, <2>2, <2>3, <2>4, SetupKept DEF RunInv
  <1> QED
    BY <1>2, <1>3

\* The steps of an attempt, up to its row.
LEMMA AttemptSteps ==
  ASSUME RunInv, \/ Ask \/ Driven \/ UseServer \/ Looked \/ Check \/ AskProver \/ Drafted
                 \/ EndTurn \/ TaskReturns
  PROVE  RunInv'
  <1>1. steps \in 0 .. StepMax /\ (steps < StepMax => steps + 1 \in 0 .. StepMax)
    <2>1. steps \in 0 .. StepMax /\ StepMax \in Nat
      BY RunGroupAssumption DEF RunInv, FieldsInv
    <2> QED
      BY <2>1
  <1> USE DEF Attempting
  <1>2. CASE Ask \/ UseServer \/ Check \/ AskProver
    BY <1>1, <1>2, AttemptFacts DEF Ask, UseServer, Check, AskProver, Acting
  <1>3. CASE Driven \/ Looked \/ Drafted
    BY <1>1, <1>3, AttemptFacts DEF Driven, Looked, Drafted
  <1>4. CASE EndTurn \/ TaskReturns
    BY <1>1, <1>4, AttemptFacts DEF EndTurn, TaskReturns
  <1> QED
    BY <1>2, <1>3, <1>4

\* An exception keeps the finished rows; the session is closed.
LEMMA FailFacts == ASSUME RunInv, HarnessFails \/ CloseGroup PROVE RunInv'
  <1>1. HasMetadata
    BY DEF RunInv, SetupInv, HarnessFails, CloseGroup
  <1>2. CASE HarnessFails
    <2>1. /\ at \in {"turn", "acting"} /\ status' = "harness_error" /\ at' = "closing"
          /\ UNCHANGED <<conf, warm, probe, verdicts, protocol, lifecycle, verifier, todo, task,
                         steps, rows>>
      BY <1>2 DEF HarnessFails, TaskFrame
    <2>2. FieldsInv' /\ VerdictInv'
      BY <2>1, ZenonT(40) DEF RunInv, FieldsInv, VerdictInv, Attempting, Early, Late
    <2>3. RowInv'
      BY <2>1 DEF RunInv, RowInv, Attempting, Early, Late, ProviderSetupError, HaveRows
    <2> QED
      BY <1>1, <2>1, <2>2, <2>3, SetupKept DEF RunInv
  <1>3. CASE CloseGroup
    <2>1. /\ at = "closing" /\ at' = "report" /\ lifecycle' \in {lifecycle, "completed"}
          /\ UNCHANGED <<conf, warm, probe, verdicts, protocol, todo, task, steps, rows, status,
                         verifier>>
      BY <1>3 DEF CloseGroup
    <2>2. FieldsInv' /\ VerdictInv' /\ RowInv'
      <3>1. lifecycle' \in {"none", "not_attempted", "started", "completed"}
        BY <2>1, ZenonT(40) DEF RunInv, FieldsInv
      <3>2. FieldsInv'
        BY <2>1, <3>1, ZenonT(40) DEF RunInv, FieldsInv, Late
      <3>3. VerdictInv' /\ RowInv'
        BY <2>1 DEF RunInv, VerdictInv, RowInv, Attempting, Early, Late, ProviderSetupError,
                    HaveRows
      <3> QED
        BY <3>2, <3>3
    <2>3. SetupInv'
      BY <1>1, <2>1, SameSetup DEF RunInv, SetupInv
    <2> QED
      BY <2>2, <2>3 DEF RunInv
  <1> QED
    BY <1>2, <1>3

\* What is written of a run.
LEMMA ReportFacts == ASSUME RunInv, Report PROVE RunInv'
  <1>1. /\ at = "report" /\ at' = "written" /\ rows' = Filled
        /\ verifier' = IF Skips THEN "skipped" ELSE "ran"
        /\ UNCHANGED <<conf, warm, probe, verdicts, protocol, todo, task, steps, status, lifecycle,
                       lastId>>
    BY DEF Report, Elsewhere, mcpVars
  <1>2. /\ ProviderSetupError => rows' = AllRows("preflight_failed")
        /\ ~ProviderSetupError => rows' = rows
    BY <1>1 DEF RunInv, RowInv, Filled, AllRows
  <1>3. FieldsInv'
    BY <1>1, <1>2, ZenonT(40) DEF RunInv, FieldsInv, Late, AllRows
  <1>4. VerdictInv' /\ RowInv'
    BY <1>1, <1>2 DEF RunInv, VerdictInv, RowInv, Attempting, Early, Late, ProviderSetupError,
                      HaveRows, AllRows
  <1>5. Skips => todo = Task
    <2>1. WarmFailed => ~HasMetadata
      BY DEF HasMetadata
    <2> QED
      BY <2>1 DEF Skips, RunInv, RowInv, SetupInv, HasActivity
  <1>6. SetupInv'
    BY <1>1, <1>5, SameSetup DEF RunInv, SetupInv, HasActivity
  <1> QED
    BY <1>3, <1>4, <1>6 DEF RunInv

\* The transport, the client and the server take their steps by themselves.
LEMMA OwnSteps ==
  ASSUME SessionInv, RunInv, Chat \/ Client \/ Server \/ UNCHANGED allVars
  PROVE  RunInv'
  <1>1. UNCHANGED <<conf, at, warm, probe, verdicts, protocol, todo, task, steps, rows, status,
                    lifecycle, verifier>>
    BY DEF Chat, Client, Server, allVars, groupVars
  <1>2. lastId' = lastId \/ at \in {"starting", "looking"}
    <2>1. CASE Chat \/ UNCHANGED allVars
      BY <2>1 DEF Chat, allVars, mcpVars
    <2>2. CASE Server
      BY <2>2 DEF Server, ServerStep, ServerAnswers, ServerNotifies, ServerExits
    <2>3. CASE Client
      <3>1. asked # NoRequest
        BY <2>3 DEF Client, ClientStep, TimeOut, SeesExit, SkipLine, ReadFailure, ReadInitialized,
                    ReadTools, ToolsMissing, ReadResult, RequestRaises, Answers, Readable
      <3> QED
        BY <3>1 DEF SessionInv
    <2> QED
      BY <2>1, <2>2, <2>3
  <1>3. FieldsInv' /\ VerdictInv' /\ RowInv'
    <2>1. FieldsInv'
      <3>1. FieldsInv
        BY DEF RunInv
      <3>2. /\ conf' = conf /\ at' = at /\ warm' = warm /\ verdicts' = verdicts
            /\ protocol' = protocol /\ todo' = todo /\ task' = task /\ steps' = steps
            /\ rows' = rows /\ status' = status /\ lifecycle' = lifecycle
            /\ verifier' = verifier
        BY <1>1
      <3>3. /\ conf' \in Configs /\ at' \in Early \cup {"tasks"} \cup Attempting \cup Late
            /\ warm' \in {"none", "passed", "dependencies failed", "targets timed out"}
        BY <3>1, <3>2, ZenonT(40) DEF FieldsInv
      <3>4. /\ verdicts' \in [Role -> {"none", "passed", "failed"}]
            /\ protocol' \in [tool : BOOLEAN, json : BOOLEAN] /\ todo' \subseteq Task
            /\ task' \in Task \cup {"none"} /\ steps' \in 0 .. StepMax
        BY <3>1, <3>2, ZenonT(40) DEF FieldsInv
      <3>5. /\ rows' \in [Task -> {"none", "setup_failed", "preflight_failed", "request_failed",
                                   "returned"}]
            /\ status' \in {"none", "dry_run", "missing_credentials", "preflight_failed",
                            "completed_with_failures", "completed", "harness_error"}
            /\ lifecycle' \in {"none", "not_attempted", "started", "completed"}
            /\ verifier' \in {"none", "skipped", "ran"}
        BY <3>1, <3>2, ZenonT(40) DEF FieldsInv
      <3> QED
        BY <3>3, <3>4, <3>5 DEF FieldsInv, Early, Attempting, Late
    <2>2. VerdictInv'
      BY <1>1 DEF RunInv, VerdictInv
    <2>3. RowInv'
      BY <1>1 DEF RunInv, RowInv, ProviderSetupError, HaveRows
    <2> QED
      BY <2>1, <2>2, <2>3
  <1>4. SetupInv'
    <2>1. HasActivity' => HasActivity \/ at \in {"starting", "looking"}
      BY <1>1, <1>2 DEF HasActivity
    <2> QED
      BY <1>1, <2>1, SameSetup DEF RunInv, SetupInv
  <1> QED
    BY <1>3, <1>4 DEF RunInv

\* Every step keeps the course of the run.
LEMMA RunFacts ==
  ASSUME SessionInv, RunInv, GroupNext \/ UNCHANGED allVars
  PROVE  RunInv'
  BY WarmUpFacts, SetupFacts, StartedFacts, AskedFacts, ProbeEnds, TurnFacts, AttemptSteps,
     FailFacts, ReportFacts, OwnSteps
     DEF GroupNext, Harness

\* The run starts with nothing done.
LEMMA RunBegins == GroupInit => RunInv
  <1> SUFFICES ASSUME GroupInit PROVE RunInv
    OBVIOUS
  <1>1. FieldsInv
    BY RunGroupAssumption DEF GroupInit, FieldsInv, Early
  <1>2. VerdictInv
    BY FirstFacts DEF GroupInit, VerdictInv, Role, Attempting
  <1>3. RowInv
    BY DEF GroupInit, RowInv, Early, Late, Attempting, AllRows, ProviderSetupError
  <1>4. SetupInv
    BY DEF GroupInit, McpInit, SetupInv, HasActivity
  <1> QED
    BY <1>1, <1>2, <1>3, <1>4 DEF RunInv

\* The invariant with the course of the run.
THEOREM Course == GroupSpec => [](IInv /\ RunInv)
  <1>1. IInv /\ RunInv /\ [GroupNext]_allVars => RunInv'
    BY RunFacts DEF IInv
  <1> QED
    BY <1>1, Invariance, RunBegins, PTL DEF GroupSpec

\* Wherever a run of several tasks stops, its rows, its verifier and its protocol
\* tell what was done (run_group).
THEOREM RunIsAccounted == GroupSpec => []RunAccounted
  <1>1. IInv /\ RunInv => RunAccounted
    <2> SUFFICES ASSUME IInv, RunInv PROVE RunAccounted
      OBVIOUS
    <2>1. GroupTypeOK
      BY DEF IInv, ChatInv, McpInv, RunInv, FieldsInv, VerdictInv, Probe, Early, Attempting, Late,
             GroupTypeOK
    <2>2. SkippedMeansUntouched /\ EveryTaskAccounted
      BY DEF RunInv, FieldsInv, RowInv, SetupInv, Late, HaveRows, ProviderSetupError,
             SkippedMeansUntouched, EveryTaskAccounted
    <2>3. ProtocolObserved
      BY DEF RunInv, VerdictInv, Attempting, ProtocolObserved, NativeTools
    <2> QED
      BY <2>1, <2>2, <2>3 DEF RunAccounted
  <1> QED
    BY <1>1, Course, PTL

\* What a run writes passes the check of the artifacts, however far it came
\* (check_run of scripts/check_run_artifacts.py).
THEOREM ArtifactIsAccepted == GroupSpec => []ArtifactAccepted
  <1>1. RunInv => ArtifactAccepted
    <2> SUFFICES ASSUME RunInv, at = "written", conf.dry \/ (Available <=> Usable) PROVE CheckRun
      BY DEF ArtifactAccepted
    <2>1. /\ warm \in {"none", "passed", "dependencies failed", "targets timed out"}
          /\ warm = "none" <=> conf.dry \/ ~Available
          /\ lifecycle = Lifecycle(warm) \/ (lifecycle = "completed" /\ HasMetadata)
          /\ ~HasMetadata => ~HasActivity
      BY DEF RunInv, FieldsInv, SetupInv
    <2> QED
      BY <2>1 DEF CheckRun, Lifecycle, HasMetadata, WarmFailed
  <1> QED
    BY <1>1, Course, PTL
===============================================================================
