----------------------------- MODULE ReleaseCycle -----------------------------
(***************************************************************************)
(* How runs of one model become published results.  The repository changes *)
(* between versions; compute_fingerprints.py freezes a version;            *)
(* recover_version_results.py indexes the stored runs into the version's   *)
(* manifest; plan_rerun.py says which results of one version stand in      *)
(* another; aggregate_runs.py, in the benchmark workflow, merges new runs  *)
(* into the table that the last workflow published.                        *)
(***************************************************************************)
EXTENDS RunVerdict, Naturals, Sequences, FiniteSets, FiniteSetsExt

CONSTANTS
  Task,
  Outcomes,    \* the artifacts a run may leave here
  RunMax,      \* bound: runs
  EditMax,     \* bound: changes of the repository
  VersionMax   \* bound: versions

ASSUME ReleaseAssumption ==
  /\ IsFiniteSet(Task)
  /\ Outcomes \subseteq Artifact
  /\ RunMax \in Nat /\ EditMax \in Nat /\ VersionMax \in Nat

VARIABLES
  repo,      \* the repository
  edits,     \* its changes so far
  versions,  \* benchmark-versions/: what each version froze
  runs,      \* the stored runs in the order they started
  manifest,  \* the model's entry in the results manifest of each version
  board,     \* results.json of the benchmark workflow
  fresh,     \* runs before this one were in an earlier workflow
  since      \* runs before this one are not on the board

vars == <<repo, edits, versions, runs, manifest, board, fresh, since>>

\* What a task's files and manifest say to an execution, and the rest of its
\* manifest; both belong to the fingerprint, which hashes whole files.
Source == [exec : Nat, notes : Nat]

Repo == [suite : SUBSET Task, source : [Task -> Source], harness : Nat, env : Nat]

NoEntry == [status |-> "none"]

NoRow == [run |-> 0]

Init ==
  /\ repo = [suite |-> Task, source |-> [t \in Task |-> [exec |-> 0, notes |-> 0]],
             harness |-> 0, env |-> 0]
  /\ edits = 0
  /\ versions = <<>>
  /\ runs = <<>>
  /\ manifest = [v \in 1 .. VersionMax |-> NoEntry]
  /\ board = [t \in Task |-> NoRow]
  /\ fresh = 0
  /\ since = 0

-----------------------------------------------------------------------------
(* The repository, its versions and the runs.                              *)

Fingerprint(v, t) == versions[v].source[t]

Interface(v, t) == versions[v].source[t].exec

Edit ==
  /\ edits < EditMax
  /\ edits' = edits + 1
  /\ \/ \E t \in Task : repo' = [repo EXCEPT !.source[t].exec = 1 - @]
     \/ \E t \in Task : repo' = [repo EXCEPT !.source[t].notes = 1 - @]
     \/ \E t \in Task : repo' = [repo EXCEPT !.suite = IF t \in @ THEN @ \ {t} ELSE @ \cup {t}]
     \/ repo' = [repo EXCEPT !.harness = 1 - @]
     \/ repo' = [repo EXCEPT !.env = 1 - @]
  /\ UNCHANGED <<versions, runs, manifest, board, fresh, since>>

\* build_version_manifest
Freeze ==
  /\ Len(versions) < VersionMax
  /\ versions' = Append(versions, repo)
  /\ UNCHANGED <<repo, edits, runs, manifest, board, fresh, since>>

\* A run that a kill leaves without a whole run.json is read by no script: here it
\* is no run.
RunTask(t) ==
  /\ Len(runs) < RunMax /\ t \in repo.suite
  /\ \E a \in Outcomes :
       runs' = Append(runs, [task |-> t, left |-> a, source |-> repo.source[t],
                             harness |-> repo.harness, env |-> repo.env])
  /\ UNCHANGED <<repo, edits, versions, manifest, board, fresh, since>>

-----------------------------------------------------------------------------
(* scripts/recover_version_results.py                                      *)

Flag(b) == IF b THEN 1 ELSE 0

SortKeyMutant(i) == <<0, 0, i>>

\* run_sort_key
SortKey(i) == <<Flag(runs[i].left.harness \in CompletedHarness),
                Flag(runs[i].left.tokens), i>>

Below(k, l) ==
  \E p \in 1 .. 3 : k[p] < l[p] /\ \A q \in 1 .. p - 1 : k[q] = l[q]

RunsOf(t) == {i \in DOMAIN runs : runs[i].task = t}

\* The run of the task that the index takes of those it sees.
Selected(t, seen) ==
  CHOOSE i \in RunsOf(t) \cap seen :
    \A j \in (RunsOf(t) \cap seen) \ {i} : Below(SortKey(j), SortKey(i))

NoCaveats == [partial |-> 0, invalid |-> 0]

\* The context a digest stands for.
ResultKey(v, t, caveats) ==
  [version |-> v, task |-> t, fingerprint |-> Fingerprint(v, t),
   interface |-> Interface(v, t), harness |-> versions[v].harness,
   env |-> versions[v].env, caveats |-> caveats]

\* "reusable" of a row: the stored verdict is taken for a verdict.
Counts(a) ==
  /\ a.harness \in CompletedHarness
  /\ a.tokens
  /\ IsPass(a) \/ ~ProviderInvalid(a)

\* One task of the model's entry.
IndexedRow(v, t, seen, caveats) ==
  LET i == Selected(t, seen)
      a == runs[i].left
  IN
    [run |-> i,
     completed |-> a.harness \in CompletedHarness,
     tokens |-> a.tokens,
     passed |-> IsPass(a),
     provider_invalid |-> ~IsPass(a) /\ ProviderInvalid(a),
     reusable |-> Counts(a),
     fingerprint |-> Fingerprint(v, t),
     interface |-> Interface(v, t),
     key |-> ResultKey(v, t, caveats)]

Valid(row) == row.reusable \/ row.passed

\* build_model_entry: the caveat about invalid rows comes after the keys.
Entry(v, seen) ==
  LET tasks == versions[v].suite
      covered == {t \in tasks : RunsOf(t) \cap seen # {}}
      coverage == [NoCaveats EXCEPT !.partial =
                     IF covered = tasks THEN 0 ELSE Cardinality(covered) + 1]
      rows == [t \in covered |-> IndexedRow(v, t, seen, coverage)]
      valid == {t \in covered : Valid(rows[t])}
      passed == {t \in covered : rows[t].passed}
  IN [rows |-> rows,
      caveats |-> [coverage EXCEPT !.invalid = Cardinality(covered \ valid)],
      passed |-> Cardinality(passed),
      failed |-> Cardinality(valid) - Cardinality(passed),
      invalid |-> Cardinality(covered \ valid),
      status |-> IF covered = tasks /\ valid = tasks THEN "complete"
                 ELSE IF covered # {} THEN "partial" ELSE "invalid"]

\* It is made again of the runs that iter_runs sees: a directory that is not there
\* and a run.json that cannot be read are passed over with a warning.
Recover(v, seen) ==
  /\ v \in DOMAIN versions
  /\ manifest' = [manifest EXCEPT ![v] = Entry(v, seen)]
  /\ UNCHANGED <<repo, edits, versions, runs, board, fresh, since>>

-----------------------------------------------------------------------------
(* scripts/plan_rerun.py                                                   *)

\* reusable_result
ReusableResult(row) == row.tokens /\ ~row.provider_invalid /\ row.completed

\* stored_result_mismatch is None
StoredMatches(row, from, to, t, caveats) ==
  /\ row.fingerprint = Fingerprint(to, t)
  /\ row.interface = Interface(to, t)
  /\ row.key = ResultKey(from, t, caveats)

VersionsAgreeMutant(from, to, allowEnv) ==
  versions[from].env = versions[to].env \/ allowEnv

VersionsAgree(from, to, allowEnv) ==
  /\ versions[from].harness = versions[to].harness
  /\ versions[from].env = versions[to].env \/ allowEnv

\* The tasks of "to" whose result under "from" stands; the others are rerun.
Reused(from, to, allowEnv) ==
  IF ~VersionsAgree(from, to, allowEnv) \/ manifest[from] = NoEntry THEN {}
  ELSE LET entry == manifest[from] IN
    {t \in versions[to].suite \cap versions[from].suite :
       /\ Interface(from, t) = Interface(to, t)
       /\ Fingerprint(from, t) = Fingerprint(to, t)
       /\ t \in DOMAIN entry.rows
       /\ ReusableResult(entry.rows[t])
       /\ StoredMatches(entry.rows[t], from, to, t, entry.caveats)}

-----------------------------------------------------------------------------
(* scripts/aggregate_runs.py and .github/workflows/benchmark.yml           *)

\* A row that collect_runs makes of a run.
CollectedRow(i) ==
  LET a == runs[i].left IN
    [run |-> i, valid |-> RowValid(a), passed |-> RowValid(a) /\ IsPass(a),
     reusable |-> ClassifiedReusable(a)]

\* _dedupe_latest, for the rows of one task
Latest(rows) == CHOOSE r \in rows : \A s \in rows : s.run <= r.run

\* One workflow: the previous table is merged if it could be fetched.
Publish ==
  /\ fresh < Len(runs)
  /\ \E fetched \in BOOLEAN :
       /\ board' = [t \in Task |->
            LET old == IF fetched THEN {board[t]} ELSE {NoRow}
                new == {CollectedRow(i) : i \in {j \in RunsOf(t) : j > fresh}}
            IN Latest(old \cup new)]
       /\ since' = IF fetched THEN since ELSE fresh
  /\ fresh' = Len(runs)
  /\ UNCHANGED <<repo, edits, versions, runs, manifest>>

Next ==
  \/ Edit
  \/ Freeze
  \/ \E t \in Task : RunTask(t)
  \/ \E v \in 1 .. VersionMax, seen \in SUBSET DOMAIN runs : Recover(v, seen)
  \/ Publish

Spec == Init /\ [][Next]_vars

-----------------------------------------------------------------------------
(* Properties.                                                             *)

Indexed == {v \in DOMAIN versions : manifest[v] # NoEntry}

Rows(v) == manifest[v].rows

TypeOK ==
  /\ repo \in Repo /\ edits \in 0 .. EditMax
  /\ \A v \in DOMAIN versions : versions[v] \in Repo
  /\ \A i \in DOMAIN runs : runs[i].task \in Task /\ runs[i].left \in Outcomes
  /\ \A v \in Indexed :
       /\ manifest[v].status \in {"complete", "partial", "invalid"}
       /\ DOMAIN Rows(v) \subseteq versions[v].suite
       /\ \A t \in DOMAIN Rows(v) : Rows(v)[t].run \in RunsOf(t)
  /\ \A t \in Task : board[t].run \in RunsOf(t) \cup {0}
  /\ since <= fresh /\ fresh <= Len(runs)

\* "A result row is complete only when every task has a valid selected
\* artifact": a ranked entry counts a verdict of the model on each task of the
\* version, and no row of an entry is counted twice or as another's (Entry).
CompleteIsDecided ==
  \A v \in Indexed :
    LET m == manifest[v] IN
      /\ m.passed + m.failed + m.invalid = Cardinality(DOMAIN m.rows)
      /\ m.status = "complete" =>
           /\ DOMAIN m.rows = versions[v].suite
           /\ \A t \in DOMAIN m.rows :
                LET a == runs[m.rows[t].run].left IN
                  \/ IsPass(a)
                  \/ /\ a.tokens
                     /\ a.work \/ a.row # "request_failed" \/ a.verdict \in GenuineVerdicts

\* The run that a row stands for was made in the context of the version.
MadeUnder(i, v) ==
  LET r == runs[i] IN
    /\ r.source = Fingerprint(v, r.task)
    /\ r.harness = versions[v].harness
    /\ r.env = versions[v].env

\* A result that was obtained in the context of the version it is indexed under
\* stands for another version only if nothing that the run depends on changed:
\* not the task, not the harness, and not the environment unless that was asked
\* for (plan_rerun).
ReuseIsCurrent ==
  \A from \in Indexed, to \in DOMAIN versions, allowEnv \in BOOLEAN :
    \A t \in Reused(from, to, allowEnv) :
      LET i == Rows(from)[t].run IN
        MadeUnder(i, from) =>
          MadeUnder(i, to) \/ (allowEnv /\ runs[i].env # versions[to].env)

\* Once every row of a complete entry is a verdict that may be reused, planning
\* the same version again reruns nothing.
SettledStaysSettled ==
  \A v \in Indexed :
    manifest[v].status = "complete" /\ (\A t \in DOMAIN Rows(v) : Rows(v)[t].reusable)
      => Reused(v, v, FALSE) = versions[v].suite

\* A solved row that the table alone refuses: requests were counted that used no
\* token, or strict roles left no submission of the prover.
RefusedByTable(a) ==
  a.unrouted \/ (JudgedStatus(a) = "lean_passed" /\ a.requests /\ ~a.tokens)

\* The manifest, the board and, for a run that was not broken off, the summary
\* of failures agree on whether a run solved its task, except on the rows that
\* RefusedByTable names (is_pass, collect_runs, classify_runs_dir).
SolvedTwice ==
  \A v \in Indexed : \A t \in DOMAIN Rows(v) :
    LET row == Rows(v)[t]
        a == runs[row.run].left
    IN
      /\ row.run = board[t].run =>
           board[t].passed = (row.passed /\ ~RefusedByTable(a))
      /\ row.completed => (row.passed <=> Outcome(a) = "passed")

\* "latest run per harness/model/task wins": the published table, merged by one
\* workflow after the other, is the aggregate of every run since the last
\* workflow that could not fetch it.
BoardIsAggregate ==
  \A t \in Task :
    LET covered == {i \in RunsOf(t) : since < i /\ i <= fresh} IN
      board[t] = IF covered = {} THEN NoRow ELSE CollectedRow(Max(covered))

\* In an index that is made again a run that was broken off or used no token
\* never replaces the result of a completed run with tokens, as long as the index
\* still sees that run; one that it does not see it loses (run_sort_key, iter_runs).
EvidenceNotDisplaced ==
  [][\A v \in Indexed : \A t \in DOMAIN Rows(v) :
       Rows(v)[t].completed /\ Rows(v)[t].tokens =>
         \/ /\ t \in DOMAIN manifest'[v].rows
            /\ manifest'[v].rows[t].completed /\ manifest'[v].rows[t].tokens
         \/ \A seen \in SUBSET DOMAIN runs : Recover(v, seen) => Rows(v)[t].run \notin seen]_vars

\* An entry counts what the runs decided, and every index reads the same verdict
\* off the same artifact (build_model_entry, collect_runs, classify_runs_dir).
IndexIsDecided == TypeOK /\ CompleteIsDecided /\ SolvedTwice

\* A plan reruns what changed and nothing that is settled (plan_rerun).
PlanIsSound == ReuseIsCurrent /\ SettledStaysSettled
=============================================================================
