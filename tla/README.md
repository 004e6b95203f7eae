# A TLA+ verification project for the Ethereum verification benchmark harness

The repository runs language models as proof-writing agents on Lean tasks about
smart contracts and scores what they hand in.  A score is worth something only
if the proof that is scored is the one the agent submitted under the rules of
its configuration, if a failure of the infrastructure is never taken for a
failure of the model, if a campaign that is killed and resumed neither loses a
verdict nor gives a second try, and if what is published counts what was run.
This directory models the control of the harness (`src/harness`, `src/scripts`,
`src/.github/workflows`) and checks and proves those claims.  The Lean benchmark
itself, its cases and its stored results are data to the harness and are not
modelled.

Contents: 1 the system, 2 the modules, 3 the runs, 4 findings, 5 proofs,
6 what is not modelled, 7 what could come next.

## 1. The system

| component | state | operations | used by |
|---|---|---|---|
| Verification lease, `harness/verify_lease.py` | one flock per slot file, a thread-local flag | poll, acquire, fall open, release, pass through when nested | scored verifier, in-loop Lean check, dependency warm, cache clone |
| Task attempt loop and its tools, `harness/runners/lean_tools.py` | counters of requests, calls, repetitions; the attempts; `prover_state`; the editable file | a request per iteration; `draft_proof`, `check_proof`, `try_tactics`, look-ups, `lean_*` calls | the group run |
| Transcript, in `lean_tools.py`, `transport_request.py`, `responses_transport.py` | messages, pending warning, cursor and consumed prefix of a Responses conversation | append, correct, warn, compact, replace, reorder, continue | the loop |
| Chat and Responses transport, `transport*.py`, `responses_transport.py` | process-wide streaming switch, attempt counter | request, retry, repeat without streaming, back off | preflight, loop, prover |
| Provider preflight, `transport_preflight.py` | none between probes | probes of each role, a verdict, the tool protocol | the group run |
| Lean LSP client, `lean_lsp_mcp_client.py` | server process, pipe, read buffer, request id, "files changed" flag | start, call, time out, skip, restart, close | the group run |
| Group run, `run_group` | phase, rows, status, recorded lifecycle | set-up, warm builds, session, preflight, tasks, close, report, verifier | `harness.cli` |
| Scored run: `verify_group`, `classification.py`, `verifier.py`, `result_validity.py` | the row of a task, the file, `final_class`, `run.json` | set-up, the loop, verification, classification | the group run, campaigns |
| Workspace builder, `workspace_builder.py` | shared cache with packages, artifacts and a sentinel; private clones | fetch, wait for checkouts, warm, clone, prune | the group run |
| Manifests, suites, frozen v0.2: `manifests.py`, `task_runner.py`, `cli.py`, `canonical_contract.py`, `validate_v02_reference_contract.py`, `run_all.sh` | the checkout, result files, a summary, a suite's `run.json` | preflight, list, run each task or group, aggregate | operators |
| STRAT-50 campaign, `run_strat50.py` | `results.json` and its temporary file, `cohort.json`, the list in memory, one lock, a lane per model | start and resume, run, save, retry, open the circuit, fail | operators |
| Cascade and supervisor, `run_minimax_complement_cascade.py`, `supervise_….sh` | results, logs, reports, PID file, a pool of workers | preflight, recover, run profile by profile, save, restart | operators |
| Versions, index, rerun plan, published table: `compute_fingerprints.py`, `recover_version_results.py`, `plan_rerun.py`, `aggregate_runs.py`, `benchmark.yml` | stored runs, versions, index, table on a branch | freeze, index, plan, publish | operators |
| Publication: `aggregate_version.py`, `package_benchmark_release.py` | a summary and a leaderboard per version, the current table, the index of versions, archives with their manifests | aggregate, package | operators |
| Check workflow: `check.yml`, `select_ci_cases.py`, `run_case.sh` | runs per concurrency group, one self-hosted runner | plan, compile, cancel | pushes and pull requests |
| Textual parts, validators, generators, plots | files | one-shot functions | all |

How they interact.  A campaign lane, a cascade worker or a suite spawns one
group run after the other.  A group run warms the shared cache and clones it
under leases, starts a Lean server, probes the endpoints, and drives its tasks
one by one.  A task is a loop of one thread over completions, tools and Lean
checks (leased).  Then the verifier builds the file that the loop left behind
(leased, and refused without a slot), the classification turns status, attempts
and verdict into SOLVED, GENUINE_FAIL or INFRA_INVALID, and `run.json` is
written.  Campaigns and cascades repeat what was INFRA_INVALID; the index, the
rerun plan and the table read the stored runs.

Where it is hard: processes share slot files, the cache, result files and a
runner in any order and may be killed at any step; the driver may call the tools
in any order and any number per response, while drafts, repairs, baselines, the
file, the transcript and the Lean server's view of the file are each kept
somewhere else; any step may fail after the file was written; answers come late;
files are rewritten in place; what is decided in one place is decided again, by
other rules, elsewhere.  `hazards` in `PROJECT.json` names each of these at its
line, with the property that covers it or the reason why none does.

What makes each component correct:

* lease: a counting semaphore; no slot leaks; nobody waits for itself or for
  ever; the scored verifier never exceeds the cap;
* loop: budgets hold, the attempt ends, the file is the last checked proof; in
  strict mode only the prover's drafts reach Lean and a repair edits the failure
  it was asked for;
* scored run: what is SOLVED is what the configuration's author of proofs wrote;
  evidence about the model and failures of the infrastructure are not mixed;
* transcript: each call of a request is answered, a result reaches the driver, and
  a continued conversation is the loop's transcript;
* transport: retries are bounded and not given up early; one endpoint's refusal
  is learned once;
* Lean client: an answer belongs to its call and to the current file;
* group run: it ends without a server, every task is accounted for, and its
  artifact says what happened;
* workspace: a clone is undisturbed, complete and free of hidden proofs;
* suites: a clean exit rests on fresh results; a v0.2 command that passes its checks
  has the release's tasks, proofs and pins; class, counts and exit status agree;
* campaign: one verdict per task, in panel order, never lost; one configuration
  per results file; bounded retries; it ends;
* cascade: budgets in order, nothing paid for twice or lost, and it ends;
* releases: entries count verdicts, reuse is current, ranks are earned, and what is
  published (tables, index, archives) agrees with the index it was made from;
* check workflow: every case that a change can affect, and that the routing can
  see, is compiled or flagged.

## 2. Modules

| module | models | state and actions against the code |
|---|---|---|
| `CountingSemaphore` | what the lease promises (abstract) | permits taken and given back |
| `VerifyLease` | `verify_lease.py` and its four callers | `owner` is the flock of each slot file, `held` the thread-local flag; a call enters (`EnterOpen`, `Enter`, `EnterNested`), polls (`Acquire`, `SlotTaken`, `Sleep`, `TimeOut`), runs its body (`Start`, `Refuse`, `Finish`, `CommandTimesOut`) and leaves (`Exit`, `ExitNested`, `Crash`) |
| `ProofTools` | `_execute_fair_tool` on proofs | `latest`, `pending`, `baseline`, `repairs`, `autoWrites` are entries of `prover_state`, `attempts` the recorded attempts, `disk` the editable file |
| `FairLoop` | `_attempt_task_fair` | extends `ProofTools` (where `config` is the roles and the tool backend that a task runs with) by the counters of the loop; an action per kind of response and per way a call is handled or refused |
| `ScoredTask` | `run_group` with one task, `verify_group`, `classify_target` | extends `FairLoop` by phases: set-up, the loop's own `Next`, verification, classification, exceptions and the loss of the run |
| `Transcript` | the messages of `_attempt_task_fair`, `_sanitize_tool_message_order`, the Responses continuation | `messages` as replies, users and assistant turns that carry the keys of the calls they are about; a call may have no id, no name or bad arguments, as far as each wire lets it through; `sent` is what the next request would hold; `state` the cursor and consumed prefix |
| `ChatRequest` | `chat_completion`, `responses_completion` | `call` is the completion in progress, `fallback` the global of the process; `Exchange`, `ExchangeAgain`, `BackOff` |
| `McpSession` | `LeanLspMcpSession` and the server (external) | `pipe` and `buffer` are separate, because `select` watches the one and `readline` fills the other; `disk` and `view` are versions of each file as written and as the server opened it |
| `RunGroup` | `run_group`, `transport_preflight.py` | extends `ChatRequest` and `McpSession`; `at` is the place in `run_group`, with an action per phase; `Available` and `Usable` are the two conditions on credentials, over the keys and the base URLs that need none; the attempt is reduced to its completions, calls of the server, writes of the file and ways to end |
| `WorkspaceCache` | `workspace_builder.py` | per runner a place, the modules left to warm, the copy in progress; shared: checkouts, artifacts, sentinel, lease holders; lake is external |
| `FrozenContract` | v0.2 contract and manifests as operators on a checkout, whose environment is in two parts: `pins`, which the preflight compares, and `packages`, which it does not | `ListPasses`, `PreflightPasses`, `Discovered`, `Runs`, `Plays` |
| `SuiteCommands` | `run_all.sh` with `task_runner.py`, `harness.cli run-suite` | `live` is the checkout, `results` the shared files, `proc` the commands |
| `Scoreboard` | what a campaign promises (abstract) | verdicts per model in panel order; announcement |
| `Strat50` | `run_strat50.py` | lanes (`LaneStart`, `Run`, `BeginSave`, `WriteTmp`, `Replace`, `Raise`, `NoteError`), `Start`, `Crash`, `Join` |
| `Cascade` | the cascade, its supervisor | `saved`, `logs`, `reports` on disk, `rows` in memory, `work` the pool; the steps of the runner, `Watch` and `Launch` of the supervisor, `Kill` |
| `RunVerdict` | what the scripts read off one artifact | `is_pass`, `provider_failure_reason`, `classify`, `row_validity` (zero tokens and strict roles included), as operators |
| `ReleaseCycle` | versions, index, plan, table | extends `RunVerdict`; `Edit`, `Freeze`, `RunTask`, `Recover`, `Publish`; an index is made of any of the stored runs, since `iter_runs` passes over what it cannot find or read |
| `Publication` | summaries, ranks, index of versions, archives | extends `ReleaseCycle`; `summary`, `leader`, `site` are the files of `aggregate_version.py` in the order it writes them, `archive` and `ledger` those of the packager; `Aggregate` and `Package` may be interrupted anywhere |
| `CiValidation` | `check.yml`, `select_ci_cases.py` | a tree gives each file a version; `Selection` is `select_changes`, `Affected` what really changed under a case, `Overlooked` what the former cannot see of the latter; `runs` holds the newest run of each concurrency group |
| `*_proofs` | theorems about the modules they extend or instantiate, and their proofs | section 5 |
| `MC*` | constants and symmetry sets for TLC | |

Composition.  `ScoredTask` contains the loop, `RunGroup` contains the transport
and the Lean client; the other modules meet through results: the body of a
leased section is one command, a lane's or worker's run is the class it ends
with, a stored run is a record of what its artifact says.

Abstractions.  A proof text is a member of `Body`, up to white space, which is
how drafts and submissions are compared; what Lean, the verifier's textual
checks, an endpoint and a driver say is nondeterministic.  A message is who said
it and which calls it is about.  A file is a version number, a digest is the
content it hashes, and time is a bounded number of polls or an action that may
happen at any moment.  Logs, reports, metrics that no decision reads, prices,
badges and all wording are left out.

## 3. Runs

| run | instance | properties |
|---|---|---|
| `lease` | 3 processes, 2 slots, nesting 1, one crash, directories that may fail | `SlotsAccounted`; the slot files implement the semaphore; `LeaseNeverBlocks`, `EveryCallReturns` |
| `loop` | a plain task, a strict one and one with an optional prover and a Lean session; a good, a rejected and a forbidden body, 2 calls per response, lists of 2 tactics, token budget | `AttemptAccounted`, `FileIsEvidence`, `EveryStepSpends`, `EveryAttemptEnds` |
| `task_strict` | a strict task from set-up to class: two bodies, two repairs, two automatic writes, 3 attempts | `StrictRolesKept`, `StrictScoreIsSound`, `GradedProofIsEvidence` |
| `chat_wire` | both wires, native and textual calls, all repair modes, 3 requests of up to 2 calls of any shape, nameless ones included | `RequestsWellFormed`, `ProviderSeesTranscript`, `ResultReachesDriver` |
| `group` | eleven settings, 2 tasks, endpoints that reject streaming, one death and one notification of the server | `RequestsBounded`, `AnswersAreCurrent`, `RunAccounted`, `ArtifactAccepted`, `GroupEnds` |
| `cache` | 2 runners, one slot, 2 public modules and a hidden one, a kill, leases that time out | `CacheIsShared`, `WorkspaceIsSound`, `WorkspaceComes` |
| `sweep` | 2 commands over 3 tasks of 2 cases, 2 edits of the checkout, kills, Git that may fail | `CleanExitIsEarned`, `FrozenMeansFrozen`, `SuiteVerdictIsEarned` |
| `strat` | 2 models, 2 tasks, 2 settings, threshold 2, 2 starts, crashes, failed saves | `CampaignSound`, `OneVerdict`, `RetriesBounded`, `LaneSpends`; the campaign implements the scoreboard |
| `cascade` | 2 tasks, 2 profiles, 1 or 2 workers, one retry, one kill | `CascadeInOrder`, `EvidenceKept`, `CascadeEnds` |
| `release` | 2 tasks, 2 runs of five kinds, one edit, 2 versions, an index of any of the runs, 4 rival models of which 2 share a public id, 2 aggregations or packages | `IndexIsDecided`, `PlanIsSound`, `RanksAreEarned`, `PublishedAgrees`, `EvidenceNotDisplaced` |
| `ci` | 2 cases that share a module, 2 branches, 2 edits, a manual request | `AffectedAreAnswered`, `MainIsCovered` |
| `ci_group` (violation) | as `ci` | section 4 |

A property that is a conjunction names its parts, each with its own comment in
the module; the type invariant is one of the parts.  A cfg says
`CHECK_DEADLOCK FALSE` where the program stops.  The largest run is `group`, with
1.5 million distinct states.

Bounds, and why they are enough.

* Lease: three processes on two slots are the least with a holder of each slot
  and a waiter; one nested section shows re-entrancy, one crash has a successor,
  two polls are a second round.  `lease.cfg` runs the scored verifier only, the
  one job that must not fall open; the theorems are for every set of jobs.
* Loop and scored run: two or three attempts allow a failure, its repair and the
  grade, two repairs a repair of a repair, lists of two tactics a pass, a
  rejection or an exhausted budget in the middle of a list.  `MaxTurns = 20`
  lets the other caps of the loop come first; the six turns of the scored run
  are what three attempts and their drafts take.
* Transcript: three requests are a turn, a change of the transcript and the
  request that has to show both; two calls per response are one that compacts and
  one that comes after it.
* Group: two attempts per completion and three steps per task let a call time
  out, its answer arrive during the next, and a restart fail before a third; the
  second task meets what the first left.  Two endpoints with one switch are
  enough for one to be refused while the other is not.  The settings hold both
  wires, a key of either, none, and base URLs that need none, so that the two
  conditions on credentials agree in eight and disagree in three.
* Cache: one runner that warms and one that clones, one module that is built and
  one that is not, one artifact that must not be seen.
* Suites: two overlapping commands; two edits are the least for a coordinated
  forgery, of task files, proofs, pins, packages, manifest and contract; the third
  task is active but not in the release.
* Campaign: two lanes give every interleaving of the list and the lock, two tasks
  an order, two starts a resume, two settings a foreign one.
* Cascade: two tasks give a pool with one task that raises and one that runs on,
  two profiles an order, one kill falls at every step.
* Releases: two runs of a task are an earlier and a later one, two versions and
  an edit are a reuse across a change.  The five kinds of artifact are a proof
  with and without tokens, an outage that left a verdict and so counts as a failure,
  one that left none, and a harness that broke after the proof.  `PageMax = 2` lets a
  call be interrupted and another one follow, for the same version or the other;
  publishing is explored without edits, beside runs that solved their task or left an
  outage (`Printed`), and without the benchmark workflow, which publishes on a branch of
  its own.  The rivals give equal rows that come before and after by their id, a
  worse one, a partial one, and two sources of one public id.
* Check workflow: three modules give a shared, an imported and a listed one; two
  edits give a move or a copy, a push and its successor.

Symmetry is used in safety runs only, over processes, bodies, models, settings
and tasks that no definition tells apart.

Fairness, and what in the code justifies it.

* `VerifyLease`: weak fairness of the poll loop, a loop of one thread that sleeps
  and compares a clock.  The bodies get none in `LeaseNeverBlocks`;
  `EveryCallReturns` has `BodyFairness` as its hypothesis: commands have
  timeouts, sections close.
* `FairLoop`: weak fairness of `Next`; the loop is one thread, and every request,
  tool and Lean run has a timeout.  It ends because no step is free
  (`EveryStepSpends`), not because of a choice of fairness.
* `RunGroup`: weak fairness of the harness, which has a timeout on everything it
  waits for; the server gets none and may stay silent.
* `WorkspaceCache`: weak fairness of each runner; fetches and builds are killed
  after a timeout, a lease that is not free falls open.
* `Cascade`: weak fairness of the runner, the supervisor's loop and its launch.
  Strong fairness of a preflight that passes and of a task that is answered: the
  provider comes back eventually, or nothing could complete.  Nothing makes a
  kill happen.

Each property of a passing run has a mutant: an operator `…Mutant` beside the
definition it changes, a mistake one could make in that code, which breaks the
property.  No specification uses these operators.

## 4. Findings

`ci_group`.  The comment at `check.yml:21` says that a pull request shares a
concurrency group with the push that created it.  `github.head_ref ||
github.ref` is `codex/x` for the one and `refs/heads/codex/x` for the other:
two runs of one commit go on side by side.

Disagreements with the text of the repository that the models reach and that are
kept as notes of the hazards, with the property stated around them by a premise or
an exception that has a name; without it TLC finds a counterexample:

* `select_ci_cases.py` says that it fails closed where a change cannot be attributed
  (lines 11-12).  A changed module selects the cases that list it, and asks for the
  full validation only when no case does (232-237): a case that imports the module,
  while another one lists it, is neither selected nor flagged (`Overlooked`, the
  exception of `AffectedAreAnswered` and `MainIsCovered`);
* a frozen run must fail closed when its live Lake environment is not the release's
  (`validate_v02_reference_contract.py:32-34`).  The preflight compares
  `lean-toolchain` and the Verity package (82-107); `lakefile.lean` and the other
  packages of `lake-manifest.json` may be anything (`packages`; `FrozenMeansFrozen`
  claims the tasks, the reference proofs and the `pins`);
* "A passing verdict is always genuine", says the index
  (`recover_version_results.py:127`, `150`).  `row_validity` refuses a solved row whose
  counted requests used no token (`result_validity.py:83-85`), which the runner can
  write (`lean_tools.py:2670-2677`), and a row of strict roles without a submission of
  the prover; the table then has the run as invalid, the version's entry as solved
  (`RefusedByTable`, the exception of `IndexIsDecided`);
* only four paths may end before a launch of the server is tried
  (`lean_tools.py:3331`), and the recorded lifecycle says which.  It is computed from
  any key or a local endpoint at the effective URL (3265); the branch for missing
  credentials asks for the key of the wire or a local endpoint at the base URL
  (3360-3364).  A Responses key on the chat wire, or a local Responses URL beside a
  remote base URL, stops for missing credentials under `started`; a remote Responses
  URL beside a local base URL starts the server under `not_attempted`.
  `check_run_artifacts.py:249-290` refuses all of these (`Available <=> Usable`, the
  premise of `ArtifactAccepted`);
* "A native assistant tool call must be answered by the matching tool result"
  (`lean_tools.py:2595`).  A function call of the Responses wire that has an id and no
  name passes the transport (`responses_transport.py:149-153`), is corrected by a user
  message, and the conversation goes on with the call unanswered (`Unanswered`, the
  exception of `RequestsWellFormed`);
* a scored verification that times out kills `lake` only; its Lean processes may
  run beside `cap` others (`verifier.py:48` against `verify_lease.py:10`);
* a write draft after a repair draft is graded as the repair, and a repair of a
  body that never reached Lean counts as `repair_improved` (`lean_tools.py:1937`,
  `2095`);
* an exception of the harness ends as GENUINE_FAIL (`lean_tools.py:3519` against
  `run_strat50.py:5`);
* three identical texts end as `repetition_loop` and GENUINE_FAIL, and a declined
  forbidden token makes a later request failure GENUINE_FAIL, against the
  comments of `classification.py:27`;
* a compaction between two calls of one response leaves the later result without
  its turn (`lean_tools.py:3178` against `check_fair_harness_policy.py:501`);
* one invalid row makes every other row of its index entry a mismatch, and all
  are run again; an outage before the first submission counts as a failed proof
  (`recover_version_results.py:193`, `infra_failures.py:187`, against
  `docs/running-benchmark.md:173`).

Observed, where the repository states nothing to the contrary:

* transports: a chat event stream that is cut is accepted as complete; one of the
  Responses API raises past the retry loop; the Responses loop ignores
  `Retry-After`; a Lean server that died is not restarted until a proof was
  written;
* cache: with more than one slot a warm and a clone may overlap (`CloneUndisturbed`
  needs one slot, the default); the fetch is called best effort, but on a cold
  cache the build needs it; hard-linked clones share inodes with the cache;
* ids of runs have the resolution of a second;
* cascade: a kill between the results and the combined file leaves the latter
  old; a retried attempt leaves its evidence in a log with an empty `run_dir`;
  `is_complete` looks at the last profile vacuously; children outlive a killed
  runner;
* publication: ranks are kept under the public id, so that two sources of one id
  show the last of their places and a partial one gets a rank
  (`aggregate_version.py:324` against the `ranking_policy` it writes at line 369;
  the aliases of `xiaomi-mimo-v2-5` are such a pair); a torn summary is skipped
  from the next index without a word; aggregating an older version makes it the
  latest again;
* index: a runs directory that is missing and a `run.json` that cannot be read are
  passed over with a warning, and the entry is replaced, so that a completed run can
  be displaced by one that broke off (`EvidenceNotDisplaced` speaks of
  the runs that the index sees); `run_sort_key` is not the latest valid artifact;
  `task_entry` hashes all of `task.yaml`, so that an edit of a title forbids reuse;
  the summary of failures and the index read a harness that broke after a proof
  differently; an index stamps today's fingerprints on old runs;
* table: a fetch that fails followed by the forced push loses the earlier rows;
* check workflow: `full` only prints a notice; the cases of a main run that
  failed or was cancelled are compiled by no later push; `run_case.sh` builds the
  `lean_target`, and the closure of 11 of 53 targets holds no `Proofs`;
* transport: without a key the Responses wire fails at its first request also where
  a local endpoint needs none; its requests go to the base URL, while `run.json`
  records the effective one (`lean_tools.py:2717`, `3263`);
* suites: an empty suite exits with 0 and is GENUINE_FAIL; one with failed targets is
  reusable; edits after a command's last check are not looked at; a list that fails
  in `run_all.sh` is an empty list, and the aggregate then finds older results; a
  group that raises ends the suite without its `run.json`; the two predicates named
  `task_is_runnable` differ (`Runs`, `Plays`).

## 5. Proofs

All theorems hold for every value of the constants that satisfies the named
assumptions, which say what kind of value a constant is and that tasks, rivals and
Lean modules are finite in number.  The one theorem with another hypothesis states
it (`CacheIsUsedAlone`, `Cap = 1`).  Every safety property and every action property
of section 3 is a theorem, and so are the two refinements that a run checks
(`CountingSemaphore`, `Scoreboard`).

* `CompileGates_proofs`.  The lease: the invariant is the type invariant,
  `NoLeakedSlot` and what a body may be doing with the reason it was given; without
  the last neither the cap nor the type of the orphans is inductive.  A running
  verification is mapped to its slot, an injection into `Cap` slots; `Refinement`
  counts the holders the same way.  The check workflow: `Sound` says of a live run
  that its plan holds each affected case or asked for everything, `Owes` of a change
  of main that main's run knows its base and has the case still before it.  A case
  whose inputs differ has, in the closure of its imports, a module that differs:
  otherwise the two closures would be the same, by induction over their steps
  (`ClosureKept`).  If that case is not in the plan, all such modules are listed by
  other cases alone: those are the cases of `Overlooked`, which `RoutingAnswers` and
  `RangesMeet` except by name; nothing is assumed of the trees that are pushed.
* `ScoredTask_proofs`.  The loop, in three layers: types; what each place of the
  loop implies for the queue and the calls that are left, with the invariants of the
  proof tools; and `RequestsPaid` (each request is paid for by a call, an empty
  response or the one correction), from which the bound on requests follows.  Each
  action is reduced once to its effect on the proof tools.  `ImplementsLoop` shows
  that a scored run is a behaviour of the loop, so that every invariant of the loop
  holds of it; the rest is what happens at the hand-over and after an exception.
  `StrictScoreHolds` is the claim of `role_config` in `run.json`: where the driver
  writes no proofs, none of its proofs is scored and none of its writer's failures
  is either.
* `Transcript_proofs`.  First the operators, for every transcript the loop can make:
  `SanitizeForms` (each turn of a chat request is followed by a reply of that turn
  for each of its calls), `SanitizeReaches` (no earlier turn takes the reply to the
  only call of the last one) and `ItemsContinue` (what a continued Responses
  conversation is sent is the rest of the transcript).  Then the loop: `Fit` says
  that the requests of the messages are in order, that the calls without a reply are
  those still to be handled and a set `Lost` of at most one nameless call of the
  Responses wire, on which the one correction was spent, and that the provider's part
  is a beginning of the transcript that ends with its own turn; `DueKept` that what
  the last response owes is shown by a text, or by the reply to its only call with no
  turn after it.  None of the three properties is inductive without them: a
  compaction may come between a result and the request that has to show it, and a
  correction between a call and its reply.
* `GroupRun_proofs`.  The workspace: `LeaseInv` counts the holders of the lease,
  `WarmInv` says that what a warm has built stays built, `CloneInv` what a clone
  holds by how far it came; the sentinel is written after the packages are whole.
  The group: `ChatInv` accounts for the cost of a completion by where it is, a
  rejection being paid once because it turns streaming off.  `McpInv` says that the
  client waits for the latest request only and that a server is asked about files
  only when none has changed since it opened them; `SessionInv` that a session that
  is not running counts as changed, so that its next use starts it.  They give
  `RequestsBounded` and `AnswersAreCurrent`; an invariant over the phases of
  `run_group`, `RunInv` (what each has recorded of the protocol, the server, the rows
  and the reason to stop), gives `RunIsAccounted` and `ArtifactIsAccepted`, the
  latter for dry runs and for settings in which the two conditions on credentials
  agree (`Available <=> Usable`; section 4 is about the others).
* `SuiteCommands_proofs`.  One invariant per command: what it has checked holds of
  its own checkout, not of the live one; its counts and exit status so far agree; a
  result file that a sweep counts is younger than every sweep that was running when
  it was written.  A list of v0.2 that passes implies that the tasks are the
  release's, a preflight that the reference proofs and the pins are too.  The theorem
  speaks of the moments at which a command checks, not of later edits, and of the pins
  only.
* `Strat50_proofs`.  `IInv` says of each lane that what is in memory differs from
  the file by at most one row, about the first task without a verdict, and where
  the lane then stands; a failed save leaves that difference for another lane to
  write.  `Refinement` follows: each model's score is as before or one verdict
  longer.  `RetriesAreBounded` adds `TryInv`, a budget: the tries granted by the
  starts so far cover the ones used by finished cycles and the streak.
  `EveryLaneSpends` is the ranking under which a lane ends.
* `Cascade_proofs`.  `IInv` ties the pool to the profile (a task in the pool has
  no row there), memory to the file (each writer has read all rows), the logs to
  the rows, the order of the profiles to the saved rows, and the supervisor's
  `done` to an empty pool.
* `Publication_proofs`.  Runs and versions are only added to, so that an entry made
  of the runs of its day keeps telling the truth about them: that is the invariant of
  the index (`StoredTruth`), and a reuse stays current because both versions are
  frozen.  An index may be made of any of the stored runs: `EvidenceStays` protects a
  completed run as long as the index sees it.  `IndexIsTrue` excepts the solved rows
  that the table refuses (`RefusedByTable`).  For the pages it is kept
  through every interruption that a leaderboard is made of its summary and of no
  other; ranks are earned because the order of the rows is strict, so that the last
  row of each public id decides its rank once.

Induction.  The library's induction theorems take an operator as a parameter, which
the provers here cannot instantiate.  The proofs over data (the sequences of the
transcript, the closure of imports, the tasks put in order, the last of several rows)
start from the well-foundedness of `<` on the naturals instead, which is stated for
a relation, and prove induction for a set (`SetInduction`, `Recursion`).  For that
the operators concerned are recursive functions with a base case and a step, and
not folds: `Sanitize`, `Emitted`, `Picked`, `Closure`, `InOrder`.

Only model-checked: the liveness properties (`LeaseNeverBlocks`,
`EveryCallReturns`, `EveryAttemptEnds`, `GroupEnds`, `WorkspaceComes`,
`CascadeEnds`), since fairness and `ENABLED` are out of the prover's reach.  Of
`EveryAttemptEnds` the step without fairness is proved, the ranking `EveryStepSpends`,
and `EveryLaneSpends` is that of a campaign.  No theorem says that the constants of
a run satisfy the assumptions; TLC evaluates those.

## 6. Not modelled

* Time as a number; a second campaign on the same output directory (the script
  does not exclude it); a nested call from a section that fell open; PIDs that
  are used again by the system.
* The merging of the events of a stream into a message, of which only an early
  end is told apart; the path policy and the
  result shapes of the Lean client; `endpoint_smoke`.
* The attempt inside a group of several tasks: `RunGroup` keeps what crosses
  tasks, `FairLoop` and `ScoredTask` what happens inside one.
* The texts written into a workspace and its manifest, the Git metadata for
  remote builds.
* Text processing: statement guard, forbidden tokens, error classes of Lean
  (`lean_check.py`, `proof_patch.py`), merging of reports, prices, badges, the
  markdown table.
* Validators, generators, plots: functions from files to files without
  state.  What `check_run_artifacts.py` asks of a lifecycle is in `RunGroup`.
* The quick check, caches and set-up of the check workflow, and the other
  workflows but for the table of `benchmark.yml`.

`PROJECT.json` gives the reason for each component.

## 7. What could come next

1. The rankings under which a group run, a cascade and a workspace end, in the form
   of `EveryStepSpends`, so that their liveness rests on fairness alone.
2. The smallest missing operations: texts of the workspace manifest, the merge of
   Responses events into one response, `endpoint_smoke`.
3. A run of the loop inside the group with real attempts of one body each, to
   compose `FairLoop` with `RunGroup` rather than relate them by abstraction.
4. Two campaigns on one directory, if the script gains a lock to check.
