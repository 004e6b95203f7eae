------------------------------ MODULE ScoredTask ------------------------------
(***************************************************************************)
(* One scored run of one task: run_group of harness/runners/lean_tools.py  *)
(* with a single task.  Its setup, the attempt loop of FairLoop, the       *)
(* independent verifier of harness/verifier.py on the file that the loop   *)
(* left behind, and the classification of harness/classification.py, which *)
(* decides whether the result may be used as evidence about the model.     *)
(*                                                                         *)
(* The verifier builds the file again, so what it says is independent of   *)
(* what Lean said in the loop.                                             *)
(***************************************************************************)
EXTENDS FairLoop

CONSTANT
  Placeholder  \* whether the task's skeleton holds a placeholder

ASSUME ScoredTaskAssumption == Placeholder \in BOOLEAN

VARIABLES
  phase,      \* "setup", "attempt", "verify", "scored"; "lost" without run.json
  row,        \* the status of the task's row in the response, or "none"
  file,       \* the body in the editable file when the verifier reads it
  skipped,    \* whether setup_failure_verifier_result replaces the verifier
  target,     \* the verifier's status of the target
  finalClass  \* final_class

scoreVars == <<phase, row, file, skipped, target, finalClass>>

allVars == <<vars, scoreVars>>

SetupFailures == {"request_failed", "preflight_failed"}

ScoreInit ==
  /\ Init
  /\ phase = "setup"
  /\ row = "none"
  /\ file = NoBody
  /\ skipped = FALSE
  /\ target = "none"
  /\ finalClass = "none"

\* _role_config: driver_writes_proofs.
DriverWritesProofs == Mode # "strict"

-----------------------------------------------------------------------------
(* The classification.                                                     *)

RequestFailures == {"request_failed", "request_timeout", "context_budget_exhausted"}

WriterFailures == {"strict_writer_failed", "strict_writer_exhausted"}

\* failure_class of a row, where "model" stands for the classes that are no
\* infrastructure failure.
FailureClass(s) ==
  IF s \in WriterFailures THEN "provider_or_context_failure"
  ELSE IF s \in RequestFailures THEN s
  ELSE IF s = "preflight_failed" THEN "provider_setup_error" ELSE "model"

InfraFailureKinds ==
  RequestFailures \cup {"provider_or_context_failure", "provider_setup_error"}

TerminalStatuses == RequestFailures \cup {"preflight_failed"}

TerminalFailureMutant(s) == s \in TerminalStatuses

\* _is_terminal_request_failure
TerminalFailure(s) == s \in TerminalStatuses \/ FailureClass(s) \in InfraFailureKinds

ProtocolBreakdown == {"failed_no_tool_calls", "malformed_tool_call", "invalid_tool_call"}

GradeableMutant(s) == s \in {"lean_passed", "failed_submitted"}

\* _has_gradeable_submission: only a statement mismatch leaves no candidate_path.
Gradeable(s) ==
  \/ s \in {"lean_passed", "failed_submitted"}
  \/ \E i \in DOMAIN attempts : attempts[i].status # "rejected_statement_mismatch"

\* submission_state: how far the attempt came, whatever the verifier says.
SubmissionState(s) ==
  LET seen == {attempts[i].status : i \in DOMAIN attempts} IN
    IF s = "none" THEN "unknown"
    ELSE IF s = "lean_passed" \/ "lean_passed" \in seen THEN "check_proof_passed"
    ELSE IF "lean_failed" \in seen THEN "check_proof_failed"
    ELSE IF seen # {} THEN "placeholder_submission" ELSE "no_submission"

VerifierInfra == {"timeout", "verifier_infra_error"}

\* Nothing that could be graded came out of the provider or the tool protocol.
Broken(s) == (TerminalFailure(s) \/ s \in ProtocolBreakdown) /\ ~Gradeable(s)

\* classify_target for the verifier's status v; "support_failed" is a build
\* in which only modules that the task does not own failed.
Classify(v) ==
  IF v = "passed" THEN "SOLVED"
  ELSE IF Broken(row) \/ v \in VerifierInfra \cup {"support_failed"}
       THEN "INFRA_INVALID"
  ELSE "GENUINE_FAIL"

-----------------------------------------------------------------------------
(* The run.                                                                *)

\* No credentials, a failed warm build, no MCP server, no usable provider.
SetupFails ==
  /\ phase = "setup"
  /\ phase' = "verify"
  /\ row' \in SetupFailures
  /\ skipped' = TRUE
  /\ UNCHANGED <<vars, file, target, finalClass>>

SetupPasses ==
  /\ phase = "setup"
  /\ phase' = "attempt"
  /\ UNCHANGED <<vars, row, file, skipped, target, finalClass>>

LoopStep == phase = "attempt" /\ Next /\ UNCHANGED scoreVars

LoopReturns ==
  /\ phase = "attempt" /\ pc = "done"
  /\ phase' = "verify"
  /\ row' = status
  /\ file' = disk
  /\ UNCHANGED <<vars, skipped, target, finalClass>>

\* The file while a proof is checked: the proof is written before Lean runs.
InFlight ==
  IF pc = "checking" /\ Head(queue) \notin Mismatch \cup Forbidden
  THEN {disk, Head(queue)} ELSE {disk}

\* An exception leaves the loop (a log or a proof cannot be written): the
\* response has status harness_error and the task has no row in it.
HarnessFails ==
  /\ phase = "attempt" /\ pc # "done"
  /\ phase' = "verify"
  /\ file' \in InFlight
  /\ UNCHANGED <<vars, row, skipped, target, finalClass>>

\* The process is killed, or the run fails outside the loop: no run.json.
RunLost ==
  /\ phase \in {"setup", "attempt", "verify"}
  /\ phase' = "lost"
  /\ finalClass' = "INFRA_INVALID"
  /\ UNCHANGED <<vars, row, file, skipped, target>>

PolicyFailures ==
  {"theorem_missing", "hidden_import", "theorem_statement_mismatch",
   "forbidden_placeholder"}

\* _support_module_build_failure: a failed build is excused when every module
\* that Lake's footer names is shared; the output may hold no footer.
BuildFailure(failed) ==
  IF failed # {} /\ "task" \notin failed THEN "support_failed" ELSE "lean_check_failed"

\* The lease or the command fails, the theorem is not in what was built, or the
\* build fails in some modules.
BuildResults ==
  VerifierInfra \cup {"passed", "theorem_missing"} \cup
  {BuildFailure(failed) : failed \in SUBSET {"task", "support"}}

\* setup_failure_verifier_result
SkippedTargets == {"verifier_infra_error"}

\* What the verifier may say: it rejects a placeholder before it builds.
Targets ==
  IF skipped THEN SkippedTargets
  ELSE IF file = NoBody /\ Placeholder THEN {"forbidden_placeholder"}
  ELSE PolicyFailures \cup BuildResults

\* The verifier, the classification and run.json.
Score ==
  /\ phase = "verify"
  /\ phase' = "scored"
  /\ target' \in Targets
  /\ finalClass' = Classify(target')
  /\ UNCHANGED <<vars, row, file, skipped>>

ScoreNext ==
  \/ SetupFails
  \/ SetupPasses
  \/ LoopStep
  \/ LoopReturns
  \/ HarnessFails
  \/ RunLost
  \/ Score

ScoreSpec == ScoreInit /\ [][ScoreNext]_allVars

-----------------------------------------------------------------------------
(* Properties.                                                             *)

FinalClasses == {"SOLVED", "GENUINE_FAIL", "INFRA_INVALID"}

ScoreTypeOK ==
  /\ phase \in {"setup", "attempt", "verify", "scored", "lost"}
  /\ row \in ReturnStatus \cup SetupFailures \cup {"none"}
  /\ file \in Body \cup {NoBody}
  /\ skipped \in BOOLEAN
  /\ target \in PolicyFailures \cup BuildResults \cup {"none"}
  /\ finalClass \in FinalClasses \cup {"none"}
  /\ phase \in {"scored", "lost"} <=> finalClass # "none"

\* Strict role separation from the first draft to the row: every proof that Lean
\* saw is the prover's, a repair edits the failure it is told of, and the writer
\* is blamed exactly when its last allowed call left no draft and no proof
\* (_execute_fair_tool and _attempt_task_fair in mode strict).
StrictRolesKept ==
  /\ ScoreTypeOK
  /\ TypeOK
  /\ StrictOnlyProver
  /\ StrictRepairEditsItsFailure
  /\ WriterFailureHasNoProof
  /\ WriterCapAhead

\* What run.json says of the roles is true of the score ("a hybrid driver+prover
\* result is never confused with a standalone writer-model score"): where the
\* driver writes no proofs, whatever it submits and wherever the attempt breaks
\* off, what is SOLVED is a prover draft that the loop recorded as checked or,
\* after an exception, was about to check.
SolvedByProver ==
  ~DriverWritesProofs /\ Placeholder /\ finalClass = "SOLVED" =>
    \/ \E i \in DOMAIN attempts : attempts[i].derived /\ attempts[i].body = file
    \/ row = "none" /\ file = latest /\ file # NoBody

\* "This is a provider/writer-path failure, never a zero-writer model score": a
\* strict attempt that its writer ended is never scored.
WriterFailureNotScored ==
  row \in WriterFailures /\ Placeholder =>
    finalClass \in {"none", "INFRA_INVALID"}

\* A strict score is the prover's and never the writer's failure (verify_group,
\* classify_target).
StrictScoreIsSound == SolvedByProver /\ WriterFailureNotScored

\* "Verifier failures after gradeable submissions remain genuine proof
\* failures": once the submission state says that Lean checked a proof of the
\* attempt, no later failure of the provider, the transport or the tool protocol
\* makes it retryable (_has_gradeable_submission and submission_state).
GradedProofIsEvidence ==
  /\ phase = "scored" /\ finalClass = "INFRA_INVALID"
  /\ SubmissionState(row) \in {"check_proof_passed", "check_proof_failed"}
  => target \in VerifierInfra \cup {"support_failed"}
=============================================================================
