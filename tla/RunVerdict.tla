------------------------------ MODULE RunVerdict ------------------------------
(***************************************************************************)
(* What the scripts that index results read off the artifact of one run of *)
(* one task: scripts/infra_failures.py, scripts/classify_failures.py,      *)
(* harness/result_validity.py and the classification that the run wrote.   *)
(* An artifact is a record of the facts that they look at.                 *)
(***************************************************************************)

HarnessStatuses ==
  {"completed", "completed_with_failures", "preflight_failed", "harness_error"}

\* The status of the task's row in harness-response.json, or "none".
RowStatuses ==
  {"lean_passed", "failed_submitted", "failed_no_attempt", "request_failed", "none"}

Verdicts == {"passed", "lean_check_failed", "forbidden_placeholder", "timeout",
             "theorem_missing", "verifier_infra_error"}

\* The artifacts that a run can leave: a run that failed in its setup has no
\* attempt and no verifier, one that broke has neither row nor usage, and an
\* untouched skeleton is refused for its placeholder or does not build.  A request
\* is counted when its response has a usage, which need not count any token.
Artifact ==
  {a \in [harness : HarnessStatuses, row : RowStatuses, verdict : Verdicts,
          work : BOOLEAN,        \* the row lists an attempt
          requests : BOOLEAN,    \* a request is counted
          tokens : BOOLEAN,      \* the total of tokens is not zero
          unrouted : BOOLEAN,    \* strict roles, and no submission of the prover checked
          terminal : BOOLEAN] :  \* a conversation ends in request_failed
     /\ a.harness = "completed" => a.row # "none"
     /\ a.harness = "completed_with_failures" =>
          a.row = "request_failed" /\ a.verdict = "verifier_infra_error"
     /\ a.harness = "preflight_failed" =>
          a.row = "none" /\ a.verdict = "verifier_infra_error"
     /\ a.harness = "harness_error" => a.row = "none"
     /\ a.harness # "completed" => ~a.work /\ ~a.requests /\ ~a.unrouted
     /\ a.row \in {"lean_passed", "failed_submitted"} => a.work
     /\ a.row = "failed_no_attempt" => ~a.work
     /\ a.tokens => a.requests
     /\ a.terminal <=> a.harness = "completed" /\ a.row = "request_failed"
     /\ a.harness = "completed" /\ ~a.work =>
          a.verdict \in {"forbidden_placeholder", "lean_check_failed",
                         "timeout", "verifier_infra_error"}}

-----------------------------------------------------------------------------
(* scripts/infra_failures.py and scripts/classify_failures.py              *)

CompletedHarness == {"completed", "completed_with_failures"}

GenuineVerdicts ==
  {"passed", "lean_check_failed", "forbidden_placeholder", "timeout"}

HasGenuineWork(a) == a.work

\* Only request_failed of the rows considered is in INFRA_TASK_STATUSES.
HarnessResponseReason(a) == a.row = "request_failed"

ConversationReason(a) == a.terminal

\* provider_failure_reason is not None
ProviderInvalid(a) ==
  /\ a.verdict \notin GenuineVerdicts
  /\ ~HasGenuineWork(a)
  /\ HarnessResponseReason(a) \/ ConversationReason(a)

IsPass(a) == a.verdict = "passed"

\* What classify_runs_dir reports of the run.
Outcome(a) ==
  IF a.harness \notin CompletedHarness
  THEN IF ProviderInvalid(a) THEN "infra_invalid" ELSE "harness_error"
  ELSE IF IsPass(a) THEN "passed"
  ELSE IF ProviderInvalid(a) THEN "infra_invalid" ELSE a.verdict

-----------------------------------------------------------------------------
(* harness/result_validity.py and harness/classification.py                *)

AllowedTerminal ==
  {"lean_passed", "completed_with_failures", "failed_submitted",
   "failed_no_attempt", "request_failed", "completed"}

\* The status that collect_runs judges: without a row, the harness's, unless
\* the verifier confirmed the proof.
JudgedStatusMutant(a) == IF a.row # "none" THEN a.row ELSE a.harness

JudgedStatus(a) ==
  IF a.row # "none" THEN a.row ELSE IF IsPass(a) THEN "lean_passed" ELSE a.harness

\* row_validity: a solved row needs activity or, where no row says more, the
\* verifier's word; counted requests must have used tokens; strict roles need a
\* submission of the prover.
RowValid(a) ==
  /\ JudgedStatus(a) \in AllowedTerminal
  /\ a.harness # "preflight_failed"
  /\ JudgedStatus(a) = "lean_passed" =>
       /\ a.work \/ a.requests \/ (IsPass(a) /\ a.row = "none")
       /\ a.requests => a.tokens
  /\ ~a.unrouted

\* classification["reusable"] of run.json
ClassifiedReusable(a) ==
  \/ IsPass(a)
  \/ /\ a.verdict \notin {"timeout", "verifier_infra_error"}
     /\ a.row = "request_failed" => a.work
=============================================================================
