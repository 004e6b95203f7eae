------------------------------- MODULE FairLoop -------------------------------
(***************************************************************************)
(* One task attempt: the request loop _attempt_task_fair of                *)
(* harness/runners/lean_tools.py around the proof tools of ProofTools.     *)
(* Each iteration asks the driver model for a response; a response is text *)
(* or some tool calls, which are handled one after the other.  What a      *)
(* call shows to the model (messages, compaction, warnings) is left out.   *)
(***************************************************************************)
EXTENDS ProofTools, FiniteSets

CONSTANTS
  MaxAttempts,   \* max_attempts
  MaxToolCalls,  \* max_tool_calls
  MaxTurns,      \* max_turns
  MaxNonProof,   \* DEFAULT_HARNESS_MAX_NON_PROOF_TOOL_CALLS
  MaxSandbox,    \* DEFAULT_HARNESS_MAX_SANDBOX_CALLS
  TokenBudget,   \* whether DEFAULT_HARNESS_TOKEN_BUDGET is set
  ContextLimit,  \* whether the driver's context size is known
  MaxCalls,      \* bound: tool calls in one response
  MaxTactics     \* bound: bodies in one try_tactics call (5 in the code)

ASSUME FairLoopAssumption ==
  /\ {MaxAttempts, MaxToolCalls, MaxTurns} \subseteq Nat \ {0}
  /\ {MaxNonProof, MaxSandbox} \subseteq Nat
  /\ {TokenBudget, ContextLimit} \subseteq BOOLEAN
  /\ {MaxCalls, MaxTactics} \subseteq Nat \ {0}

VARIABLES
  pc,           \* "top" of the loop, "calls", "checking" a proof, "done"
  requests,     \* requests_consumed
  left,         \* tool calls of the response that are still to be handled
  toolCalls,    \* tool_calls_executed
  nonProof,     \* non_proof_tool_calls
  noTool,       \* no_tool_responses
  sandbox,      \* sandbox_state["count"]
  corrected,    \* corrective_protocol_sent
  textRepeats,  \* how often the most repeated text was sent
  callRepeats,  \* how often the most repeated tool call was sent
  status        \* the status of the returned result

loopVars == <<pc, requests, left, toolCalls, nonProof, noTool, sandbox,
              corrected, textRepeats, callRepeats, status>>

vars == <<proofVars, loopVars>>

Least(a, b) == IF a < b THEN a ELSE b

Greatest(a, b) == IF a > b THEN a ELSE b

NoToolLimit == Greatest(3, Least(20, MaxToolCalls))

NonProofLimit == Least(MaxNonProof, Greatest(3, MaxToolCalls \div 2))

SandboxLimit == Least(MaxSandbox, Greatest(1, MaxToolCalls \div 4))

RequestLimit == Least(MaxTurns, MaxToolCalls + MaxAttempts + NoToolLimit)

Init ==
  /\ ProofInit
  /\ pc = "top"
  /\ requests = 0
  /\ left = 0
  /\ toolCalls = 0
  /\ nonProof = 0
  /\ noTool = 0
  /\ sandbox = 0
  /\ corrected = FALSE
  /\ textRepeats = 0
  /\ callRepeats = 0
  /\ status = "none"

-----------------------------------------------------------------------------
(* How the attempt ends.                                                   *)

\* The prover path failed before the driver had any proof to submit.
WriterUnresolved ==
  Mode = "strict" /\ attempts = <<>> /\ latest = NoBody /\ autoFailures > 0

\* The status after the loop, for r requests and t responses without a tool.
FinalStatus(contextStop, r, t) ==
  IF WriterUnresolved THEN "strict_writer_failed"
  ELSE IF contextStop THEN "context_budget_exhausted"
  ELSE IF toolCalls >= MaxToolCalls THEN "max_tool_calls_exceeded"
  ELSE IF r >= MaxTurns THEN "max_turns_exceeded"
  ELSE IF Len(attempts) >= MaxAttempts THEN "max_attempts_exceeded"
  ELSE IF t >= NoToolLimit THEN "failed_no_tool_calls"
  ELSE IF attempts # <<>> THEN "failed_submitted" ELSE "failed_no_attempt"

ReturnMutant(s) == pc' = "top" /\ status' = s /\ left' = 0

\* A return from inside the loop.
Return(s) == pc' = "done" /\ status' = s /\ left' = 0

\* The loop is left, and the file restored when nothing was recorded.
Conclude(contextStop, r, t) ==
  /\ Return(FinalStatus(contextStop, r, t))
  /\ disk' = IF attempts = <<>> THEN NoBody ELSE disk
  /\ UNCHANGED <<config, attempts, latest, stage, pending, baseline, repairs,
                 undrafted, autoWrites, autoFailures, queue>>

-----------------------------------------------------------------------------
(* The head of the loop and the driver's response.                         *)

Exhausted ==
  \/ Len(attempts) >= MaxAttempts
  \/ toolCalls >= MaxToolCalls
  \/ requests >= RequestLimit

LeaveLoop ==
  /\ pc = "top" /\ Exhausted
  /\ Conclude(FALSE, requests, noTool)
  /\ UNCHANGED <<requests, toolCalls, nonProof, noTool, sandbox, corrected,
                 textRepeats, callRepeats>>

\* The completion tokens of the earlier requests have used up the budget.
TokensSpent ==
  /\ pc = "top" /\ ~Exhausted
  /\ TokenBudget /\ requests > 0
  /\ Conclude(FALSE, requests, noTool)
  /\ UNCHANGED <<requests, toolCalls, nonProof, noTool, sandbox, corrected,
                 textRepeats, callRepeats>>

RequestFails ==
  /\ pc = "top" /\ ~Exhausted
  /\ requests' = requests + 1
  /\ \E s \in {"request_failed", "request_timeout"} : Return(s)
  /\ UNCHANGED <<proofVars, toolCalls, nonProof, noTool, sandbox, corrected,
                 textRepeats, callRepeats>>

\* The response arrives but its prompt has filled the driver's context.
ContextStops ==
  /\ pc = "top" /\ ~Exhausted
  /\ ContextLimit
  /\ requests' = requests + 1
  /\ Conclude(TRUE, requests + 1, noTool)
  /\ UNCHANGED <<toolCalls, nonProof, noTool, sandbox, corrected, textRepeats,
                 callRepeats>>

\* The statuses that repetition_failure and protocol_failure return.
RepetitionStatus ==
  IF WriterUnresolved THEN "strict_writer_failed" ELSE "repetition_loop"

\* How the number of the most repeated signature may change by one more.
Repeats(n) == {Greatest(n, 1), n + 1}

\* A response without a tool call; n is the new count of its text (an empty
\* text is not counted).
RespondText(n) ==
  /\ pc = "top" /\ ~Exhausted
  /\ n \in Repeats(textRepeats) \cup {textRepeats}
  /\ requests' = requests + 1
  /\ noTool' = noTool + 1
  /\ textRepeats' = n
  /\ IF n = 3 THEN Return(RepetitionStatus) /\ UNCHANGED proofVars
     ELSE IF noTool + 1 >= NoToolLimit THEN Conclude(FALSE, requests + 1, noTool + 1)
     ELSE UNCHANGED <<proofVars, pc, left, status>>
  /\ UNCHANGED <<toolCalls, nonProof, sandbox, corrected, callRepeats>>

RespondCalls ==
  /\ pc = "top" /\ ~Exhausted
  /\ requests' = requests + 1
  /\ left' \in 1 .. MaxCalls
  /\ pc' = "calls"
  /\ UNCHANGED <<proofVars, toolCalls, nonProof, noTool, sandbox, corrected,
                 textRepeats, callRepeats, status>>

-----------------------------------------------------------------------------
(* One tool call of the response.                                          *)

HandledMutant ==
  /\ pc' = "calls"
  /\ UNCHANGED <<left, status>>

\* The call is handled: the next one of the response, or the next request.
Handled ==
  /\ left' = left - 1
  /\ pc' = IF left = 1 THEN "top" ELSE "calls"
  /\ UNCHANGED status

\* A malformed, invalid or unadvertised call: corrected once.
BadCall ==
  /\ pc = "calls"
  /\ corrected' = TRUE
  /\ \/ ~corrected /\ Handled
     \/ corrected /\ \E s \in {"malformed_tool_call", "invalid_tool_call"} : Return(s)
  /\ UNCHANGED <<proofVars, requests, toolCalls, nonProof, noTool, sandbox,
                 textRepeats, callRepeats>>

\* The same call for the third time.
RepeatedCall ==
  /\ pc = "calls"
  /\ callRepeats = 2
  /\ callRepeats' = 3
  /\ Return(RepetitionStatus)
  /\ UNCHANGED <<proofVars, requests, toolCalls, nonProof, noTool, sandbox,
                 corrected, textRepeats>>

\* A well-formed call that is not the third of its kind.
WellFormed ==
  /\ pc = "calls"
  /\ \E n \in Repeats(callRepeats) : n < 3 /\ callRepeats' = n
  /\ UNCHANGED <<requests, noTool, corrected, textRepeats>>

Submits == {"check_proof", "try_tactics"}

\* Refused without being counted: the task's tool calls are used up.
RefuseCall ==
  /\ WellFormed
  /\ toolCalls >= MaxToolCalls
  /\ Handled
  /\ UNCHANGED <<proofVars, toolCalls, nonProof, sandbox>>

Allowed == WellFormed /\ toolCalls < MaxToolCalls

MaySubmit == Len(attempts) < MaxAttempts

\* Refused without being counted: the task's proof attempts are used up.
RefuseSubmission ==
  /\ Allowed
  /\ ~MaySubmit
  /\ Handled
  /\ UNCHANGED <<proofVars, toolCalls, nonProof, sandbox>>

\* A call that is counted as executed.
Executed == toolCalls' = toolCalls + 1

\* Refused but counted: too many calls that are not about a proof.
RefuseNonProof ==
  /\ Allowed /\ Executed
  /\ nonProof >= NonProofLimit
  /\ Handled
  /\ UNCHANGED <<proofVars, nonProof, sandbox>>

NonProof ==
  /\ Allowed /\ Executed
  /\ nonProof < NonProofLimit
  /\ nonProof' = nonProof + 1
  /\ UNCHANGED sandbox

\* show_task, read_file, the searches, an unknown name, a lean_* call that
\* is answered: the proof state is left alone.
LookUp == NonProof /\ Handled /\ UNCHANGED proofVars

\* A lean_* call whose MCP session is gone.
McpFails == NonProof /\ HasMcp /\ Return("request_failed") /\ UNCHANGED proofVars

\* show_goal runs Lean on the file and on a copy it puts back; so does the
\* sandbox, which has a budget of its own.
ShowGoal ==
  /\ Allowed /\ Executed /\ ~HasMcp
  /\ Handled
  /\ UNCHANGED <<proofVars, nonProof, sandbox>>

Sandbox ==
  /\ Allowed /\ Executed /\ ~HasMcp
  /\ sandbox' = Least(sandbox + 1, SandboxLimit)
  /\ Handled
  /\ UNCHANGED <<proofVars, nonProof>>

Draft ==
  /\ NonProof /\ Handled
  /\ HasMcp => Mode # "plain"
  /\ \/ WriteFails
     \/ \E b \in Draftable : WriteDraft(b)
     \/ RepairRefused
     \/ RepairFails
     \/ \E b \in Draftable : RepairDraft(b)

-----------------------------------------------------------------------------
(* check_proof and try_tactics.                                            *)

Truncated == Least(MaxTactics, MaxAttempts - Len(attempts))

\* What a call may submit: check_proof one body, try_tactics (which a task with
\* an MCP session does not have) a list that is cut to the attempts left.
Submissions ==
  [1 .. 1 -> Body] \cup
  IF HasMcp THEN {} ELSE UNION {[1 .. n -> Body] : n \in 1 .. Truncated}

Submission ==
  /\ Allowed /\ Executed
  /\ MaySubmit
  /\ UNCHANGED <<nonProof, sandbox>>

\* The arguments are no proof at all.
BadSubmission == Submission /\ Handled /\ UNCHANGED proofVars

BeginCheck == pc' = "checking" /\ UNCHANGED <<left, status>>

Submit ==
  /\ Submission
  /\ \/ \E bodies \in Submissions : Admit(bodies) /\ BeginCheck
     \/ \E bodies \in Submissions : Turned(bodies) /\ Handled
     \/ \E b \in Draftable : AutoWrite(b) /\ BeginCheck

WriterSpent == autoWrites + 1 >= MaxAutoWrites

\* The writer gave no draft; its last allowed failure ends the attempt.  (The
\* code's other way to this status, a cap that was used up by an earlier call,
\* is never taken: see WriterCapAhead.)
WriterFails ==
  /\ Submission
  /\ AutoWriteFails
  /\ IF WriterSpent THEN Return("strict_writer_exhausted") ELSE Handled

\* A proof that Lean accepts is returned at once.
Ends(s) == s = "lean_passed"

Check ==
  /\ pc = "checking"
  /\ \E s \in Checked \cup Rejected, parse \in BOOLEAN :
       /\ CheckNext(s, parse)
       /\ IF Ends(s) THEN Return("lean_passed")
          ELSE IF queue' = <<>> THEN Handled
          ELSE UNCHANGED <<pc, left, status>>
  /\ UNCHANGED <<requests, toolCalls, nonProof, noTool, sandbox, corrected,
                 textRepeats, callRepeats>>

Next ==
  \/ LeaveLoop
  \/ TokensSpent
  \/ RequestFails
  \/ ContextStops
  \/ \E n \in 0 .. 3 : RespondText(n)
  \/ RespondCalls
  \/ BadCall
  \/ RepeatedCall
  \/ RefuseCall
  \/ RefuseSubmission
  \/ RefuseNonProof
  \/ LookUp
  \/ McpFails
  \/ ShowGoal
  \/ Sandbox
  \/ Draft
  \/ BadSubmission
  \/ Submit
  \/ WriterFails
  \/ Check

Spec == Init /\ [][Next]_vars

\* One thread runs the loop, and every request, tool and Lean run that it
\* waits for has a timeout.
FairSpec == Spec /\ WF_vars(Next)

-----------------------------------------------------------------------------
(* Properties.                                                             *)

ReturnStatus ==
  {"lean_passed", "request_failed", "request_timeout", "malformed_tool_call",
   "invalid_tool_call", "repetition_loop", "strict_writer_failed",
   "strict_writer_exhausted", "context_budget_exhausted",
   "max_tool_calls_exceeded", "max_turns_exceeded", "max_attempts_exceeded",
   "failed_no_tool_calls", "failed_submitted", "failed_no_attempt"}

TypeOK ==
  /\ ProofTypeOK
  /\ pc \in {"top", "calls", "checking", "done"}
  /\ requests \in 0 .. MaxTurns
  /\ left \in 0 .. MaxCalls
  /\ toolCalls \in 0 .. MaxToolCalls
  /\ nonProof \in 0 .. NonProofLimit
  /\ noTool \in 0 .. NoToolLimit
  /\ sandbox \in 0 .. SandboxLimit
  /\ corrected \in BOOLEAN
  /\ textRepeats \in 0 .. 3
  /\ callRepeats \in 0 .. 3
  /\ status \in ReturnStatus \cup {"none"}

\* Several submissions in one response, and lists of tactics, never record
\* more proof attempts than the task's budget has.
AttemptsWithinBudget == Len(attempts) + Len(queue) <= MaxAttempts

\* "Keep the existing safety bound as a secondary guard": the bound on requests
\* that the code adds to the declared caps never ends an attempt by itself,
\* a declared cap is reached at the latest with it.
SafetyBoundNeverDecides ==
  pc = "top" /\ requests >= RequestLimit =>
    \/ requests >= MaxTurns
    \/ toolCalls >= MaxToolCalls
    \/ Len(attempts) >= MaxAttempts

\* Strict role separation: whatever the driver submits, in whatever order with
\* its drafts, every proof that Lean saw came from the prover.
StrictOnlyProver ==
  Mode = "strict" =>
    \A i \in DOMAIN attempts :
      attempts[i].status \in Checked =>
        attempts[i].derived /\ attempts[i].stage # "none"

\* The editable file, which the scored verifier builds after the attempt, is
\* the last proof that Lean was shown, or the skeleton if there is none.
FileIsLastChecked ==
  \/ /\ disk = NoBody
     /\ \A i \in DOMAIN attempts : attempts[i].status \notin Checked
  \/ \E i \in DOMAIN attempts :
       /\ attempts[i].status \in Checked /\ attempts[i].body = disk
       /\ \A j \in DOMAIN attempts : j > i => attempts[j].status \notin Checked

\* A proof that passed is the last attempt, the attempt's result and the file.
PassIsFinal ==
  \A i \in DOMAIN attempts :
    attempts[i].status = "lean_passed" =>
      i = Len(attempts) /\ status = "lean_passed" /\ disk = attempts[i].body

Graded == {i \in DOMAIN attempts : attempts[i].repair # "none"}

\* No repair is counted twice: the graded ones, the ones that gave no draft and
\* the one that waits for its submission are at most the repairs requested.
RepairsAccounted ==
  Cardinality(Graded) + undrafted + (IF pending THEN 1 ELSE 0) <= repairs

\* The three ledgers of an attempt agree with the caps in every interleaving of
\* calls, lists of tactics, repairs and refusals (_attempt_task_fair).
AttemptAccounted == AttemptsWithinBudget /\ RepairsAccounted /\ SafetyBoundNeverDecides

\* What the scored verifier will build is what Lean judged last, and nothing
\* happens to a proof that passed (_execute_fair_tool's writes of the file).
FileIsEvidence == FileIsLastChecked /\ PassIsFinal

\* "A strict repairer may only edit a prover-derived candidate that was actually
\* submitted and rejected by Lean": that candidate is the failed attempt whose
\* errors the repairer is told, and it is what the file holds.
StrictRepairEditsItsFailure ==
  Mode = "strict" /\ pending =>
    /\ baseline > 0
    /\ attempts[baseline].status = "lean_failed"
    /\ attempts[baseline].derived
    /\ attempts[baseline].body = disk

\* A failure of the writer path is reported only when no proof was submitted
\* and no draft was obtained.
WriterFailureHasNoProof ==
  status \in {"strict_writer_failed", "strict_writer_exhausted"} =>
    attempts = <<>> /\ latest = NoBody /\ autoFailures > 0

\* A strict task that still has no draft can always ask its writer once more:
\* the attempt ends with the writer's last allowed failure, not after it.
WriterCapAhead ==
  Mode = "strict" /\ pc # "done" /\ latest = NoBody => autoWrites < MaxAutoWrites

Spends ==
  \/ pc' = "done"
  \/ requests' > requests
  \/ requests' = requests /\ left' < left
  \/ /\ requests' = requests /\ left' = left
     /\ \/ pc = "calls" /\ pc' = "checking"
        \/ pc = "checking" /\ Len(queue') < Len(queue)

\* No step is free: each one ends the attempt, consumes a request, a tool call
\* of the response, or a body of the call, also where the code refuses or
\* corrects a call without counting it.
EveryStepSpends == [][Spends]_vars

\* Whatever the model answers, the attempt ends.
EveryAttemptEnds == <>(pc = "done")

=============================================================================
