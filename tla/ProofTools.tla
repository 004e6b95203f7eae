------------------------------ MODULE ProofTools ------------------------------
(***************************************************************************)
(* The proof tools of one task attempt: draft_proof (the prover's writer   *)
(* and repairer), check_proof and try_tactics, as _execute_fair_tool of    *)
(* harness/runners/lean_tools.py runs them.  The mode is of the task:      *)
(* "plain" has no prover, "draft" offers one to the driver, and "strict"   *)
(* (strict role separation) lets only the prover's latest draft reach Lean.*)
(*                                                                         *)
(* A body stands for a proof text up to white space, which is how drafts   *)
(* and submissions are compared.  What Lean says of it is nondeterministic.*)
(***************************************************************************)
EXTENDS Integers, Sequences

CONSTANTS
  Body,          \* proof bodies
  NoBody,        \* no draft yet; on disk, the task's original skeleton
  Mismatch,      \* bodies that the statement or the context guard rejects
  Forbidden,     \* bodies with a forbidden token
  Configs,       \* the configurations that a task may run with
  MaxRepairs,    \* PROVER_REPAIR_ATTEMPTS
  MaxAutoWrites  \* PROVER_WRITER_ATTEMPTS

ASSUME ProofToolsAssumption ==
  /\ NoBody \notin Body
  /\ Mismatch \subseteq Body /\ Forbidden \subseteq Body
  /\ Configs \subseteq [mode : {"plain", "draft", "strict"}, mcp : BOOLEAN]
  /\ MaxRepairs \in Nat
  /\ MaxAutoWrites \in Nat \ {0}

VARIABLES
  config,        \* the roles of the task, and whether it has an MCP session
  attempts,      \* the recorded proof attempts, in order
  latest,        \* prover_state["latest_draft"]
  stage,         \* history: the kind of request that returned latest
  pending,       \* prover_state["pending_repair"]
  baseline,      \* pending_repair_baseline, an index of attempts; 0 is None
  repairs,       \* prover_state["repair_count"]
  undrafted,     \* role_metrics["repair_no_submission"]
  autoWrites,    \* prover_state["auto_writer_count"]
  autoFailures,  \* role_metrics["strict_auto_writer_failures"]
  disk,          \* the body in the editable file
  queue          \* the proofs that the current call has yet to check

proofVars == <<config, attempts, latest, stage, pending, baseline, repairs,
               undrafted, autoWrites, autoFailures, disk, queue>>

\* "plain" without a prover, "draft" with an optional one, "strict" with one
\* that writes every proof.
Mode == config.mode

HasMcp == config.mcp

Rejected == {"rejected_statement_mismatch", "rejected_forbidden_placeholder"}

Checked == {"lean_passed", "lean_failed"}

ProofInit ==
  /\ config \in Configs
  /\ attempts = <<>>
  /\ latest = NoBody
  /\ stage = "none"
  /\ pending = FALSE
  /\ baseline = 0
  /\ repairs = 0
  /\ undrafted = 0
  /\ autoWrites = 0
  /\ autoFailures = 0
  /\ disk = NoBody
  /\ queue = <<>>

-----------------------------------------------------------------------------
(* draft_proof.                                                            *)

\* What _reject_draft_reason lets through.
Draftable == IF Mode = "plain" THEN {} ELSE Body \ (Mismatch \cup Forbidden)

Failures == {i \in DOMAIN attempts : attempts[i].status # "lean_passed"}

\* _last_failed_proof_attempt; 0 when nothing failed.
LastFailed ==
  IF Failures = {} THEN 0
  ELSE CHOOSE i \in Failures : \A j \in Failures : j <= i

\* Mode "write": the request fails, its context is blocked, its answer is
\* rejected, or it returns a body.
WriteFails == UNCHANGED proofVars

WriteDraft(b) ==
  /\ latest' = b
  /\ stage' = "write"
  /\ UNCHANGED <<config, attempts, pending, baseline, repairs, undrafted,
                 autoWrites, autoFailures, disk, queue>>

MayRepair == repairs < MaxRepairs /\ (Mode = "strict" => Failures # {})

RepairRefused == ~MayRepair /\ UNCHANGED proofVars

RepairFails ==
  /\ MayRepair
  /\ repairs' = repairs + 1
  /\ undrafted' = undrafted + 1
  /\ UNCHANGED <<config, attempts, latest, stage, pending, baseline,
                 autoWrites, autoFailures, disk, queue>>

\* The prover edits what is on disk and is told of the last failure.
RepairDraft(b) ==
  /\ MayRepair
  /\ latest' = b
  /\ stage' = "repair"
  /\ pending' = TRUE
  /\ baseline' = LastFailed
  /\ repairs' = repairs + 1
  /\ UNCHANGED <<config, attempts, undrafted, autoWrites, autoFailures, disk,
                 queue>>

-----------------------------------------------------------------------------
(* check_proof and try_tactics: the gate in front of Lean.                 *)

\* In strict mode every submitted body must be the latest draft.
AdmitsMutant(bodies) == Mode = "strict" => bodies[1] = latest

Admits(bodies) ==
  Mode = "strict" => \A i \in DOMAIN bodies : bodies[i] = latest

Admit(bodies) ==
  /\ Admits(bodies)
  /\ queue' = bodies
  /\ UNCHANGED <<config, attempts, latest, stage, pending, baseline, repairs,
                 undrafted, autoWrites, autoFailures, disk>>

\* "strict_role_separation_violation": nothing is checked.
Turned(bodies) ==
  /\ ~Admits(bodies) /\ latest # NoBody
  /\ UNCHANGED proofVars

\* A strict submission before any draft goes to the prover's writer instead.
NeedsWriter == Mode = "strict" /\ latest = NoBody

MayAutoWrite == autoWrites < MaxAutoWrites

AutoWrite(b) ==
  /\ NeedsWriter /\ MayAutoWrite
  /\ autoWrites' = autoWrites + 1
  /\ latest' = b
  /\ stage' = "write"
  /\ queue' = <<b>>
  /\ UNCHANGED <<config, attempts, pending, baseline, repairs, undrafted,
                 autoFailures, disk>>

AutoWriteFails ==
  /\ NeedsWriter /\ MayAutoWrite
  /\ autoWrites' = autoWrites + 1
  /\ autoFailures' = autoFailures + 1
  /\ UNCHANGED <<config, attempts, latest, stage, pending, baseline, repairs,
                 undrafted, disk, queue>>

-----------------------------------------------------------------------------
(* check_proof and try_tactics: one body after the other.                  *)

\* The status of body b and whether its failure is a parse error.
Outcomes(b) ==
  IF b \in Mismatch THEN {<<"rejected_statement_mismatch", FALSE>>}
  ELSE IF b \in Forbidden THEN {<<"rejected_forbidden_placeholder", FALSE>>}
  ELSE {<<"lean_passed", FALSE>>, <<"lean_failed", FALSE>>, <<"lean_failed", TRUE>>}

\* prover_derived: the body is the prover's latest draft.
Derived(b) == Mode # "plain" /\ b = latest

\* _grade_repair: how the first attempt after a repair draft is classified.
RepairOutcome(status, parse) ==
  IF ~pending THEN "none"
  ELSE IF status = "lean_passed"
       THEN IF baseline > 0 THEN "improved" ELSE "improved_no_baseline"
  ELSE IF status \in Rejected \/ (parse /\ ~(baseline > 0 /\ attempts[baseline].parse))
       THEN "regressed"
  ELSE "no_change"

Attempt(b, status, parse) ==
  [body |-> b, status |-> status, parse |-> parse,
   derived |-> status \in Checked /\ Derived(b),
   repair |-> RepairOutcome(status, parse),
   stage |-> IF b = latest THEN stage ELSE "none"]

WrittenMutant(b, status) == b

\* A rejected body never reaches the editable file.
Written(b, status) == IF status \in Checked THEN b ELSE disk

\* Grading consumes the pending repair.
StillPendingMutant == pending

StillPending == FALSE

\* A pass ends the call; the other bodies are not tried.
Rest(status) == IF status = "lean_passed" THEN <<>> ELSE Tail(queue)

CheckNext(status, parse) ==
  LET b == Head(queue) IN
  /\ queue # <<>>
  /\ <<status, parse>> \in Outcomes(b)
  /\ attempts' = Append(attempts, Attempt(b, status, parse))
  /\ pending' = StillPending
  /\ baseline' = IF pending THEN 0 ELSE baseline
  /\ disk' = Written(b, status)
  /\ queue' = Rest(status)
  /\ UNCHANGED <<config, latest, stage, repairs, undrafted, autoWrites,
                 autoFailures>>
-----------------------------------------------------------------------------
AttemptRecord ==
  [body : Body, status : Checked \cup Rejected, parse : BOOLEAN,
   derived : BOOLEAN,
   repair : {"none", "improved", "improved_no_baseline", "regressed", "no_change"},
   stage : {"none", "write", "repair"}]

\* The type invariant of the proof tools.
ProofTypeOK ==
  /\ config \in Configs
  /\ attempts \in Seq(AttemptRecord)
  /\ latest \in Body \cup {NoBody}
  /\ stage \in {"none", "write", "repair"}
  /\ pending \in BOOLEAN
  /\ baseline \in 0 .. Len(attempts)
  /\ repairs \in 0 .. MaxRepairs
  /\ undrafted \in 0 .. MaxRepairs
  /\ autoWrites \in 0 .. MaxAutoWrites
  /\ autoFailures \in 0 .. MaxAutoWrites
  /\ disk \in Body \cup {NoBody}
  /\ queue \in Seq(Body)
=============================================================================
