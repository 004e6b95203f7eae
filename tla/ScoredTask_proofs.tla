-------------------------- MODULE ScoredTask_proofs --------------------------
(***************************************************************************)
(* Proofs about FairLoop and about ScoredTask, for any set of bodies, any  *)
(* budgets and any mode.                                                   *)
(*                                                                         *)
(* Most properties of the loop are about the proof tools' state, which its *)
(* twenty actions change in few ways: Effects reduces a step to one of     *)
(* ProofStep, and the invariants of the proof tools are proved by the      *)
(* cases of ProofStep.  A scored run changes the loop's variables only by  *)
(* the loop's own steps, so it implements the specification of FairLoop    *)
(* and inherits its invariants; RunInv relates them to the row, the file   *)
(* and the class that the run leaves behind.                               *)
(***************************************************************************)
EXTENDS ScoredTask, FiniteSetTheorems, SequenceTheorems, TLAPS

-----------------------------------------------------------------------------
(* The attempt loop.                                                       *)

\* Where the loop is, and that a running attempt has not hit a final limit.
Control ==
  /\ pc \in {"calls", "checking"} <=> left > 0
  /\ pc = "checking" <=> queue # <<>>
  /\ pc # "done" =>
       /\ status = "none"
       /\ noTool < NoToolLimit
       /\ textRepeats < 3 /\ callRepeats < 3
       /\ \A i \in DOMAIN attempts : attempts[i].status # "lean_passed"

\* What the strict gate relies on: the latest draft is one that the guards
\* let through, and every attempt and queued body came from it.
ProverInv ==
  /\ latest \in Draftable \cup {NoBody}
  /\ latest # NoBody <=> stage # "none"
  /\ undrafted <= repairs
  /\ autoFailures <= autoWrites
  /\ Mode = "strict" =>
       /\ \A i \in DOMAIN queue : queue[i] = latest
       /\ attempts # <<>> => latest # NoBody
       /\ \A i \in DOMAIN attempts : attempts[i].status \in Checked

\* Every request pays for itself with a tool call, a response without one or
\* the single correction, unless a declared cap is reached.
RequestsPaid ==
  \/ pc = "done"
  \/ Len(attempts) >= MaxAttempts
  \/ toolCalls >= MaxToolCalls
  \/ requests <= toolCalls + noTool + (IF corrected THEN 1 ELSE 0)
                 + (IF pc = "calls" THEN 1 ELSE 0)

IInv ==
  /\ TypeOK
  /\ Control
  /\ ProverInv
  /\ StrictOnlyProver
  /\ FileIsLastChecked
  /\ PassIsFinal
  /\ StrictRepairEditsItsFailure
  /\ AttemptsWithinBudget
  /\ WriterCapAhead
  /\ RequestsPaid

\* A step as the proof tools see it.
Restores ==
  /\ attempts = <<>>
  /\ disk' = NoBody
  /\ UNCHANGED <<config, attempts, latest, stage, pending, baseline, repairs,
                 undrafted, autoWrites, autoFailures, queue>>

DraftStep ==
  \/ \E b \in Draftable : WriteDraft(b) \/ RepairDraft(b)
  \/ RepairFails

SubmitStep ==
  \/ \E bodies \in Submissions : Admit(bodies)
  \/ \E b \in Draftable : AutoWrite(b)
  \/ AutoWriteFails /\ (WriterSpent => pc' = "done")

CheckStep ==
  \E s \in Checked \cup Rejected, parse \in BOOLEAN :
    CheckNext(s, parse) /\ (s = "lean_passed" => pc' = "done" /\ status' = s)

ProofStep ==
  \/ UNCHANGED proofVars
  \/ Restores
  \/ pc = "calls" /\ DraftStep
  \/ pc = "calls" /\ MaySubmit /\ SubmitStep
  \/ pc = "checking" /\ CheckStep

-----------------------------------------------------------------------------
(* Facts about the constants and the operators.                            *)

\* The derived limits are natural numbers, and the limits that stop an attempt
\* are positive.
LEMMA Limits ==
  /\ NoToolLimit \in Nat \ {0}
  /\ NonProofLimit \in Nat
  /\ SandboxLimit \in Nat
  /\ RequestLimit \in Nat \ {0} /\ RequestLimit <= MaxTurns
  <1> USE FairLoopAssumption
  <1>1. MaxToolCalls \div 2 \in Nat /\ MaxToolCalls \div 4 \in Nat
    OBVIOUS
  <1>2. NoToolLimit \in Nat \ {0}
    BY DEF NoToolLimit, Greatest, Least
  <1> QED
    BY <1>1, <1>2 DEF NonProofLimit, SandboxLimit, RequestLimit, Greatest, Least

\* A draft is a body that the guards do not reject.
LEMMA Drafts ==
  /\ Draftable \subseteq Body /\ NoBody \notin Draftable
  /\ \A b \in Draftable : b \notin Mismatch /\ b \notin Forbidden
  BY ProofToolsAssumption DEF Draftable

\* A function on 1 .. n is a sequence of length n.
LEMMA FunctionIsSeq ==
  ASSUME NEW S, NEW n \in Nat, NEW f \in [1 .. n -> S]
  PROVE  f \in Seq(S) /\ Len(f) = n
  <1>1. f \in Seq(S)
    BY SeqDef
  <1>2. DOMAIN f = 1 .. n /\ DOMAIN f = 1 .. Len(f) /\ Len(f) \in Nat
    BY <1>1, LenProperties
  <1> QED
    BY <1>1, <1>2

\* A call submits a non-empty sequence of bodies that fits the attempts left.
LEMMA SubmissionsFit ==
  ASSUME TypeOK, MaySubmit, NEW bodies \in Submissions
  PROVE  /\ bodies \in Seq(Body) /\ bodies # <<>>
         /\ Len(attempts) + Len(bodies) <= MaxAttempts
  <1>1. Len(attempts) \in Nat
    BY DEF TypeOK, ProofTypeOK
  <1>2. MaxAttempts - Len(attempts) \in Nat \ {0} /\ MaxTactics \in Nat \ {0}
    BY <1>1, FairLoopAssumption DEF MaySubmit
  <1>3. Truncated \in Nat \ {0} /\ Truncated <= MaxAttempts - Len(attempts)
    BY <1>2 DEF Truncated, Least
  <1>4. \E n \in 1 .. Truncated : bodies \in [1 .. n -> Body]
    <2>1. CASE bodies \in [1 .. 1 -> Body]
      <3>1. 1 \in 1 .. Truncated
        BY <1>3
      <3> QED
        BY <2>1, <3>1
    <2>2. CASE bodies \in UNION {[1 .. n -> Body] : n \in 1 .. Truncated}
      BY <2>2, Zenon
    <2> QED
      BY <2>1, <2>2 DEF Submissions
  <1>5. PICK n \in 1 .. Truncated : bodies \in [1 .. n -> Body]
    BY <1>4
  <1>6. n \in Nat /\ n > 0 /\ n <= Truncated
    BY <1>3
  <1>7. bodies \in Seq(Body) /\ Len(bodies) = n
    BY <1>5, <1>6, FunctionIsSeq, Zenon
  <1>8. bodies # <<>>
    <2>1. Len(bodies) # 0
      BY <1>6, <1>7
    <2>2. Len(<<>>) = 0
      BY EmptySeq
    <2> QED
      BY <2>1, <2>2
  <1>9. Len(attempts) + Len(bodies) <= MaxAttempts
    BY <1>1, <1>2, <1>3, <1>6, <1>7, FairLoopAssumption
  <1> QED
    BY <1>7, <1>8, <1>9

\* While nothing has passed, the last failed attempt is the last attempt.
LEMMA LastFailedIsLast ==
  ASSUME TypeOK, \A i \in DOMAIN attempts : attempts[i].status # "lean_passed"
  PROVE  LastFailed = Len(attempts)
  <1>1. Failures = 1 .. Len(attempts) /\ Len(attempts) \in Nat
    BY DEF Failures, TypeOK, ProofTypeOK
  <1>2. CASE Len(attempts) = 0
    BY <1>1, <1>2 DEF LastFailed
  <1>3. CASE Len(attempts) # 0
    <2>1. Len(attempts) \in Failures /\ \A j \in Failures : j <= Len(attempts)
      BY <1>1, <1>3
    <2>2. \A i \in Failures : (\A j \in Failures : j <= i) => i = Len(attempts)
      BY <1>1, <2>1
    <2> QED
      BY <2>1, <2>2 DEF LastFailed
  <1> QED
    BY <1>2, <1>3

-----------------------------------------------------------------------------
(* The steps.                                                              *)

\* No step is taken once the attempt has ended, and every step is a ProofStep.
LEMMA Effects == ASSUME TypeOK, Next PROVE pc # "done" /\ ProofStep
  <1> USE DEF ProofStep
  <1>1. ASSUME NEW c \in BOOLEAN, NEW r, NEW t, Conclude(c, r, t)
        PROVE  UNCHANGED proofVars \/ Restores
    BY <1>1 DEF Conclude, Restores, proofVars
  <1>2. CASE LeaveLoop \/ TokensSpent \/ ContextStops
    BY <1>1, <1>2 DEF LeaveLoop, TokensSpent, ContextStops
  <1>3. ASSUME NEW n \in 0 .. 3, RespondText(n) PROVE pc # "done" /\ ProofStep
    BY <1>1, <1>3 DEF RespondText
  <1>4. CASE RequestFails \/ RespondCalls
    BY <1>4 DEF RequestFails, RespondCalls
  <1>5. CASE BadCall \/ RepeatedCall
    BY <1>5 DEF BadCall, RepeatedCall
  <1>6. CASE RefuseCall \/ RefuseSubmission \/ RefuseNonProof \/ LookUp
             \/ McpFails \/ ShowGoal \/ Sandbox
    BY <1>6 DEF RefuseCall, RefuseSubmission, RefuseNonProof, LookUp, McpFails,
                ShowGoal, Sandbox, Allowed, NonProof, WellFormed
  <1>7. CASE Draft
    BY <1>7 DEF Draft, NonProof, Allowed, WellFormed, WriteFails, RepairRefused,
                DraftStep
  <1>8. CASE BadSubmission
    BY <1>8 DEF BadSubmission, Submission, Allowed, WellFormed
  <1>9. CASE Submit
    BY <1>9 DEF Submit, Submission, Allowed, WellFormed, Turned, SubmitStep
  <1>10. CASE WriterFails
    BY <1>10 DEF WriterFails, Submission, Allowed, WellFormed, SubmitStep, Return
  <1>11. CASE Check
    BY <1>11 DEF Check, CheckStep, Ends, Return
  <1> QED
    BY <1>2, <1>3, <1>4, <1>5, <1>6, <1>7, <1>8, <1>9, <1>10, <1>11 DEF Next

\* A task keeps its configuration, and with it what its drafts may be.
LEMMA ConfigKept ==
  ASSUME TypeOK, Next
  PROVE  config' = config /\ Mode' = Mode /\ Draftable' = Draftable
  <1>1. config' = config
    BY Effects
       DEF ProofStep, DraftStep, SubmitStep, CheckStep, proofVars, Restores,
           WriteDraft, RepairDraft, RepairFails, Admit, AutoWrite, AutoWriteFails,
           CheckNext
  <1> QED
    BY <1>1 DEF Mode, Draftable

\* The fields of a recorded attempt.
LEMMA AttemptFields ==
  ASSUME NEW b, NEW s, NEW parse
  PROVE  LET a == Attempt(b, s, parse) IN
         /\ a.body = b /\ a.status = s /\ a.repair = RepairOutcome(s, parse)
  BY DEF Attempt

\* An attempt that checks the latest draft in strict mode.
LEMMA DraftAttempt ==
  ASSUME NEW s \in Checked, NEW parse, Mode = "strict", stage # "none"
  PROVE  LET a == Attempt(latest, s, parse) IN
         a.status \in Checked /\ a.derived /\ a.stage # "none"
  BY DEF Attempt, Derived

\* What a check does to the two sequences: the head of the queue becomes the
\* new last attempt.
LEMMA CheckEffect ==
  ASSUME TypeOK, NEW s \in Checked \cup Rejected, NEW parse \in BOOLEAN,
         CheckNext(s, parse)
  PROVE  /\ Len(attempts) \in Nat /\ DOMAIN attempts = 1 .. Len(attempts)
         /\ Len(queue) \in Nat /\ queue # <<>>
         /\ Head(queue) \in Body /\ Head(queue) = queue[1] /\ 1 \in DOMAIN queue
         /\ attempts' \in Seq(AttemptRecord)
         /\ DOMAIN attempts' = 1 .. Len(attempts) + 1
         /\ Len(attempts') = Len(attempts) + 1
         /\ attempts'[Len(attempts) + 1] = Attempt(Head(queue), s, parse)
         /\ \A i \in 1 .. Len(attempts) : attempts'[i] = attempts[i]
         /\ queue' \in Seq(Body)
         /\ Len(queue') \in Nat /\ Len(queue') < Len(queue)
         /\ \A i \in DOMAIN queue' : i + 1 \in DOMAIN queue /\ queue'[i] = queue[i + 1]
  <1>1. attempts \in Seq(AttemptRecord) /\ queue \in Seq(Body) /\ queue # <<>>
    BY DEF TypeOK, ProofTypeOK, CheckNext
  <1>2. /\ Len(attempts) \in Nat /\ DOMAIN attempts = 1 .. Len(attempts)
        /\ Len(queue) \in Nat /\ DOMAIN queue = 1 .. Len(queue)
    BY <1>1
  <1>3. Len(queue) > 0 /\ Head(queue) \in Body /\ Head(queue) = queue[1]
    BY <1>1
  <1>4. Attempt(Head(queue), s, parse) \in AttemptRecord
    <2>1. Attempt(Head(queue), s, parse).repair \in
            {"none", "improved", "improved_no_baseline", "regressed", "no_change"}
      BY DEF Attempt, RepairOutcome
    <2>2. stage \in {"none", "write", "repair"}
      BY DEF TypeOK, ProofTypeOK
    <2> QED
      BY <1>3, <2>1, <2>2 DEF Attempt, AttemptRecord, Derived
  <1>5. attempts' = Append(attempts, Attempt(Head(queue), s, parse))
    BY DEF CheckNext
  <1>6. /\ attempts' \in Seq(AttemptRecord)
        /\ Len(attempts') = Len(attempts) + 1
        /\ \A i \in 1 .. Len(attempts) : attempts'[i] = attempts[i]
        /\ attempts'[Len(attempts) + 1] = Attempt(Head(queue), s, parse)
    BY <1>1, <1>4, <1>5, AppendProperties
  <1>7. DOMAIN attempts' = 1 .. Len(attempts) + 1
    BY <1>6, LenProperties
  <1>8. queue' = <<>> \/ queue' = Tail(queue)
    BY DEF CheckNext, Rest
  <1>9. CASE queue' = <<>>
    BY <1>1, <1>2, <1>3, <1>6, <1>7, <1>9
  <1>10. CASE queue' = Tail(queue)
    <2>1. /\ queue' \in Seq(Body) /\ Len(queue') = Len(queue) - 1
          /\ \A i \in 1 .. Len(queue') : queue'[i] = queue[i + 1]
      BY <1>1, <1>10, HeadTailProperties
    <2>2. DOMAIN queue' = 1 .. Len(queue')
      BY <2>1, LenProperties
    <2> QED
      BY <1>2, <1>3, <1>1, <1>6, <1>7, <2>1, <2>2
  <1> QED
    BY <1>8, <1>9, <1>10

-----------------------------------------------------------------------------
(* The invariants of the proof tools' state.                               *)

\* Every step keeps the types of the proof tools' state.
LEMMA ProofTypeStep == ASSUME IInv, Next PROVE ProofTypeOK'
  <1> USE ProofToolsAssumption, Drafts DEF IInv, TypeOK, ProofTypeOK
  <1>1. pc # "done" /\ ProofStep
    BY Effects
  <1>2. CASE UNCHANGED proofVars
    BY <1>2 DEF proofVars
  <1>3. CASE Restores
    BY <1>3 DEF Restores
  <1>4. ASSUME NEW b \in Draftable, WriteDraft(b) PROVE ProofTypeOK'
    BY <1>4 DEF WriteDraft
  <1>5. ASSUME NEW b \in Draftable, RepairDraft(b) PROVE ProofTypeOK'
    <2>1. LastFailed \in 0 .. Len(attempts)
      BY <1>1, LastFailedIsLast DEF Control
    <2> QED
      BY <1>5, <2>1 DEF RepairDraft, MayRepair
  <1>6. CASE RepairFails
    BY <1>6 DEF RepairFails, MayRepair, ProverInv
  <1>7. ASSUME NEW bodies \in Submissions, MaySubmit, Admit(bodies) PROVE ProofTypeOK'
    BY <1>7, SubmissionsFit DEF Admit
  <1>8. ASSUME NEW b \in Draftable, AutoWrite(b) PROVE ProofTypeOK'
    BY <1>8 DEF AutoWrite, MayAutoWrite
  <1>9. CASE AutoWriteFails
    BY <1>9 DEF AutoWriteFails, MayAutoWrite, ProverInv
  <1>10. ASSUME NEW s \in Checked \cup Rejected, NEW parse \in BOOLEAN,
                CheckNext(s, parse)
         PROVE  ProofTypeOK'
    <2>1. attempts' \in Seq(AttemptRecord) /\ queue' \in Seq(Body)
      BY <1>10, CheckEffect
    <2>2. baseline' \in 0 .. Len(attempts')
      BY <1>10, CheckEffect DEF CheckNext
    <2>3. disk' \in Body \cup {NoBody}
      BY <1>10, CheckEffect DEF CheckNext, Written
    <2> QED
      BY <1>10, <2>1, <2>2, <2>3 DEF CheckNext, StillPending
  <1> QED
    BY <1>1, <1>2, <1>3, <1>4, <1>5, <1>6, <1>7, <1>8, <1>9, <1>10
       DEF ProofStep, DraftStep, SubmitStep, CheckStep

\* Every step keeps the latest draft, the queue and the attempts what the
\* strict gate takes them for.
LEMMA ProverStep == ASSUME IInv, Next PROVE ProverInv' /\ StrictOnlyProver'
  <1> DEFINE P == ProverInv' /\ StrictOnlyProver'
  <1> USE ProofToolsAssumption, Drafts DEF IInv, TypeOK, ProofTypeOK, ProverInv,
          StrictOnlyProver
  <1>0. Mode' = Mode /\ Draftable' = Draftable
    BY ConfigKept
  <1> USE <1>0
  <1>1. pc # "done" /\ ProofStep
    BY Effects
  <1>2. pc = "calls" => DOMAIN queue = {}
    BY <1>1 DEF Control
  <1>3. CASE UNCHANGED proofVars
    BY <1>3 DEF proofVars
  <1>4. CASE Restores
    BY <1>4 DEF Restores
  <1>5. ASSUME pc = "calls", NEW b \in Draftable, WriteDraft(b) PROVE P
    BY <1>2, <1>5 DEF WriteDraft
  <1>6. ASSUME pc = "calls", NEW b \in Draftable, RepairDraft(b) PROVE P
    BY <1>2, <1>6 DEF RepairDraft
  <1>7. CASE RepairFails
    BY <1>7 DEF RepairFails
  <1>8. ASSUME NEW bodies \in Submissions, Admit(bodies) PROVE P
    <2>1. Mode = "strict" => \A i \in DOMAIN queue' : queue'[i] = latest
      BY <1>8 DEF Admit, Admits
    <2> QED
      BY <1>8, <2>1 DEF Admit
  <1>9. ASSUME NEW b \in Draftable, AutoWrite(b) PROVE P
    <2>1. DOMAIN queue' = {1} /\ queue'[1] = b
      BY <1>9 DEF AutoWrite
    <2> QED
      BY <1>9, <2>1 DEF AutoWrite
  <1>10. CASE AutoWriteFails
    BY <1>10 DEF AutoWriteFails
  <1>11. ASSUME NEW s \in Checked \cup Rejected, NEW parse \in BOOLEAN,
                CheckNext(s, parse)
         PROVE  P
    <2> USE <1>11, CheckEffect
    <2>1. latest' = latest /\ stage' = stage
      BY DEF CheckNext
    <2>2. /\ undrafted' = undrafted /\ repairs' = repairs
          /\ autoFailures' = autoFailures /\ autoWrites' = autoWrites
      BY DEF CheckNext
    <2>3. CASE Mode # "strict"
      BY <2>1, <2>2, <2>3
    <2>4. CASE Mode = "strict"
      <3>1. Head(queue) = latest /\ latest \in Draftable /\ stage # "none"
        BY <2>4
      <3>2. s \in Checked
        BY <3>1 DEF CheckNext, Outcomes, Checked
      <3>3. attempts'[Len(attempts) + 1].status \in Checked
            /\ attempts'[Len(attempts) + 1].derived
            /\ attempts'[Len(attempts) + 1].stage # "none"
        BY <2>4, <3>1, <3>2, DraftAttempt
      <3>4. \A i \in DOMAIN attempts' : i \in DOMAIN attempts \/ i = Len(attempts) + 1
        OBVIOUS
      <3>5. \A i \in DOMAIN attempts' : attempts'[i].status \in Checked
                 /\ attempts'[i].derived /\ attempts'[i].stage # "none"
        BY <2>4, <3>3, <3>4, ZenonT(40)
      <3>6. \A i \in DOMAIN queue' : queue'[i] = latest'
        BY <2>1, <2>4
      <3> QED
        BY <2>1, <2>2, <3>1, <3>5, <3>6
    <2> QED
      BY <2>3, <2>4
  <1> QED
    BY <1>1, <1>3, <1>4, <1>5, <1>6, <1>7, <1>8, <1>9, <1>10, <1>11
       DEF ProofStep, DraftStep, SubmitStep, CheckStep

\* Every step leaves in the file the last proof that Lean was shown.
LEMMA FileStep == ASSUME IInv, Next PROVE FileIsLastChecked'
  <1> USE DEF IInv, FileIsLastChecked
  <1>1. ProofStep
    BY Effects
  <1>2. CASE UNCHANGED <<attempts, disk>>
    BY <1>2
  <1>3. CASE Restores
    BY <1>3 DEF Restores
  <1>4. ASSUME NEW s \in Checked \cup Rejected, NEW parse \in BOOLEAN,
               CheckNext(s, parse)
        PROVE  FileIsLastChecked'
    <2> USE <1>4, CheckEffect
    <2>1. attempts'[Len(attempts) + 1].status = s
          /\ attempts'[Len(attempts) + 1].body = Head(queue)
      BY AttemptFields
    <2>2. disk' = IF s \in Checked THEN Head(queue) ELSE disk
      BY DEF CheckNext, Written
    <2>3. CASE s \in Checked
      <3>1. Len(attempts) + 1 \in DOMAIN attempts'
            /\ \A j \in DOMAIN attempts' : ~(j > Len(attempts) + 1)
        OBVIOUS
      <3> QED
        BY <2>1, <2>2, <2>3, <3>1
    <2>4. CASE s \notin Checked
      <3>1. disk' = disk
        BY <2>2, <2>4
      <3>2. \A i \in DOMAIN attempts' : i \in DOMAIN attempts \/ i = Len(attempts) + 1
        OBVIOUS
      <3>3. CASE disk = NoBody /\ \A i \in DOMAIN attempts : attempts[i].status \notin Checked
        BY <2>1, <2>4, <3>1, <3>2, <3>3
      <3>4. ASSUME NEW i \in DOMAIN attempts,
                   attempts[i].status \in Checked, attempts[i].body = disk,
                   \A j \in DOMAIN attempts : j > i => attempts[j].status \notin Checked
            PROVE  FileIsLastChecked'
        <4>1. i \in DOMAIN attempts' /\ attempts'[i] = attempts[i]
          OBVIOUS
        <4>2. \A j \in DOMAIN attempts' : j > i => attempts'[j].status \notin Checked
          BY <2>1, <2>4, <3>2, <3>4
        <4> QED
          BY <3>1, <3>4, <4>1, <4>2
      <3> QED
        BY <3>3, <3>4
    <2> QED
      BY <2>3, <2>4
  <1> QED
    BY <1>1, <1>2, <1>3, <1>4
       DEF ProofStep, DraftStep, SubmitStep, CheckStep, proofVars, WriteDraft,
           RepairDraft, RepairFails, Admit, AutoWrite, AutoWriteFails

\* Only the proof checked last can pass, and then it ends the attempt.
LEMMA PassStep == ASSUME IInv, Next PROVE PassIsFinal'
  <1>1. ProofStep /\ \A i \in DOMAIN attempts : attempts[i].status # "lean_passed"
    BY Effects DEF IInv, Control
  <1>2. CASE UNCHANGED attempts
    BY <1>1, <1>2 DEF PassIsFinal
  <1>3. ASSUME NEW s \in Checked \cup Rejected, NEW parse \in BOOLEAN,
               CheckNext(s, parse), s = "lean_passed" => status' = s
        PROVE  PassIsFinal'
    <2> USE <1>3, CheckEffect DEF IInv
    <2>1. attempts'[Len(attempts) + 1].status = s
          /\ attempts'[Len(attempts) + 1].body = Head(queue)
      BY AttemptFields
    <2>2. \A i \in DOMAIN attempts' : i \in DOMAIN attempts \/ i = Len(attempts) + 1
      OBVIOUS
    <2>3. \A i \in DOMAIN attempts' :
            attempts'[i].status = "lean_passed" => i = Len(attempts') /\ s = "lean_passed"
      BY <1>1, <2>1, <2>2
    <2>4. s = "lean_passed" => disk' = Head(queue)
      BY DEF CheckNext, Written, Checked
    <2> QED
      BY <2>1, <2>3, <2>4 DEF PassIsFinal
  <1> QED
    BY <1>1, <1>2, <1>3
       DEF ProofStep, DraftStep, SubmitStep, CheckStep, proofVars, Restores,
           WriteDraft, RepairDraft, RepairFails, Admit, AutoWrite, AutoWriteFails

\* A strict repair is authorised by the failure of a draft that is the last
\* attempt, the repair's baseline and the file's contents all at once.
LEMMA RepairStep == ASSUME IInv, Next PROVE StrictRepairEditsItsFailure'
  <1> USE DEF StrictRepairEditsItsFailure
  <1>0. Mode' = Mode
    BY ConfigKept DEF IInv
  <1> USE <1>0
  <1>1. /\ ProofStep /\ StrictRepairEditsItsFailure
        /\ pc # "done" /\ \A i \in DOMAIN attempts : attempts[i].status # "lean_passed"
    BY Effects DEF IInv, Control
  <1>2. CASE UNCHANGED <<attempts, pending, baseline, disk>>
    BY <1>1, <1>2
  <1>3. CASE Restores
    BY <1>1, <1>3 DEF Restores, IInv, TypeOK, ProofTypeOK
  <1>4. ASSUME NEW b \in Draftable, RepairDraft(b), Mode = "strict"
        PROVE  StrictRepairEditsItsFailure'
    <2> DEFINE n == Len(attempts)
    <2>1. LastFailed = n /\ n \in Nat /\ DOMAIN attempts = 1 .. n
      BY <1>1, LastFailedIsLast DEF IInv, TypeOK, ProofTypeOK
    <2>2. n \in DOMAIN attempts /\ n > 0
      <3>1. Failures # {} /\ Failures \subseteq DOMAIN attempts
        BY <1>4 DEF RepairDraft, MayRepair, Failures
      <3> QED
        BY <2>1, <3>1
    <2>3. attempts[n].status \in Checked /\ attempts[n].derived
      BY <1>4, <2>2 DEF IInv, ProverInv, StrictOnlyProver
    <2>4. attempts[n].status = "lean_failed"
      BY <1>1, <2>2, <2>3 DEF Checked
    <2>5. attempts[n].body = disk
      <3>1. PICK i \in DOMAIN attempts :
              /\ attempts[i].body = disk
              /\ \A j \in DOMAIN attempts : j > i => attempts[j].status \notin Checked
        BY <2>2, <2>3 DEF IInv, FileIsLastChecked
      <3>2. ~(n > i)
        BY <2>2, <2>3, <3>1
      <3>3. i = n
        BY <2>1, <3>2
      <3> QED
        BY <3>1, <3>3
    <2>6. baseline' = n /\ attempts' = attempts /\ disk' = disk
      BY <1>4, <2>1 DEF RepairDraft
    <2> QED
      BY <2>2, <2>3, <2>4, <2>5, <2>6
  <1>5. ASSUME NEW s, NEW parse, CheckNext(s, parse)
        PROVE  StrictRepairEditsItsFailure'
    BY <1>5 DEF CheckNext, StillPending
  <1>6. CASE Mode # "strict"
    BY <1>6
  <1> QED
    BY <1>1, <1>2, <1>3, <1>4, <1>5, <1>6
       DEF ProofStep, DraftStep, SubmitStep, CheckStep, proofVars,
           WriteDraft, RepairFails, Admit, AutoWrite, AutoWriteFails

\* A call queues no more bodies than the attempts that are left, and a check
\* moves one of them from the queue to the attempts.
LEMMA BudgetStep == ASSUME IInv, Next PROVE AttemptsWithinBudget'
  <1> USE DEF AttemptsWithinBudget
  <1>1. ProofStep /\ AttemptsWithinBudget /\ TypeOK
    BY Effects DEF IInv
  <1>2. CASE UNCHANGED <<attempts, queue>>
    BY <1>1, <1>2
  <1>3. ASSUME NEW bodies \in Submissions, MaySubmit, Admit(bodies)
        PROVE  AttemptsWithinBudget'
    <2>1. Len(attempts) + Len(bodies) <= MaxAttempts
      BY <1>1, <1>3, SubmissionsFit
    <2> QED
      BY <1>3, <2>1 DEF Admit
  <1>4. ASSUME NEW b \in Draftable, MaySubmit, AutoWrite(b)
        PROVE  AttemptsWithinBudget'
    <2>1. Len(queue') = 1 /\ attempts' = attempts /\ Len(attempts) \in Nat
      BY <1>1, <1>4 DEF AutoWrite, TypeOK, ProofTypeOK
    <2> QED
      BY <1>4, <2>1, FairLoopAssumption DEF MaySubmit
  <1>5. ASSUME NEW s \in Checked \cup Rejected, NEW parse \in BOOLEAN,
               CheckNext(s, parse)
        PROVE  AttemptsWithinBudget'
    <2>1. /\ Len(attempts) \in Nat /\ Len(attempts') = Len(attempts) + 1
          /\ Len(queue) \in Nat /\ Len(queue') \in Nat /\ Len(queue') < Len(queue)
      BY <1>1, <1>5, CheckEffect
    <2> QED
      BY <1>1, <2>1, FairLoopAssumption
  <1> QED
    BY <1>1, <1>2, <1>3, <1>4, <1>5
       DEF ProofStep, DraftStep, SubmitStep, CheckStep, proofVars, Restores,
           WriteDraft, RepairDraft, RepairFails, AutoWriteFails

-----------------------------------------------------------------------------
(* The invariants of the loop.                                             *)

\* What a step of the calls and checks does to the place in the loop.
LEMMA HandledControl ==
  ASSUME TypeOK, pc \in {"calls", "checking"}, left > 0, Handled
  PROVE  /\ pc' \in {"top", "calls"} /\ (pc' = "calls" <=> left' > 0)
         /\ left' \in 0 .. MaxCalls /\ left' < left /\ status' = status
  BY FairLoopAssumption DEF Handled, TypeOK

\* Every step keeps the types of the loop's own state.
LEMMA LoopTypeStep == ASSUME IInv, Next PROVE TypeOK'
  <1> DEFINE LoopTypeOK ==
        /\ pc \in {"top", "calls", "checking", "done"}
        /\ requests \in 0 .. MaxTurns
        /\ left \in 0 .. MaxCalls
        /\ toolCalls \in 0 .. MaxToolCalls
        /\ nonProof \in 0 .. NonProofLimit
        /\ noTool \in 0 .. NoToolLimit
        /\ sandbox \in 0 .. SandboxLimit
        /\ corrected \in BOOLEAN
        /\ textRepeats \in 0 .. 3
        /\ callRepeats \in 0 .. 3
        /\ status \in ReturnStatus \cup {"none"}
  <1>1. SUFFICES LoopTypeOK'
    BY ProofTypeStep DEF TypeOK
  <1>2. LoopTypeOK /\ Control /\ TypeOK
    BY DEF IInv, TypeOK
  <1> USE <1>2, Limits, FairLoopAssumption
  <1>3. ~Exhausted => requests + 1 \in 0 .. MaxTurns
    BY DEF Exhausted
  <1>4. ASSUME NEW r, NEW t, Conclude(FALSE, r, t) \/ Conclude(TRUE, r, t)
        PROVE  pc' = "done" /\ left' = 0 /\ status' \in ReturnStatus
    BY <1>4 DEF Conclude, Return, FinalStatus, ReturnStatus
  <1>5. CASE LeaveLoop \/ TokensSpent
    <2>1. Conclude(FALSE, requests, noTool)
      BY <1>5 DEF LeaveLoop, TokensSpent
    <2>2. pc' = "done" /\ left' = 0 /\ status' \in ReturnStatus
      BY <1>4, <2>1
    <2>3. UNCHANGED <<requests, toolCalls, nonProof, noTool, sandbox, corrected,
                      textRepeats, callRepeats>>
      BY <1>5 DEF LeaveLoop, TokensSpent
    <2> QED
      BY <2>2, <2>3
  <1>6. CASE ContextStops
    <2>1. Conclude(TRUE, requests + 1, noTool)
      BY <1>6 DEF ContextStops
    <2>2. pc' = "done" /\ left' = 0 /\ status' \in ReturnStatus
      BY <1>4, <2>1
    <2> QED
      BY <1>3, <1>6, <2>2 DEF ContextStops
  <1>7. CASE RequestFails
    BY <1>3, <1>7 DEF RequestFails, Return, ReturnStatus
  <1>8. ASSUME NEW n \in 0 .. 3, RespondText(n) PROVE LoopTypeOK'
    <2>1. RepetitionStatus \in ReturnStatus
      BY DEF RepetitionStatus, ReturnStatus
    <2>2. requests' \in 0 .. MaxTurns /\ noTool' \in 0 .. NoToolLimit
      BY <1>3, <1>8 DEF RespondText, Control
    <2>3. /\ pc' \in {"top", "calls", "checking", "done"} /\ left' \in 0 .. MaxCalls
          /\ status' \in ReturnStatus \cup {"none"}
      <3>1. CASE n = 3
        BY <1>8, <2>1, <3>1 DEF RespondText, Return
      <3>2. CASE n # 3 /\ noTool + 1 >= NoToolLimit
        <4>1. Conclude(FALSE, requests + 1, noTool + 1)
          BY <1>8, <3>2 DEF RespondText
        <4>2. pc' = "done" /\ left' = 0 /\ status' \in ReturnStatus
          BY <1>4, <4>1
        <4> QED
          BY <4>2
      <3>3. CASE n # 3 /\ ~(noTool + 1 >= NoToolLimit)
        BY <1>8, <3>3 DEF RespondText
      <3> QED
        BY <3>1, <3>2, <3>3
    <2>4. textRepeats' \in 0 .. 3 /\ UNCHANGED <<toolCalls, nonProof, sandbox, corrected, callRepeats>>
      BY <1>8 DEF RespondText
    <2> QED
      BY <2>2, <2>3, <2>4
  <1>9. CASE RespondCalls
    BY <1>3, <1>9 DEF RespondCalls
  <1>10. ASSUME Handled, pc = "calls" \/ pc = "checking"
         PROVE  /\ pc' \in {"top", "calls"} /\ left' \in 0 .. MaxCalls
                /\ status' = status
    BY <1>10, HandledControl DEF Control
  <1>11. CASE BadCall
    BY <1>10, <1>11 DEF BadCall, Return, ReturnStatus
  <1>12. CASE RepeatedCall
    BY <1>12 DEF RepeatedCall, Return, RepetitionStatus, ReturnStatus
  <1>13. ASSUME WellFormed PROVE pc = "calls" /\ callRepeats' \in 0 .. 3
    BY <1>13 DEF WellFormed, Repeats, Greatest
  <1>14. CASE RefuseCall
    BY <1>10, <1>13, <1>14 DEF RefuseCall, WellFormed
  <1>15. ASSUME Allowed, Executed PROVE toolCalls' \in 0 .. MaxToolCalls
    BY <1>15 DEF Allowed, Executed
  <1>16. CASE RefuseSubmission
    BY <1>10, <1>13, <1>16 DEF RefuseSubmission, Allowed, WellFormed
  <1>17. CASE RefuseNonProof
    BY <1>10, <1>13, <1>15, <1>17 DEF RefuseNonProof, Allowed, WellFormed
  <1>18. ASSUME NonProof
         PROVE  /\ pc = "calls" /\ callRepeats' \in 0 .. 3
                /\ toolCalls' \in 0 .. MaxToolCalls /\ nonProof' \in 0 .. NonProofLimit
                /\ UNCHANGED <<requests, noTool, sandbox, corrected, textRepeats>>
    BY <1>13, <1>15, <1>18 DEF NonProof, Allowed, WellFormed
  <1>19. CASE LookUp \/ Draft
    BY <1>10, <1>18, <1>19 DEF LookUp, Draft
  <1>20. CASE McpFails
    BY <1>18, <1>20 DEF McpFails, Return, ReturnStatus
  <1>21. CASE ShowGoal
    BY <1>10, <1>13, <1>15, <1>21 DEF ShowGoal, Allowed, WellFormed
  <1>22. CASE Sandbox
    <2>1. sandbox' \in 0 .. SandboxLimit
      BY <1>22 DEF Sandbox, Least
    <2> QED
      BY <1>10, <1>13, <1>15, <1>22, <2>1 DEF Sandbox, Allowed, WellFormed
  <1>23. ASSUME Submission
         PROVE  /\ pc = "calls" /\ callRepeats' \in 0 .. 3
                /\ toolCalls' \in 0 .. MaxToolCalls
                /\ UNCHANGED <<requests, noTool, sandbox, corrected, textRepeats, nonProof>>
    BY <1>13, <1>15, <1>23 DEF Submission, Allowed, WellFormed
  <1>24. CASE BadSubmission
    BY <1>10, <1>23, <1>24 DEF BadSubmission
  <1>25. CASE Submit
    BY <1>10, <1>23, <1>25 DEF Submit, BeginCheck
  <1>26. CASE WriterFails
    BY <1>10, <1>23, <1>26 DEF WriterFails, Return, ReturnStatus
  <1>27. CASE Check
    BY <1>10, <1>27 DEF Check, Return, ReturnStatus
  <1> QED
    BY <1>5, <1>6, <1>7, <1>8, <1>9, <1>11, <1>12, <1>14, <1>16, <1>17, <1>19,
       <1>20, <1>21, <1>22, <1>24, <1>25, <1>26, <1>27 DEF Next

\* Where each step leaves the loop, and that a running attempt is below the
\* limits that end one.
LEMMA ControlStep == ASSUME IInv, Next PROVE Control'
  <1> DEFINE Place == /\ pc \in {"calls", "checking"} <=> left > 0
                      /\ pc = "checking" <=> queue # <<>>
             Running == status = "none" /\ noTool < NoToolLimit
                        /\ textRepeats < 3 /\ callRepeats < 3
  <1>1. /\ Place /\ (pc # "done" => Running) /\ TypeOK /\ TypeOK'
        /\ pc # "done" /\ queue \in Seq(Body)
    BY Effects, LoopTypeStep DEF IInv, Control, TypeOK, ProofTypeOK
  <1>2. SUFFICES Place' /\ (pc' # "done" => Running')
    <2>1. pc' # "done" => \A i \in DOMAIN attempts' : attempts'[i].status # "lean_passed"
      BY <1>2, PassStep DEF PassIsFinal
    <2> QED
      BY <1>2, <2>1 DEF Control
  <1> DEFINE Goal == Place' /\ (pc' # "done" => Running')
  <1>3. ASSUME pc = "top" \/ pc = "calls", UNCHANGED queue, pc' = "done", left' = 0
        PROVE  Goal
    BY <1>1, <1>3
  <1>4. ASSUME pc = "calls", UNCHANGED <<queue, noTool, textRepeats>>, Handled,
               callRepeats' < 3
        PROVE  Goal
    <2>1. /\ pc' \in {"top", "calls"} /\ (pc' = "calls" <=> left' > 0)
          /\ left' \in Nat /\ status' = status
      BY <1>1, <1>4, HandledControl
    <2> QED
      BY <1>1, <1>4, <2>1
  <1>5. CASE LeaveLoop \/ TokensSpent
    BY <1>3, <1>5 DEF LeaveLoop, TokensSpent, Conclude, Return
  <1>6. CASE ContextStops
    BY <1>3, <1>6 DEF ContextStops, Conclude, Return
  <1>7. CASE RequestFails
    BY <1>3, <1>7 DEF RequestFails, Return, proofVars
  <1>8. ASSUME NEW n \in 0 .. 3, RespondText(n) PROVE Goal
    <2>1. CASE n = 3
      BY <1>3, <1>8, <2>1 DEF RespondText, Return, proofVars
    <2>2. CASE n # 3 /\ noTool + 1 >= NoToolLimit
      BY <1>3, <1>8, <2>2 DEF RespondText, Conclude, Return
    <2>3. CASE n # 3 /\ ~(noTool + 1 >= NoToolLimit)
      <3>1. /\ pc = "top" /\ UNCHANGED <<pc, left, queue, status, callRepeats>>
            /\ noTool' = noTool + 1 /\ textRepeats' = n
        BY <1>8, <2>3 DEF RespondText, proofVars
      <3>2. noTool' < NoToolLimit
        BY <1>1, <2>3, <3>1, Limits DEF TypeOK
      <3> QED
        BY <1>1, <2>3, <3>1, <3>2
    <2> QED
      BY <2>1, <2>2, <2>3
  <1>9. CASE RespondCalls
    <2>1. left' > 0
      BY <1>9 DEF RespondCalls
    <2> QED
      BY <1>1, <1>9, <2>1 DEF RespondCalls, proofVars
  <1>10. CASE BadCall
    BY <1>1, <1>3, <1>4, <1>10 DEF BadCall, Return, proofVars
  <1>11. CASE RepeatedCall
    BY <1>3, <1>11 DEF RepeatedCall, Return, proofVars
  <1>12. ASSUME WellFormed
         PROVE  pc = "calls" /\ callRepeats' < 3 /\ UNCHANGED <<noTool, textRepeats>>
    BY <1>12 DEF WellFormed
  <1>13. CASE RefuseCall \/ RefuseSubmission \/ RefuseNonProof \/ LookUp
              \/ ShowGoal \/ Sandbox \/ BadSubmission
    BY <1>4, <1>12, <1>13 DEF RefuseCall, RefuseSubmission, RefuseNonProof,
       LookUp, ShowGoal, Sandbox, BadSubmission, Submission, NonProof, Allowed,
       proofVars
  <1>14. CASE McpFails
    BY <1>3, <1>12, <1>14 DEF McpFails, NonProof, Allowed, Return, proofVars
  <1>15. CASE Draft
    BY <1>4, <1>12, <1>15 DEF Draft, NonProof, Allowed, WriteFails, WriteDraft,
       RepairRefused, RepairFails, RepairDraft, proofVars
  <1>16. CASE Submit
    <2>1. pc = "calls" /\ callRepeats' < 3 /\ UNCHANGED <<noTool, textRepeats>>
          /\ MaySubmit
      BY <1>12, <1>16 DEF Submit, Submission, Allowed
    <2>2. ASSUME BeginCheck, queue' # <<>> PROVE Goal
      BY <1>1, <2>1, <2>2 DEF BeginCheck
    <2>3. ASSUME NEW bodies \in Submissions, Admit(bodies), BeginCheck PROVE Goal
      BY <1>1, <2>1, <2>2, <2>3, SubmissionsFit DEF Admit
    <2>4. ASSUME NEW bodies, Turned(bodies), Handled PROVE Goal
      BY <1>4, <2>1, <2>4 DEF Turned, proofVars
    <2>5. ASSUME NEW b, AutoWrite(b), BeginCheck PROVE Goal
      BY <2>2, <2>5 DEF AutoWrite
    <2> QED
      BY <1>16, <2>3, <2>4, <2>5 DEF Submit
  <1>17. CASE WriterFails
    BY <1>3, <1>4, <1>12, <1>17 DEF WriterFails, Submission, Allowed,
       AutoWriteFails, Return
  <1>18. CASE Check
    <2>1. PICK s \in Checked \cup Rejected, parse \in BOOLEAN :
            /\ CheckNext(s, parse)
            /\ IF Ends(s) THEN Return("lean_passed")
               ELSE IF queue' = <<>> THEN Handled
               ELSE UNCHANGED <<pc, left, status>>
      BY <1>18 DEF Check
    <2>2. pc = "checking" /\ UNCHANGED <<noTool, textRepeats, callRepeats>>
      BY <1>18 DEF Check
    <2>3. CASE Ends(s)
      <3>1. queue' = <<>>
        BY <2>1, <2>3 DEF CheckNext, Rest, Ends
      <3> QED
        BY <2>1, <2>3, <3>1 DEF Return
    <2>4. CASE ~Ends(s) /\ queue' = <<>>
      <3>1. /\ pc' \in {"top", "calls"} /\ (pc' = "calls" <=> left' > 0)
            /\ left' \in Nat /\ status' = status
        BY <1>1, <2>1, <2>2, <2>4, HandledControl
      <3> QED
        BY <1>1, <2>2, <2>4, <3>1
    <2>5. CASE ~Ends(s) /\ queue' # <<>>
      BY <1>1, <2>1, <2>2, <2>5
    <2> QED
      BY <2>3, <2>4, <2>5
  <1> QED
    BY <1>5, <1>6, <1>7, <1>8, <1>9, <1>10, <1>11, <1>13, <1>14, <1>15, <1>16,
       <1>17, <1>18 DEF Next

\* Attempts are only ever appended, and only by a check.
LEMMA AttemptsGrow ==
  ASSUME IInv, Next
  PROVE  /\ Len(attempts) \in Nat /\ Len(attempts') \in Nat
         /\ Len(attempts') >= Len(attempts)
         /\ pc # "checking" => attempts' = attempts
  <1>1. ProofStep /\ TypeOK /\ Len(attempts) \in Nat
    BY Effects DEF IInv, TypeOK, ProofTypeOK
  <1>2. CASE UNCHANGED attempts
    BY <1>1, <1>2
  <1>3. ASSUME pc = "checking", NEW s \in Checked \cup Rejected,
               NEW parse \in BOOLEAN, CheckNext(s, parse)
        PROVE  Len(attempts') = Len(attempts) + 1
    BY <1>1, <1>3, CheckEffect
  <1> QED
    BY <1>1, <1>2, <1>3
       DEF ProofStep, DraftStep, SubmitStep, CheckStep, proofVars, Restores,
           WriteDraft, RepairDraft, RepairFails, Admit, AutoWrite, AutoWriteFails

\* Every request of a running attempt stays paid for.
LEMMA PaidStep == ASSUME IInv, Next PROVE RequestsPaid'
  <1> USE FairLoopAssumption DEF RequestsPaid
  <1>1. /\ RequestsPaid /\ pc # "done"
        /\ {requests, toolCalls, noTool} \subseteq Nat
        /\ corrected \in BOOLEAN
        /\ Len(attempts') >= Len(attempts)
        /\ Len(attempts) \in Nat /\ Len(attempts') \in Nat
    BY Effects, AttemptsGrow DEF IInv, TypeOK
  <1>2. CASE pc' = "done"
    BY <1>2
  <1>3. ASSUME NEW n \in 0 .. 3, RespondText(n), pc' # "done" PROVE RequestsPaid'
    <2>1. /\ pc = "top" /\ pc' = "top" /\ UNCHANGED <<corrected, toolCalls>>
          /\ requests' = requests + 1 /\ noTool' = noTool + 1
      BY <1>3 DEF RespondText, Conclude, Return
    <2>2. CASE Len(attempts) >= MaxAttempts
      <3>1. Len(attempts') >= MaxAttempts
        BY <1>1, <2>2
      <3> QED
        BY <3>1
    <2>3. CASE toolCalls >= MaxToolCalls
      BY <2>1, <2>3
    <2>4. CASE Len(attempts) < MaxAttempts /\ toolCalls < MaxToolCalls
      <3> DEFINE c == IF corrected THEN 1 ELSE 0
      <3>1. c \in Int /\ c' = c
        BY <1>1, <2>1
      <3>2. requests <= toolCalls + noTool + c
        BY <1>1, <2>1, <2>4, SMTT(30)
      <3>3. /\ requests \in Nat /\ toolCalls \in Nat /\ noTool \in Nat
            /\ requests' = requests + 1 /\ noTool' = noTool + 1
            /\ toolCalls' = toolCalls
        BY <1>1, <2>1
      <3>4. requests' <= toolCalls' + noTool' + c'
        <4> HIDE DEF c
        <4> QED
          BY <3>1, <3>2, <3>3
      <3>5. requests' <= toolCalls' + noTool' + (IF corrected' THEN 1 ELSE 0)
        BY <3>4
      <3>6. requests' <= toolCalls' + noTool' + (IF corrected' THEN 1 ELSE 0)
                           + (IF pc' = "calls" THEN 1 ELSE 0)
        <4>1. pc' # "calls" /\ toolCalls' + noTool' \in Int
          BY <2>1, <3>3
        <4> QED
          BY <3>1, <3>5, <4>1
      <3> QED
        BY <3>6, Zenon
    <2>5. \/ Len(attempts) >= MaxAttempts \/ toolCalls >= MaxToolCalls
          \/ Len(attempts) < MaxAttempts /\ toolCalls < MaxToolCalls
      BY <1>1
    <2> QED
      BY <2>2, <2>3, <2>4, <2>5
  <1>4. CASE RespondCalls
    <2>1. /\ pc = "top" /\ pc' = "calls" /\ UNCHANGED <<corrected, toolCalls, noTool>>
          /\ requests' = requests + 1
      BY <1>4 DEF RespondCalls
    <2> QED
      BY <1>1, <2>1, SMTT(30)
  <1>5. CASE BadCall /\ pc' # "done"
    <2>1. /\ corrected = FALSE /\ corrected' = TRUE /\ pc = "calls"
          /\ UNCHANGED <<requests, toolCalls, noTool>>
      BY <1>1, <1>5 DEF BadCall, Return
    <2> QED
      BY <1>1, <2>1
  <1>6. CASE RefuseCall
    BY <1>1, <1>6 DEF RefuseCall
  <1>7. CASE RefuseSubmission
    BY <1>1, <1>7, AttemptsGrow
       DEF RefuseSubmission, MaySubmit, proofVars, Allowed, WellFormed
  <1>8. ASSUME Allowed, Executed PROVE RequestsPaid'
    <2>1. /\ toolCalls' = toolCalls + 1 /\ pc = "calls"
          /\ UNCHANGED <<requests, noTool, corrected>>
      BY <1>8 DEF Allowed, Executed, WellFormed
    <2> QED
      BY <1>1, <2>1, SMTT(30)
  <1>9. CASE Check
    <2>1. pc = "checking" /\ UNCHANGED <<requests, toolCalls, noTool, corrected>>
      BY <1>9 DEF Check
    <2> QED
      BY <1>1, <2>1
  <1>10. CASE LeaveLoop \/ TokensSpent \/ ContextStops \/ RequestFails \/ RepeatedCall
    BY <1>2, <1>10 DEF LeaveLoop, TokensSpent, ContextStops, RequestFails,
       RepeatedCall, Conclude, Return
  <1> QED
    BY <1>2, <1>3, <1>4, <1>5, <1>6, <1>7, <1>8, <1>9, <1>10
       DEF Next, RefuseNonProof, LookUp, McpFails, ShowGoal, Sandbox, Draft,
           BadSubmission, Submit, WriterFails, NonProof, Submission

\* A failed automatic write is the last one allowed only if it ends the attempt.
LEMMA WriterCapStep == ASSUME IInv, Next PROVE WriterCapAhead'
  <1>1. ProofStep /\ WriterCapAhead /\ pc # "done" /\ autoWrites \in Nat
    BY Effects DEF IInv, TypeOK, ProofTypeOK
  <1>0. Mode' = Mode
    BY ConfigKept DEF IInv
  <1> USE <1>0, <1>1, ProofToolsAssumption, Drafts DEF WriterCapAhead
  <1>2. CASE UNCHANGED <<latest, autoWrites>>
    BY <1>2
  <1>3. ASSUME NEW b \in Draftable, WriteDraft(b) \/ RepairDraft(b) \/ AutoWrite(b)
        PROVE  WriterCapAhead'
    BY <1>3 DEF WriteDraft, RepairDraft, AutoWrite
  <1>4. CASE AutoWriteFails /\ (WriterSpent => pc' = "done")
    BY <1>4 DEF AutoWriteFails, WriterSpent
  <1> QED
    BY <1>2, <1>3, <1>4
       DEF ProofStep, DraftStep, SubmitStep, CheckStep, proofVars, Restores,
           RepairFails, Admit, CheckNext

-----------------------------------------------------------------------------
(* The theorems.                                                           *)

\* The initial state satisfies the inductive invariant.
LEMMA InitInv == Init => IInv
  <1> SUFFICES ASSUME Init PROVE IInv
    OBVIOUS
  <1> USE ProofToolsAssumption, FairLoopAssumption, Limits DEF Init, ProofInit
  <1>1. TypeOK
    <2>1. /\ attempts \in Seq(AttemptRecord) /\ queue \in Seq(Body)
          /\ Len(attempts) = 0
      BY EmptySeq, Zenon
    <2>2. /\ 0 \in 0 .. MaxTurns /\ 0 \in 0 .. MaxCalls /\ 0 \in 0 .. MaxToolCalls
          /\ 0 \in 0 .. NonProofLimit /\ 0 \in 0 .. NoToolLimit
          /\ 0 \in 0 .. SandboxLimit /\ 0 \in 0 .. MaxRepairs
          /\ 0 \in 0 .. MaxAutoWrites /\ 0 \in 0 .. 3
      OBVIOUS
    <2>3. 0 \in 0 .. Len(attempts)
      BY <2>1
    <2>4. /\ latest \in Body \cup {NoBody} /\ disk \in Body \cup {NoBody}
          /\ stage \in {"none", "write", "repair"} /\ pending \in BOOLEAN
          /\ pc \in {"top", "calls", "checking", "done"} /\ corrected \in BOOLEAN
          /\ status \in ReturnStatus \cup {"none"}
      BY Zenon
    <2> QED
      BY <2>1, <2>2, <2>3, <2>4, Zenon DEF TypeOK, ProofTypeOK
  <1>2. Control
    BY DEF Control
  <1>3. ProverInv /\ StrictOnlyProver
    BY DEF ProverInv, StrictOnlyProver
  <1>4. FileIsLastChecked /\ PassIsFinal /\ StrictRepairEditsItsFailure
    BY DEF FileIsLastChecked, PassIsFinal, StrictRepairEditsItsFailure
  <1>5. AttemptsWithinBudget /\ WriterCapAhead /\ RequestsPaid
    BY DEF AttemptsWithinBudget, WriterCapAhead, RequestsPaid
  <1> QED
    BY <1>1, <1>2, <1>3, <1>4, <1>5 DEF IInv

\* The inductive invariant holds in every reachable state.
THEOREM Invariance == Spec => []IInv
  <1>1. IInv /\ [Next]_vars => IInv'
    <2>1. ASSUME IInv, Next PROVE IInv'
      BY <2>1, LoopTypeStep, ControlStep, ProverStep, FileStep, PassStep,
         RepairStep, BudgetStep, WriterCapStep, PaidStep DEF IInv
    <2>2. ASSUME IInv, UNCHANGED vars PROVE IInv'
      BY <2>2 DEF IInv, vars, proofVars, loopVars, TypeOK, ProofTypeOK, Control,
         ProverInv, StrictOnlyProver, FileIsLastChecked, PassIsFinal,
         StrictRepairEditsItsFailure, AttemptsWithinBudget, WriterCapAhead,
         RequestsPaid, Mode, Draftable
    <2> QED
      BY <2>1, <2>2
  <1> QED
    BY InitInv, <1>1, PTL DEF Spec

\* The attempt's state keeps its types, in every mode and for all budgets.
THEOREM TypeCorrect == Spec => []TypeOK
  BY Invariance, PTL DEF IInv

\* In strict mode every proof that Lean saw came from the prover, whatever the
\* driver submits and in whatever order (the gate of _execute_fair_tool).
THEOREM OnlyProverIsChecked == Spec => []StrictOnlyProver
  BY Invariance, PTL DEF IInv

\* A strict repair edits the very failure that its prompt describes.
THEOREM RepairsEditTheirFailure == Spec => []StrictRepairEditsItsFailure
  BY Invariance, PTL DEF IInv

\* No response, however many calls and tactics it has, records more attempts
\* than the budget.
THEOREM BudgetKept == Spec => []AttemptsWithinBudget
  BY Invariance, PTL DEF IInv

\* What the verifier will build is the last proof that Lean was shown.
THEOREM FileFollowsChecks == Spec => []FileIsLastChecked
  BY Invariance, PTL DEF IInv

\* A pass is the last attempt, the result and the file's contents.
THEOREM PassEnds == Spec => []PassIsFinal
  BY Invariance, PTL DEF IInv

\* A strict attempt without a draft can always ask the writer once more.
THEOREM WriterCap == Spec => []WriterCapAhead
  BY Invariance, PTL DEF IInv

-----------------------------------------------------------------------------
(* How an attempt ends.                                                    *)

\* The step that sets the final status blames the writer only without a proof.
LEMMA EndStep == ASSUME IInv, Next PROVE WriterFailureHasNoProof'
  <1> DEFINE Writer == {"strict_writer_failed", "strict_writer_exhausted"}
  <1>1. status = "none" /\ pc # "done" /\ TypeOK
    BY Effects DEF IInv, Control
  <1>2. ASSUME status' \notin Writer PROVE WriterFailureHasNoProof'
    BY <1>2 DEF WriterFailureHasNoProof
  <1>3. ASSUME status' \in Writer => WriterUnresolved, UNCHANGED proofVars \/ Restores
        PROVE  WriterFailureHasNoProof'
    <2>1. UNCHANGED <<attempts, latest, autoFailures>>
      BY <1>3 DEF proofVars, Restores
    <2> QED
      BY <1>3, <2>1 DEF WriterFailureHasNoProof, WriterUnresolved
  <1>4. ASSUME NEW c, NEW r, NEW t, Conclude(c, r, t)
        PROVE  WriterFailureHasNoProof'
    <2>1. status' \in Writer => WriterUnresolved
      BY <1>4 DEF Conclude, Return, FinalStatus
    <2>2. UNCHANGED proofVars \/ Restores
      BY <1>4 DEF Conclude, Restores, proofVars
    <2> QED
      BY <1>3, <2>1, <2>2
  <1>5. CASE LeaveLoop \/ TokensSpent \/ ContextStops
    BY <1>4, <1>5 DEF LeaveLoop, TokensSpent, ContextStops
  <1>6. ASSUME NEW n \in 0 .. 3, RespondText(n) PROVE WriterFailureHasNoProof'
    <2>1. CASE n = 3
      <3>1. status' = RepetitionStatus /\ UNCHANGED proofVars
        BY <1>6, <2>1 DEF RespondText, Return
      <3>2. status' \in Writer => WriterUnresolved
        BY <3>1 DEF RepetitionStatus
      <3> QED
        BY <1>3, <3>1, <3>2
    <2>2. CASE n # 3 /\ noTool + 1 >= NoToolLimit
      BY <1>4, <1>6, <2>2 DEF RespondText
    <2>3. CASE n # 3 /\ ~(noTool + 1 >= NoToolLimit)
      BY <1>1, <1>2, <1>6, <2>3 DEF RespondText
    <2> QED
      BY <2>1, <2>2, <2>3
  <1>7. CASE RepeatedCall
    <2>1. status' = RepetitionStatus /\ UNCHANGED proofVars
      BY <1>7 DEF RepeatedCall, Return
    <2>2. status' \in Writer => WriterUnresolved
      BY <2>1 DEF RepetitionStatus
    <2> QED
      BY <1>3, <2>1, <2>2
  <1>8. CASE WriterFails
    <2>1. CASE ~WriterSpent
      BY <1>1, <1>2, <1>8, <2>1 DEF WriterFails, Handled
    <2>2. CASE WriterSpent
      <3>1. /\ latest = NoBody /\ latest' = latest /\ attempts' = attempts
            /\ autoFailures' = autoFailures + 1 /\ Mode = "strict"
        BY <1>8, <2>2 DEF WriterFails, Return, AutoWriteFails, NeedsWriter
      <3>2. attempts = <<>> /\ autoFailures \in Nat
        BY <3>1 DEF IInv, ProverInv, TypeOK, ProofTypeOK
      <3> QED
        BY <3>1, <3>2 DEF WriterFailureHasNoProof
    <2> QED
      BY <2>1, <2>2
  <1>9. CASE \/ RequestFails \/ RespondCalls \/ BadCall \/ RefuseCall
             \/ RefuseSubmission \/ RefuseNonProof \/ LookUp \/ McpFails
    BY <1>1, <1>2, <1>9 DEF RequestFails, RespondCalls, BadCall, RefuseCall,
       RefuseSubmission, RefuseNonProof, LookUp, McpFails, Handled, Return
  <1>10. CASE ShowGoal \/ Sandbox \/ Draft \/ BadSubmission \/ Submit \/ Check
    BY <1>1, <1>2, <1>10 DEF ShowGoal, Sandbox, Draft, BadSubmission, Submit,
       BeginCheck, Check, Handled, Return
  <1> QED
    BY <1>5, <1>6, <1>7, <1>8, <1>9, <1>10 DEF Next

\* The writer path is blamed only for an attempt that has no proof and no draft.
THEOREM WriterBlame == Spec => []WriterFailureHasNoProof
  <1>1. Init => WriterFailureHasNoProof
    BY DEF Init, WriterFailureHasNoProof
  <1>2. IInv /\ WriterFailureHasNoProof /\ [Next]_vars => WriterFailureHasNoProof'
    <2>1. UNCHANGED vars /\ WriterFailureHasNoProof => WriterFailureHasNoProof'
      BY DEF WriterFailureHasNoProof, vars, proofVars, loopVars
    <2> QED
      BY <2>1, EndStep
  <1> QED
    BY <1>1, <1>2, Invariance, PTL DEF Spec

\* The request bound that the code adds to the declared caps ends no attempt:
\* the requests that are left over by the other caps were paid for by calls.
THEOREM CapsDecide == Spec => []SafetyBoundNeverDecides
  <1>1. ASSUME IInv, pc = "top", requests >= RequestLimit,
               ~(requests >= MaxTurns), ~(toolCalls >= MaxToolCalls),
               ~(Len(attempts) >= MaxAttempts)
        PROVE  FALSE
    <2>1. noTool < NoToolLimit /\ TypeOK
      BY <1>1 DEF IInv, Control
    <2>2. requests >= MaxToolCalls + MaxAttempts + NoToolLimit
      BY <1>1, <2>1, Limits, FairLoopAssumption DEF RequestLimit, Least, TypeOK
    <2>3. requests <= toolCalls + noTool + 1
      BY <1>1, <2>1 DEF IInv, RequestsPaid, TypeOK
    <2> QED
      BY <1>1, <2>1, <2>2, <2>3, Limits, FairLoopAssumption DEF TypeOK
  <1>2. IInv => SafetyBoundNeverDecides
    BY <1>1 DEF SafetyBoundNeverDecides
  <1> QED
    BY <1>2, Invariance, PTL

-----------------------------------------------------------------------------
(* Progress.                                                               *)

\* No step of the loop is free (EveryStepSpends): with the bounds on requests
\* and calls that TypeCorrect gives, every attempt has finitely many steps.
THEOREM StepsSpend == Spec => EveryStepSpends
  <1>1. ASSUME IInv, Next PROVE Spends
    <2>1. /\ TypeOK /\ Control /\ requests \in Nat /\ Len(queue) \in Nat
      BY <1>1 DEF IInv, TypeOK, ProofTypeOK
    <2> USE DEF Spends
    <2>2. ASSUME Handled, pc = "calls" \/ pc = "checking", UNCHANGED requests
          PROVE  Spends
      BY <2>1, <2>2, HandledControl DEF Control
    <2>3. ASSUME requests' = requests + 1 PROVE Spends
      BY <2>1, <2>3
    <2>4. ASSUME NEW s, Return(s) PROVE Spends
      BY <2>4 DEF Return
    <2>5. CASE LeaveLoop \/ TokensSpent \/ McpFails \/ RepeatedCall
      BY <2>4, <2>5 DEF LeaveLoop, TokensSpent, Conclude, McpFails, RepeatedCall
    <2>6. CASE RequestFails \/ ContextStops \/ RespondCalls \/ \E n \in 0 .. 3 : RespondText(n)
      BY <2>3, <2>6 DEF RequestFails, ContextStops, RespondCalls, RespondText
    <2>7. CASE BadCall
      BY <2>2, <2>4, <2>7 DEF BadCall
    <2>8. CASE RefuseCall \/ RefuseSubmission \/ RefuseNonProof \/ LookUp
               \/ ShowGoal \/ Sandbox \/ Draft \/ BadSubmission
      BY <2>2, <2>8 DEF RefuseCall, RefuseSubmission, RefuseNonProof, LookUp,
         ShowGoal, Sandbox, Draft, BadSubmission, Submission, NonProof, Allowed,
         WellFormed
    <2>9. CASE Submit
      BY <2>2, <2>9 DEF Submit, BeginCheck, Submission, Allowed, WellFormed
    <2>10. CASE WriterFails
      BY <2>2, <2>4, <2>10 DEF WriterFails, Submission, Allowed, WellFormed
    <2>11. CASE Check
      <3>1. PICK s \in Checked \cup Rejected, parse \in BOOLEAN :
              /\ CheckNext(s, parse)
              /\ IF Ends(s) THEN Return("lean_passed")
                 ELSE IF queue' = <<>> THEN Handled
                 ELSE UNCHANGED <<pc, left, status>>
        BY <2>11 DEF Check
      <3>2. pc = "checking" /\ UNCHANGED requests /\ Len(queue') < Len(queue)
        BY <2>1, <2>11, <3>1, CheckEffect DEF Check
      <3> QED
        BY <2>2, <2>4, <3>1, <3>2
    <2> QED
      BY <1>1, <2>5, <2>6, <2>7, <2>8, <2>9, <2>10, <2>11 DEF Next
  <1>2. IInv /\ [Next]_vars => [Spends]_vars
    BY <1>1
  <1> QED
    BY <1>2, Invariance, PTL DEF Spec, EveryStepSpends

-----------------------------------------------------------------------------
(* The repair account.                                                     *)

\* Only a check grades, and it grades at most its own attempt.
LEMMA AccountStep ==
  ASSUME IInv, IsFiniteSet(Graded), RepairsAccounted, Next
  PROVE  IsFiniteSet(Graded') /\ RepairsAccounted'
  <1> DEFINE Account == Cardinality(Graded)
             Goal == IsFiniteSet(Graded') /\ RepairsAccounted'
  <1>1. /\ ProofStep /\ TypeOK /\ Account \in Nat
        /\ {repairs, undrafted} \subseteq Nat /\ pending \in BOOLEAN
        /\ Account + undrafted + (IF pending THEN 1 ELSE 0) <= repairs
    BY Effects, FS_CardinalityType DEF IInv, TypeOK, ProofTypeOK, RepairsAccounted
  <1>2. ASSUME UNCHANGED attempts PROVE Graded' = Graded
    BY <1>2 DEF Graded
  <1>3. CASE UNCHANGED <<attempts, pending, undrafted, repairs>>
    BY <1>1, <1>2, <1>3 DEF RepairsAccounted
  <1>4. ASSUME NEW b, RepairDraft(b) PROVE Goal
    <2>1. /\ Graded' = Graded /\ pending' = TRUE /\ undrafted' = undrafted
          /\ repairs' = repairs + 1
      BY <1>2, <1>4 DEF RepairDraft
    <2> QED
      BY <1>1, <2>1 DEF RepairsAccounted
  <1>5. CASE RepairFails
    <2>1. /\ Graded' = Graded /\ pending' = pending /\ undrafted' = undrafted + 1
          /\ repairs' = repairs + 1
      BY <1>2, <1>5 DEF RepairFails
    <2> QED
      BY <1>1, <2>1 DEF RepairsAccounted
  <1>6. ASSUME NEW s \in Checked \cup Rejected, NEW parse \in BOOLEAN,
               CheckNext(s, parse)
        PROVE  Goal
    <2> DEFINE n == Len(attempts) + 1
    <2>1. /\ DOMAIN attempts' = 1 .. n /\ DOMAIN attempts = 1 .. Len(attempts)
          /\ Len(attempts) \in Nat
          /\ \A i \in 1 .. Len(attempts) : attempts'[i] = attempts[i]
          /\ attempts'[n] = Attempt(Head(queue), s, parse)
      BY <1>1, <1>6, CheckEffect
    <2>2. attempts'[n].repair = RepairOutcome(s, parse)
      BY <2>1, AttemptFields
    <2>3. pending' = FALSE /\ UNCHANGED <<undrafted, repairs>>
      BY <1>6 DEF CheckNext, StillPending
    <2>4. CASE pending
      <3>1. Graded' = Graded \cup {n} /\ n \notin Graded
        <4>1. RepairOutcome(s, parse) # "none"
          BY <2>4 DEF RepairOutcome
        <4>2. \A i : i \in Graded' <=> i \in Graded \/ i = n
          BY <2>1, <2>2, <4>1 DEF Graded
        <4>3. n \notin Graded
          BY <2>1 DEF Graded
        <4> QED
          BY <4>2, <4>3
      <3>2. IsFiniteSet(Graded') /\ Cardinality(Graded') = Account + 1
        BY <3>1, FS_AddElement
      <3> QED
        BY <1>1, <2>3, <2>4, <3>2 DEF RepairsAccounted
    <2>5. CASE ~pending
      <3>1. RepairOutcome(s, parse) = "none"
        BY <2>5 DEF RepairOutcome
      <3>2. \A i : i \in Graded' <=> i \in Graded
        BY <2>1, <2>2, <3>1 DEF Graded
      <3>3. Graded' = Graded
        BY <3>2
      <3> QED
        BY <1>1, <2>3, <2>5, <3>3 DEF RepairsAccounted
    <2> QED
      BY <2>4, <2>5
  <1> QED
    BY <1>1, <1>3, <1>4, <1>5, <1>6
       DEF ProofStep, DraftStep, SubmitStep, CheckStep, proofVars, Restores,
           WriteDraft, Admit, AutoWrite, AutoWriteFails

\* No repair is counted twice, in whatever order drafts and submissions come.
THEOREM RepairsCounted == Spec => []RepairsAccounted
  <1> DEFINE Inv == IsFiniteSet(Graded) /\ RepairsAccounted
  <1>1. Init => Inv
    <2>1. Init => Graded = {}
      BY DEF Init, ProofInit, Graded
    <2> QED
      BY <2>1, FS_EmptySet DEF Init, ProofInit, RepairsAccounted
  <1>2. IInv /\ Inv /\ [Next]_vars => Inv'
    <2>1. UNCHANGED vars /\ Inv => Inv'
      BY DEF vars, proofVars, loopVars, RepairsAccounted, Graded
    <2> QED
      BY <2>1, AccountStep
  <1>3. Inv => RepairsAccounted
    OBVIOUS
  <1> QED
    BY <1>1, <1>2, <1>3, Invariance, PTL DEF Spec

\* The attempts, the repairs and the bound on requests agree with the declared
\* caps in every reachable state.
THEOREM AttemptIsAccounted == Spec => []AttemptAccounted
  BY BudgetKept, RepairsCounted, CapsDecide, PTL DEF AttemptAccounted

\* The file is what Lean judged last, and a proof that passed is final.
THEOREM FileIsTheEvidence == Spec => []FileIsEvidence
  BY FileFollowsChecks, PassEnds, PTL DEF FileIsEvidence

-----------------------------------------------------------------------------
(* The scored run.                                                         *)

\* A row is either a setup failure, without an attempt, or the status of the
\* loop that returned; without a row the file is what an exception left.
Handover ==
  IF row = "none"
  THEN file \in {NoBody, disk} \/ (Mode = "strict" => file = latest)
  ELSE \/ row \in SetupFailures /\ attempts = <<>> /\ file = NoBody
       \/ row = status /\ file = disk

RunInv ==
  /\ ScoreTypeOK
  /\ phase = "setup" => attempts = <<>>
  /\ phase \in {"setup", "attempt"} => row = "none" /\ file = NoBody
  /\ Handover
  /\ phase # "scored" => finalClass \in {"none", "INFRA_INVALID"}
  /\ phase = "scored" => target \in Targets /\ finalClass = Classify(target)

-----------------------------------------------------------------------------
\* A step of a scored run is a step of the loop or leaves its state alone.
LEMMA ScoreStepIsLoopStep == [ScoreNext]_allVars => [Next]_vars
  BY DEF ScoreNext, allVars, SetupFails, SetupPasses, LoopStep, LoopReturns,
         HarnessFails, RunLost, Score

\* A scored run implements the specification of the attempt loop: setup,
\* exceptions, a lost run and the verifier never touch the attempt's state.
THEOREM ImplementsLoop == ScoreSpec => Spec
  <1>1. ScoreInit => Init
    BY DEF ScoreInit
  <1> QED
    BY <1>1, ScoreStepIsLoopStep, PTL DEF ScoreSpec, Spec

\* What the loop's invariants say of the file: it is the skeleton, or a proof
\* that Lean was shown and, in strict mode, that came from the prover.
LEMMA FileOfLoop ==
  ASSUME IInv
  PROVE  /\ attempts = <<>> => disk = NoBody
         /\ disk # NoBody /\ Mode = "strict" =>
              \E i \in DOMAIN attempts : attempts[i].derived /\ attempts[i].body = disk
  <1>1. FileIsLastChecked /\ StrictOnlyProver
    BY DEF IInv
  <1>2. attempts = <<>> => DOMAIN attempts = {}
    OBVIOUS
  <1> QED
    BY <1>1, <1>2 DEF FileIsLastChecked, StrictOnlyProver

\* The proof that was being checked when an exception left the loop.
LEMMA FileInFlight ==
  ASSUME IInv, NEW f \in InFlight
  PROVE  f \in Body \cup {NoBody} /\ (f = disk \/ (Mode = "strict" => f = latest))
  <1>1. TypeOK /\ Control /\ ProverInv
    BY DEF IInv
  <1>2. disk \in Body \cup {NoBody} /\ queue \in Seq(Body)
    BY <1>1 DEF TypeOK, ProofTypeOK
  <1>3. CASE f = disk
    BY <1>2, <1>3
  <1>4. CASE f = Head(queue) /\ pc = "checking"
    <2>1. queue # <<>>
      BY <1>1, <1>4 DEF Control
    <2>2. 1 \in DOMAIN queue /\ Head(queue) = queue[1] /\ Head(queue) \in Body
      BY <1>2, <2>1
    <2> QED
      BY <1>1, <1>4, <2>2 DEF ProverInv
  <1> QED
    BY <1>3, <1>4 DEF InFlight

\* The class of a verdict is one of the three final classes.
LEMMA ClassifyType == \A v : Classify(v) \in FinalClasses
  BY DEF Classify, FinalClasses

\* The verifier says nothing but one of its statuses.
LEMMA TargetsType == Targets \subseteq PolicyFailures \cup BuildResults
  BY DEF Targets, SkippedTargets, PolicyFailures, BuildResults, VerifierInfra

-----------------------------------------------------------------------------
\* Every run starts without a row, a file and a class.
LEMMA RunInit == ScoreInit => RunInv
  <1> SUFFICES ASSUME ScoreInit PROVE RunInv
    OBVIOUS
  <1>1. attempts = <<>>
    BY DEF ScoreInit, Init, ProofInit
  <1> QED
    BY <1>1 DEF ScoreInit, RunInv, ScoreTypeOK, Handover, FinalClasses

\* Each step of a run keeps RunInv.
LEMMA RunStep == ASSUME IInv, RunInv, ScoreNext PROVE RunInv'
  <1> USE DEF RunInv, ScoreTypeOK
  <1>1. CASE SetupFails
    BY <1>1 DEF SetupFails, SetupFailures, Handover, Mode, vars, proofVars
  <1>2. CASE SetupPasses
    BY <1>2 DEF SetupPasses, Handover, Mode, vars, proofVars
  <1>3. CASE LoopStep
    BY <1>3 DEF LoopStep, scoreVars, Handover
  <1>4. CASE LoopReturns
    <2>1. status \in ReturnStatus \cup {"none"} /\ disk \in Body \cup {NoBody}
      BY DEF IInv, TypeOK, ProofTypeOK
    <2> QED
      BY <1>4, <2>1 DEF LoopReturns, Handover, Mode, vars, proofVars, loopVars
  <1>5. CASE HarnessFails
    BY <1>5, FileInFlight DEF HarnessFails, Handover, Mode, vars, proofVars
  <1>6. CASE RunLost
    BY <1>6 DEF RunLost, Handover, Mode, FinalClasses, vars, proofVars, loopVars
  <1>7. CASE Score
    <2>1. target' \in Targets /\ finalClass' = Classify(target')
      BY <1>7 DEF Score
    <2>2. Targets' = Targets /\ finalClass' = Classify(target)'
      BY <1>7, <2>1 DEF Score, Targets, SkippedTargets, Classify, Broken,
         Gradeable, vars, proofVars
    <2>3. ScoreTypeOK'
      BY <1>7, <2>1, TargetsType, ClassifyType DEF Score, FinalClasses
    <2> QED
      BY <1>7, <2>1, <2>2, <2>3 DEF Score, Handover, Mode, vars, proofVars, loopVars
  <1> QED
    BY <1>1, <1>2, <1>3, <1>4, <1>5, <1>6, <1>7 DEF ScoreNext

\* The invariant of a scored run, together with the loop's own.
THEOREM RunInvariance == ScoreSpec => [](IInv /\ WriterFailureHasNoProof /\ RunInv)
  <1>1. IInv /\ RunInv /\ [ScoreNext]_allVars => RunInv'
    <2>1. ASSUME RunInv, UNCHANGED allVars PROVE RunInv'
      BY <2>1 DEF RunInv, ScoreTypeOK, Handover, Mode, Targets, SkippedTargets,
         Classify, Broken, Gradeable, allVars, scoreVars, vars, proofVars, loopVars
    <2> QED
      BY <2>1, RunStep
  <1> QED
    BY <1>1, RunInit, ImplementsLoop, Invariance, WriterBlame, PTL DEF ScoreSpec

\* The run's state keeps its types: in particular a scored or lost run has one
\* of the three classes that run_strat50 knows, and no other run has one.
THEOREM ScoreTypeCorrect == ScoreSpec => []ScoreTypeOK
  BY RunInvariance, PTL DEF RunInv

\* Strict role separation reaches the score: whatever the driver does and
\* wherever the attempt breaks off, what is SOLVED is the prover's draft.
THEOREM StrictScoreIsProvers == ScoreSpec => []SolvedByProver
  <1>1. IInv /\ RunInv => SolvedByProver
    <2> SUFFICES ASSUME IInv, RunInv, Mode = "strict", Placeholder, finalClass = "SOLVED"
                 PROVE  \/ \E i \in DOMAIN attempts :
                             attempts[i].derived /\ attempts[i].body = file
                        \/ row = "none" /\ file = latest /\ file # NoBody
      BY DEF SolvedByProver, DriverWritesProofs
    <2>1. phase = "scored" /\ target \in Targets /\ target = "passed"
      BY DEF RunInv, Classify
    <2>2. file # NoBody
      BY <2>1 DEF Targets, SkippedTargets
    <2>3. file = disk \/ (row = "none" /\ file = latest)
      BY <2>2 DEF RunInv, Handover
    <2> QED
      BY <2>2, <2>3, FileOfLoop
  <1> QED
    BY <1>1, RunInvariance, PTL

\* A strict attempt that its writer ended is retryable and never a score.
THEOREM WriterFailureIsInfra == ScoreSpec => []WriterFailureNotScored
  <1>1. IInv /\ WriterFailureHasNoProof /\ RunInv => WriterFailureNotScored
    <2> SUFFICES ASSUME IInv, WriterFailureHasNoProof, RunInv, Placeholder,
                        row \in WriterFailures, phase = "scored"
                 PROVE  finalClass = "INFRA_INVALID"
      BY DEF WriterFailureNotScored, RunInv
    <2>1. row = status /\ file = disk
      BY DEF RunInv, Handover, SetupFailures, WriterFailures
    <2>2. attempts = <<>>
      BY <2>1 DEF WriterFailureHasNoProof, WriterFailures
    <2>3. file = NoBody
      BY <2>1, <2>2, FileOfLoop
    <2>4. target # "passed"
      BY <2>3 DEF RunInv, Targets, SkippedTargets
    <2>5. TerminalFailure(row) /\ ~Gradeable(row)
      BY <2>2 DEF TerminalFailure, FailureClass, InfraFailureKinds, Gradeable,
                  WriterFailures
    <2> QED
      BY <2>4, <2>5 DEF RunInv, Classify, Broken
  <1> QED
    BY <1>1, RunInvariance, PTL

\* A proof that Lean rejected is evidence: a later failure of the provider, the
\* transport or the tool protocol does not make the run retryable.
THEOREM GradedRunIsEvidence == ScoreSpec => []GradedProofIsEvidence
  <1>1. RunInv => GradedProofIsEvidence
    <2> SUFFICES ASSUME RunInv, phase = "scored", finalClass = "INFRA_INVALID",
                        SubmissionState(row) \in
                          {"check_proof_passed", "check_proof_failed"}
                 PROVE  target \in VerifierInfra \cup {"support_failed"}
      BY DEF GradedProofIsEvidence
    <2>1. \/ row = "lean_passed"
          \/ \E i \in DOMAIN attempts : attempts[i].status \in Checked
      BY DEF SubmissionState, Checked
    <2>2. ~Broken(row)
      BY <2>1 DEF Broken, Gradeable, Checked
    <2> QED
      BY <2>2 DEF RunInv, Classify
  <1> QED
    BY <1>1, RunInvariance, PTL

\* A strict score is the prover's, and no failure of its writer is scored: both
\* hold through every interruption of a run.
THEOREM StrictScoreHolds == ScoreSpec => []StrictScoreIsSound
  BY StrictScoreIsProvers, WriterFailureIsInfra, PTL DEF StrictScoreIsSound

\* Strict role separation holds through a whole scored run: the loop's
\* invariants reach it because the run implements the loop.
THEOREM StrictRolesHold == ScoreSpec => []StrictRolesKept
  BY ScoreTypeCorrect, ImplementsLoop, TypeCorrect, OnlyProverIsChecked,
     RepairsEditTheirFailure, WriterBlame, WriterCap, PTL DEF StrictRolesKept
=============================================================================
