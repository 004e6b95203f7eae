------------------------------- MODULE RunGroup -------------------------------
(***************************************************************************)
(* One run of a group of tasks: run_group of harness/runners/lean_tools.py *)
(* with the provider preflight, the completions of ChatRequest and the     *)
(* Lean server of McpSession that its tasks share.  The attempt of a task  *)
(* is reduced to what reaches beyond the task: its completions, its calls  *)
(* of the server, the proofs it writes and how it ends.                    *)
(***************************************************************************)
EXTENDS ChatRequest, McpSession

CONSTANTS
  Configs,       \* the settings to consider, see Config
  ProbeAttempts, \* PROTOCOL_PROBE_ATTEMPTS
  StepMax        \* bound: completions and tool calls of one task

Config == [wire : {"chat", "responses"},          \* DEFAULT_WIRE_API
           keys : SUBSET {"api", "responses"},    \* the API keys that are set
           local : SUBSET {"chat", "responses"},  \* the base URLs that need no key
           prover : BOOLEAN,                      \* DRAFT_PROOF_ENABLED
           native : BOOLEAN,                      \* DEFAULT_NATIVE_TOOLS
           dry : BOOLEAN]                         \* dry_run

ASSUME RunGroupAssumption ==
  Configs \subseteq Config /\ ProbeAttempts \in Nat \ {0} /\ StepMax \in Nat

VARIABLES
  conf,      \* the settings
  at,        \* where run_group is
  warm,      \* how the warm builds ended
  probe,     \* the preflight of one role
  verdicts,  \* status of the preflight of each role
  protocol,  \* what the driver's preflight observed
  todo,      \* tasks without an attempt
  task,      \* the task under attempt
  steps,     \* its completions and tool calls
  rows,      \* the rows of the response
  status,    \* response["status"]
  lifecycle, \* mcp_lifecycle["status"]
  verifier   \* "none", "skipped" or "ran"

groupVars == <<conf, at, warm, probe, verdicts, protocol, todo, task, steps, rows,
               status, lifecycle, verifier>>

allVars == <<chatVars, mcpVars, groupVars>>

Elsewhere == UNCHANGED <<chatVars, mcpVars>>

NoProbe == [role |-> "driver", step |-> "none", tries |-> 0, tool |-> FALSE,
            json |-> FALSE, counted |-> FALSE]

GroupInit ==
  /\ ChatInit
  /\ McpInit
  /\ conf \in Configs
  /\ at = "setup"
  /\ warm = "none"
  /\ probe = NoProbe
  /\ verdicts = [r \in Role |-> "none"]
  /\ protocol = [tool |-> FALSE, json |-> FALSE]
  /\ todo = Task
  /\ task = "none"
  /\ steps = 0
  /\ rows = [t \in Task |-> "none"]
  /\ status = "none"
  /\ lifecycle = "none"
  /\ verifier = "none"

-----------------------------------------------------------------------------
(* Setup.                                                                  *)

\* credentials_available: any key, or a local endpoint at the URL of the wire.
Available == conf.keys # {} \/ conf.wire \in conf.local

\* What the branch for missing credentials asks for: the key of the wire, or a
\* local endpoint at the URL of the chat wire.
Usable ==
  \/ "api" \in conf.keys
  \/ conf.wire = "responses" /\ "responses" \in conf.keys
  \/ "chat" \in conf.local

WarmFailed == warm \in {"dependencies failed", "targets timed out"}

LifecycleMutant(w) == IF w \in {"passed", "targets timed out"} THEN "started" ELSE "not_attempted"

\* pre_mcp_reason: nothing was warmed without credentials_available.
Lifecycle(w) == IF w = "passed" THEN "started" ELSE "not_attempted"

\* _warm_target_modules: the first timeout ends it; a target that does not build
\* is left to its task.
TargetsWarmed(exits) ==
  IF \E t \in Task : exits[t] = "timed out" THEN "targets timed out" ELSE "passed"

\* The dependencies and, if they are warm, the target modules.
WarmUp ==
  /\ at = "setup"
  /\ at' = "warmed"
  /\ warm' \in IF conf.dry \/ ~Available THEN {"none"}
               ELSE {"dependencies failed"} \cup
                    {TargetsWarmed(e) : e \in [Task -> {"built", "failed", "timed out"}]}
  /\ lifecycle' = Lifecycle(warm')
  /\ UNCHANGED <<conf, probe, verdicts, protocol, todo, task, steps, rows, status, verifier>>
  /\ Elsewhere

AllRows(row) == [t \in Task |-> row]

SetupEnds ==
  /\ at = "warmed"
  /\ \/ conf.dry /\ status' = "dry_run" /\ UNCHANGED rows
     \/ ~conf.dry /\ ~Usable /\ status' = "missing_credentials" /\ UNCHANGED rows
     \/ /\ ~conf.dry /\ Usable /\ WarmFailed
        /\ status' = "completed_with_failures"
        /\ rows' = AllRows("setup_failed")
  /\ at' = "report"
  /\ UNCHANGED <<conf, warm, probe, verdicts, protocol, todo, task, steps, lifecycle, verifier>>
  /\ Elsewhere

StartSession ==
  /\ at = "warmed" /\ ~conf.dry /\ Usable /\ ~WarmFailed
  /\ McpStart
  /\ at' = "starting"
  /\ UNCHANGED <<conf, warm, probe, verdicts, protocol, todo, task, steps, rows,
                 status, lifecycle, verifier>>
  /\ UNCHANGED chatVars

FirstProbe(role) ==
  [NoProbe EXCEPT !.role = role,
     !.step = IF role = "driver" /\ conf.wire = "responses" THEN "first" ELSE "text"]

SessionStarted ==
  /\ at = "starting" /\ reply.how = "started"
  /\ TakeReply
  /\ at' = "preflight"
  /\ probe' = FirstProbe("driver")
  /\ UNCHANGED <<conf, warm, verdicts, protocol, todo, task, steps, rows, status,
                 lifecycle, verifier>>
  /\ UNCHANGED chatVars

SessionFailed ==
  /\ at = "starting" /\ reply.how \in {"error", "transport"}
  /\ TakeReply
  /\ at' = "closing"
  /\ status' = "completed_with_failures"
  /\ rows' = AllRows("setup_failed")
  /\ UNCHANGED <<conf, warm, probe, verdicts, protocol, todo, task, steps,
                 lifecycle, verifier>>
  /\ UNCHANGED chatVars

-----------------------------------------------------------------------------
(* The preflight of every role.                                            *)

\* The driver is asked on its wire.
AskDriver ==
  IF conf.wire = "responses" /\ conf.keys = {} THEN Keyless("driver")
  ELSE Begin("driver", conf.wire)

\* The Responses wire needs native tools.
ProbeRefused == probe.step = "first" /\ ~conf.native

AskProbe ==
  /\ at = "preflight" /\ ~ProbeRefused
  /\ CASE probe.step = "text" -> BeginAfterReset(probe.role)
       [] probe.step \in {"tools", "json"} -> Begin(probe.role, "chat")
       [] OTHER -> AskDriver
  /\ at' = "probing"
  /\ UNCHANGED <<conf, warm, probe, verdicts, protocol, todo, task, steps, rows,
                 status, lifecycle, verifier>>
  /\ UNCHANGED mcpVars

\* The verdict of a role; after the driver comes the prover if there is one.
Judge(done, passed) ==
  LET verdict == [verdicts EXCEPT ![done.role] = IF passed THEN "passed" ELSE "failed"]
      more == done.role = "driver" /\ conf.prover
      all == "failed" \notin {verdict[r] : r \in Role}
  IN /\ verdicts' = verdict
     /\ probe' = IF more THEN FirstProbe("prover") ELSE NoProbe
     /\ protocol' = IF done.role = "driver" THEN [tool |-> done.tool, json |-> done.json]
                    ELSE protocol
     /\ at' = IF more THEN "preflight" ELSE IF all THEN "tasks" ELSE "closing"
     /\ status' = IF more \/ all THEN status ELSE "preflight_failed"

RefuseProbe ==
  /\ at = "preflight" /\ ProbeRefused
  /\ Judge(probe, FALSE)
  /\ UNCHANGED <<conf, warm, todo, task, steps, rows, lifecycle, verifier>>
  /\ Elsewhere

Failed == call.error.kind # "none"

GoOn(next) ==
  /\ probe' = next
  /\ at' = "preflight"
  /\ UNCHANGED <<verdicts, protocol, status>>

\* responses_preflight: a call and its continuation, or the exception of one.
ResponsesProbed ==
  \E calls \in BOOLEAN, counted \in BOOLEAN :
    CASE Failed -> Judge(probe, FALSE)
      [] probe.step = "first" /\ ~Failed ->
           IF calls THEN GoOn([probe EXCEPT !.step = "second", !.tool = TRUE])
           ELSE Judge(probe, FALSE)
      [] OTHER -> Judge(probe, counted)

\* The role can be used with native tools or with checked JSON, and is metered.
Enough(next) == (next.tool \/ next.json) /\ next.counted

\* generic_preflight: the text probe must succeed; failed probes of the tools
\* and of the JSON protocol are tolerated.
GenericProbed ==
  \E observed \in BOOLEAN, metered \in BOOLEAN :
    LET seen == ~Failed /\ observed
        base == [probe EXCEPT !.counted = @ \/ (~Failed /\ metered)]
    IN CASE probe.step = "text" /\ Failed -> Judge(probe, FALSE)
         [] probe.step = "text" /\ ~Failed -> GoOn([base EXCEPT !.step = "tools"])
         [] probe.step = "tools" ->
              LET next == [base EXCEPT !.tool = seen, !.step = "json"] IN
              IF seen THEN Judge(next, Enough(next)) ELSE GoOn(next)
         [] OTHER ->
              LET next == [base EXCEPT !.json = seen, !.tries = @ + 1] IN
              IF seen \/ next.tries = ProbeAttempts THEN Judge(next, Enough(next))
              ELSE GoOn(next)

Probed ==
  /\ at = "probing" /\ Returned
  /\ Take
  /\ IF probe.step \in {"first", "second"} THEN ResponsesProbed ELSE GenericProbed
  /\ UNCHANGED <<conf, warm, todo, task, steps, rows, lifecycle, verifier>>
  /\ UNCHANGED mcpVars

\* _native_tools_for_preflight
NativeTools == conf.native /\ ~(~protocol.tool /\ protocol.json)

-----------------------------------------------------------------------------
(* The tasks, one after the other.                                         *)

TaskFrame == UNCHANGED <<conf, warm, probe, verdicts, protocol, lifecycle, verifier>>

\* The order of TASKS.json.
NextOf(tasks) == CHOOSE t \in tasks : TRUE

NextTask ==
  /\ at = "tasks"
  /\ todo # {}
  /\ task' = NextOf(todo)
  /\ todo' = todo \ {NextOf(todo)}
  /\ steps' = 0
  /\ at' = "turn"
  /\ TaskFrame /\ UNCHANGED <<rows, status>>
  /\ Elsewhere

EndTask(row) ==
  /\ rows' = [rows EXCEPT ![task] = row]
  /\ at' = "tasks"

Ask ==
  /\ at = "turn" /\ steps < StepMax
  /\ AskDriver
  /\ steps' = steps + 1
  /\ at' = "driving"
  /\ TaskFrame /\ UNCHANGED <<todo, task, rows, status>>
  /\ UNCHANGED mcpVars

Driven ==
  /\ at = "driving" /\ Returned
  /\ Take
  /\ \/ Failed /\ EndTask("request_failed")
     \/ ~Failed /\ at' = "acting" /\ UNCHANGED rows
  /\ TaskFrame /\ UNCHANGED <<todo, task, steps, status>>
  /\ UNCHANGED mcpVars

Acting == at = "acting" /\ steps < StepMax

\* A tool of the Lean server.
UseServer ==
  /\ Acting
  /\ CallTool(task)
  /\ steps' = steps + 1
  /\ at' = "looking"
  /\ TaskFrame /\ UNCHANGED <<todo, task, rows, status>>
  /\ UNCHANGED chatVars

\* Only a transport error ends the attempt.
Looked ==
  /\ at = "looking" /\ reply # NoReply
  /\ TakeReply
  /\ \/ reply.how = "transport" /\ EndTask("request_failed")
     \/ reply.how # "transport" /\ at' = "acting" /\ UNCHANGED rows
  /\ TaskFrame /\ UNCHANGED <<todo, task, steps, status>>
  /\ UNCHANGED chatVars

\* check_proof or try_tactics
Check ==
  /\ Acting
  /\ ProofWritten(task)
  /\ steps' = steps + 1
  /\ TaskFrame /\ UNCHANGED <<at, todo, task, rows, status>>
  /\ UNCHANGED chatVars

\* A proof or a repair is asked of the prover; its failure is a tool result.
AskProver ==
  /\ Acting /\ conf.prover
  /\ Begin("prover", "chat")
  /\ steps' = steps + 1
  /\ at' = "drafting"
  /\ TaskFrame /\ UNCHANGED <<todo, task, rows, status>>
  /\ UNCHANGED mcpVars

Drafted ==
  /\ at = "drafting" /\ Returned
  /\ Take
  /\ at' = "acting"
  /\ TaskFrame /\ UNCHANGED <<todo, task, steps, rows, status>>
  /\ UNCHANGED mcpVars

EndTurn ==
  /\ at = "acting"
  /\ at' = "turn"
  /\ TaskFrame /\ UNCHANGED <<todo, task, steps, rows, status>>
  /\ Elsewhere

\* A proof passed, a budget is spent, the model gave up.
TaskReturns ==
  /\ at \in {"turn", "acting"}
  /\ EndTask("returned")
  /\ TaskFrame /\ UNCHANGED <<todo, task, steps, status>>
  /\ Elsewhere

\* An exception leaves the attempt: the finished rows are kept.
HarnessFails ==
  /\ at \in {"turn", "acting"}
  /\ status' = "harness_error"
  /\ at' = "closing"
  /\ TaskFrame /\ UNCHANGED <<todo, task, steps, rows>>
  /\ Elsewhere

TasksDone ==
  /\ at = "tasks" /\ todo = {}
  /\ status' = "completed"
  /\ at' = "closing"
  /\ TaskFrame /\ UNCHANGED <<todo, task, steps, rows>>
  /\ Elsewhere

-----------------------------------------------------------------------------
(* The end of the run.                                                     *)

\* finally: mcp_session.close()
CloseGroup ==
  /\ at = "closing"
  /\ CloseSession
  /\ lifecycle' = IF status = "completed_with_failures" THEN lifecycle ELSE "completed"
  /\ at' = "report"
  /\ UNCHANGED <<conf, warm, probe, verdicts, protocol, todo, task, steps, rows,
                 status, verifier>>
  /\ UNCHANGED chatVars

ProviderSetupError == status \in {"missing_credentials", "preflight_failed"}

SkipsMutant == WarmFailed \/ ProviderSetupError \/ status = "harness_error"

\* artifact_setup_failure_class: without credentials the warm builds are ignored
\* only in the response.
Skips == WarmFailed \/ ProviderSetupError \/ status = "completed_with_failures"

\* A provider that could not be set up has a row for every task.
Filled ==
  IF ProviderSetupError /\ (\A t \in Task : rows[t] = "none")
  THEN AllRows("preflight_failed") ELSE rows

\* The artifacts, the verifier and run.json.
Report ==
  /\ at = "report"
  /\ rows' = Filled
  /\ verifier' = IF Skips THEN "skipped" ELSE "ran"
  /\ at' = "written"
  /\ UNCHANGED <<conf, warm, probe, verdicts, protocol, todo, task, steps, status,
                 lifecycle>>
  /\ Elsewhere

-----------------------------------------------------------------------------
(* scripts/check_run_artifacts.py, on the artifact of the run.             *)

\* The branch of run_group that makes a session and records its metadata and
\* the preflight of the server.
HasMetadata == ~conf.dry /\ Usable /\ ~WarmFailed

\* _has_model_or_tool_activity, or a preflight of the provider on record.
HasActivity == todo # Task \/ lastId > 0 \/ \E r \in Role : verdicts[r] # "none"

\* check_run, the rules for runs with a Lean server.
CheckRun ==
  IF lifecycle = "not_attempted" THEN ~HasMetadata /\ ~HasActivity ELSE HasMetadata

-----------------------------------------------------------------------------

Chat == ChatStep /\ UNCHANGED <<mcpVars, groupVars>>

Client == ClientStep /\ UNCHANGED <<chatVars, groupVars>>

Server == ServerStep /\ UNCHANGED <<chatVars, groupVars>>

Harness ==
  \/ WarmUp \/ SetupEnds \/ StartSession \/ SessionStarted \/ SessionFailed
  \/ AskProbe \/ RefuseProbe \/ Probed
  \/ NextTask \/ Ask \/ Driven \/ UseServer \/ Looked \/ Check \/ AskProver
  \/ Drafted \/ EndTurn \/ TaskReturns \/ HarnessFails \/ TasksDone
  \/ CloseGroup \/ Report \/ Chat \/ Client

GroupNext == Harness \/ Server

\* Every request of the harness has a timeout, so it always gets on by itself;
\* the server may stay silent.
GroupSpec == GroupInit /\ [][GroupNext]_allVars /\ WF_allVars(Harness)

-----------------------------------------------------------------------------
(* Properties.                                                             *)

GroupTypeOK ==
  /\ ChatTypeOK
  /\ McpTypeOK
  /\ conf \in Configs
  /\ at \in {"setup", "warmed", "starting", "preflight", "probing", "tasks", "turn",
             "driving", "acting", "looking", "drafting", "closing", "report", "written"}
  /\ warm \in {"none", "passed", "dependencies failed", "targets timed out"}
  /\ probe \in [role : Role, step : {"none", "first", "second", "text", "tools", "json"},
                tries : 0 .. ProbeAttempts, tool : BOOLEAN, json : BOOLEAN,
                counted : BOOLEAN]
  /\ verdicts \in [Role -> {"none", "passed", "failed"}]
  /\ protocol \in [tool : BOOLEAN, json : BOOLEAN]
  /\ todo \subseteq Task
  /\ task \in Task \cup {"none"}
  /\ steps \in 0 .. StepMax
  /\ rows \in [Task -> {"none", "setup_failed", "preflight_failed", "request_failed",
                        "returned"}]
  /\ status \in {"none", "dry_run", "missing_credentials", "preflight_failed",
                 "completed_with_failures", "completed", "harness_error"}
  /\ lifecycle \in {"none", "not_attempted", "started", "completed"}
  /\ verifier \in {"none", "skipped", "ran"}

\* The verifier is only skipped when no task had an attempt: no proof that a
\* model wrote is scored by its setup failure (artifact_setup_failure_class).
SkippedMeansUntouched == verifier = "skipped" => todo = Task

\* A run that says it completed, or that its setup failed, has a row for every
\* task of the group; only an exception of the harness leaves tasks without one.
EveryTaskAccounted ==
  at = "written" /\ status \notin {"harness_error", "dry_run"} =>
    \A t \in Task : rows[t] # "none"

\* The tasks are driven by the protocol that the driver's own preflight saw
\* working, whatever the prover's preflight saw, if native tools may be used.
ProtocolObserved ==
  at \in {"turn", "driving", "acting"} /\ conf.native =>
    IF NativeTools THEN protocol.tool ELSE protocol.json

\* Wherever a run of several tasks stops, its rows, its verifier and its protocol
\* tell what was done (run_group).
RunAccounted ==
  GroupTypeOK /\ SkippedMeansUntouched /\ EveryTaskAccounted /\ ProtocolObserved

\* The run ends and leaves no Lean server behind, also when the server dies,
\* falls silent or answers too late.
GroupEnds == <>[](at = "written" /\ proc = "none")

\* What a run writes passes the check of the artifacts, however far it came: a
\* run that claims to have stopped before the server did nothing, and every other
\* run shows its server.  Left out are the settings in which the two conditions on
\* the credentials disagree, over a Responses key on the chat wire or over a local
\* URL of one wire only: there the code writes artifacts that the check refuses,
\* against the comment on mcp_lifecycle ("only these four paths may finish before
\* an MCP launch is tried").
ArtifactAccepted == at = "written" /\ (conf.dry \/ (Available <=> Usable)) => CheckRun
=============================================================================
