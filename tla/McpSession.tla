------------------------------ MODULE McpSession ------------------------------
(***************************************************************************)
(* The client of lean-lsp-mcp that the tasks of a group share:             *)
(* LeanLspMcpSession of harness/lean_lsp_mcp_client.py, its server process *)
(* and the pipe between them.                                              *)
(*                                                                         *)
(* The client waits with select on the pipe but reads lines through a      *)
(* buffer: one read takes all that is in the pipe, and lines left in the   *)
(* buffer do not make the pipe readable.                                   *)
(***************************************************************************)
EXTENDS Naturals, Sequences

CONSTANTS
  Task,      \* the tasks of the group, each with its own file
  NoiseMax,  \* bound: messages of the server that are no answers
  DeathMax   \* bound: times the server exits by itself

ASSUME McpAssumption == {NoiseMax, DeathMax} \subseteq Nat

VARIABLES
  proc,      \* self.process: "none", "live" or "exited"
  changed,   \* _workspace_files_changed
  lastId,    \* _request_id
  asked,     \* the request the client waits for, or NoRequest
  pipe,      \* messages in the server's stdout
  buffer,    \* lines the client has read ahead
  computing, \* requests the server works on
  disk,      \* version of each task's file
  view,      \* version of it that the server has opened, 0 for none
  reply,     \* how the last call of the session ended, for its caller
  noise,     \* history: messages that were no answers
  deaths     \* history: exits of the server

mcpVars == <<proc, changed, lastId, asked, pipe, buffer, computing, disk, view,
             reply, noise, deaths>>

NoRequest == [id |-> 0, for |-> "none", task |-> "none"]

NoReply == [how |-> "none", id |-> 0, version |-> 0]

McpInit ==
  /\ proc = "none"
  /\ changed = FALSE
  /\ lastId = 0
  /\ asked = NoRequest
  /\ pipe = <<>>
  /\ buffer = <<>>
  /\ computing = {}
  /\ disk = [t \in Task |-> 1]
  /\ view = [t \in Task |-> 0]
  /\ reply = NoReply
  /\ noise = 0
  /\ deaths = 0

-----------------------------------------------------------------------------
(* The client.                                                             *)

\* _send of a request under the next id.
Send(for, task) ==
  LET request == [id |-> lastId + 1, for |-> for, task |-> task] IN
  /\ lastId' = lastId + 1
  /\ asked' = request
  /\ computing' = computing \cup {request}

\* The ladder of close: end of input, SIGTERM, SIGKILL.
Close == proc' = "none"

FlagAtLaunchMutant == FALSE

\* The flag outlives the launch: only a server that has started clears it.
FlagAtLaunch == changed

\* start: a new process with empty pipes, and the initialize request.  The task
\* is the one whose call waits for a restart, or "none".
Launch(task) ==
  LET request == [id |-> lastId + 1, for |-> "initialize", task |-> task] IN
  /\ proc' = "live"
  /\ lastId' = lastId + 1
  /\ asked' = request
  /\ computing' = {request}
  /\ pipe' = <<>>
  /\ buffer' = <<>>
  /\ changed' = FlagAtLaunch
  /\ view' = [t \in Task |-> 0]
  /\ UNCHANGED <<disk, reply, noise, deaths>>

Raise(how) == reply' = [NoReply EXCEPT !.how = how]

\* The process could not be started, or its Lean version is too old.
LaunchFails ==
  /\ proc' = "none"
  /\ \E how \in {"error", "transport"} : Raise(how)
  /\ UNCHANGED <<changed, lastId, asked, pipe, buffer, computing, disk, view,
                 noise, deaths>>

McpFree == asked = NoRequest /\ reply = NoReply

McpStart == McpFree /\ proc = "none" /\ (Launch("none") \/ LaunchFails)

\* The arguments are normalised after the restart; bad ones are an error.
CallTool(task) ==
  /\ McpFree
  /\ \/ /\ changed
        /\ Launch(task) \/ LaunchFails
     \/ /\ ~changed /\ proc = "live"
        /\ Send("call", task)
        /\ UNCHANGED <<proc, changed, pipe, buffer, disk, view, reply, noise, deaths>>
     \/ /\ ~changed
        /\ \/ proc # "live" /\ Raise(IF proc = "exited" THEN "transport" ELSE "not running")
           \/ Raise("error")
        /\ UNCHANGED <<proc, changed, lastId, asked, pipe, buffer, computing,
                       disk, view, noise, deaths>>

\* check_proof writes the file; the session is told after it has run.
ProofWritten(task) ==
  /\ disk' = [disk EXCEPT ![task] = @ + 1]
  /\ changed' = TRUE
  /\ UNCHANGED <<proc, lastId, asked, pipe, buffer, computing, view, reply,
                 noise, deaths>>

CloseSession ==
  /\ Close
  /\ asked' = NoRequest
  /\ UNCHANGED <<changed, lastId, pipe, buffer, computing, disk, view, reply,
                 noise, deaths>>

TakeReply ==
  /\ reply' = NoReply
  /\ UNCHANGED <<proc, changed, lastId, asked, pipe, buffer, computing, disk,
                 view, noise, deaths>>

\* A request raises: a session that was starting is closed.
RequestRaises(how) ==
  /\ asked # NoRequest
  /\ Raise(how)
  /\ asked' = NoRequest
  /\ proc' = IF asked.for = "call" THEN proc ELSE "none"

TimeOutMutant ==
  /\ pipe # <<>>
  /\ RequestRaises("transport")
  /\ UNCHANGED <<changed, lastId, pipe, buffer, computing, disk, view, noise, deaths>>

\* The deadline has passed, whatever there is to read.
TimeOut ==
  /\ RequestRaises("transport")
  /\ UNCHANGED <<changed, lastId, pipe, buffer, computing, disk, view, noise, deaths>>

SeesExit ==
  /\ proc = "exited"
  /\ RequestRaises("transport")
  /\ UNCHANGED <<changed, lastId, pipe, buffer, computing, disk, view, noise, deaths>>

Readable == asked # NoRequest /\ proc = "live" /\ pipe # <<>>

\* The lines after readline: those read ahead first, else all of the pipe.
Lines == IF buffer # <<>> THEN buffer ELSE pipe

ReadAhead ==
  /\ buffer' = Tail(Lines)
  /\ pipe' = IF buffer # <<>> THEN pipe ELSE <<>>

\* Notifications and late answers are skipped, reverse requests refused.
Foreign(line) == line.kind \notin {"answer", "failure"} \/ line.id # asked.id

SkipLine ==
  /\ Readable /\ Foreign(Head(Lines))
  /\ ReadAhead
  /\ UNCHANGED <<proc, changed, lastId, asked, computing, disk, view, reply,
                 noise, deaths>>

\* A JSON-RPC error, or a result that is not an object.
ReadFailure ==
  /\ Readable /\ ~Foreign(Head(Lines)) /\ Head(Lines).kind = "failure"
  /\ RequestRaises("transport")
  /\ ReadAhead
  /\ UNCHANGED <<changed, lastId, computing, disk, view, noise, deaths>>

Answers == Readable /\ ~Foreign(Head(Lines)) /\ Head(Lines).kind = "answer"

\* initialize is followed by tools/list.
ReadInitialized ==
  /\ Answers /\ asked.for = "initialize"
  /\ Send("list", asked.task)
  /\ ReadAhead
  /\ UNCHANGED <<proc, changed, disk, view, reply, noise, deaths>>

\* The tools are listed; a call that waited for the restart is sent.
ReadTools ==
  /\ Answers /\ asked.for = "list"
  /\ changed' = FALSE
  /\ ReadAhead
  /\ \/ /\ asked.task = "none"
        /\ asked' = NoRequest
        /\ reply' = [NoReply EXCEPT !.how = "started"]
        /\ UNCHANGED <<lastId, computing>>
     \/ /\ asked.task # "none"
        /\ Send("call", asked.task)
        /\ UNCHANGED reply
  /\ UNCHANGED <<proc, disk, view, noise, deaths>>

\* A required tool is not listed.
ToolsMissing ==
  /\ Answers /\ asked.for = "list"
  /\ RequestRaises("error")
  /\ ReadAhead
  /\ UNCHANGED <<changed, lastId, computing, disk, view, noise, deaths>>

ReadResult ==
  /\ Answers /\ asked.for = "call"
  /\ reply' = [how |-> "result", id |-> Head(Lines).id, version |-> Head(Lines).version]
  /\ asked' = NoRequest
  /\ ReadAhead
  /\ UNCHANGED <<proc, changed, lastId, computing, disk, view, noise, deaths>>

-----------------------------------------------------------------------------
(* The server (external), which answers in any order and at any time.      *)

Write(line) == pipe' = Append(pipe, line)

\* A file is opened by the first call that needs it and then kept.
ServerAnswers ==
  /\ proc = "live"
  /\ \E request \in computing, kind \in {"answer", "failure"} :
       LET opens == request.for = "call" /\ view[request.task] = 0
           seen == IF request.for # "call" THEN 0
                   ELSE IF opens THEN disk[request.task] ELSE view[request.task]
       IN /\ Write([kind |-> kind, id |-> request.id, version |-> seen])
          /\ view' = IF opens THEN [view EXCEPT ![request.task] = seen] ELSE view
          /\ computing' = computing \ {request}
  /\ UNCHANGED <<proc, changed, lastId, asked, buffer, disk, reply, noise, deaths>>

\* A notification, a reverse request or a line that is no message.
ServerNotifies ==
  /\ proc = "live" /\ noise < NoiseMax
  /\ Write([kind |-> "other", id |-> 0, version |-> 0])
  /\ noise' = noise + 1
  /\ UNCHANGED <<proc, changed, lastId, asked, buffer, computing, disk, view,
                 reply, deaths>>

ServerExits ==
  /\ proc = "live" /\ deaths < DeathMax
  /\ proc' = "exited"
  /\ deaths' = deaths + 1
  /\ UNCHANGED <<changed, lastId, asked, pipe, buffer, computing, disk, view,
                 reply, noise>>

ClientStep ==
  \/ TimeOut \/ SeesExit \/ SkipLine \/ ReadFailure \/ ReadInitialized
  \/ ReadTools \/ ToolsMissing \/ ReadResult

ServerStep == ServerAnswers \/ ServerNotifies \/ ServerExits

-----------------------------------------------------------------------------
(* Properties.                                                             *)

McpTypeOK ==
  /\ proc \in {"none", "live", "exited"}
  /\ changed \in BOOLEAN
  /\ lastId \in Nat
  /\ asked \in [id : Nat, for : {"none", "initialize", "list", "call"},
                task : Task \cup {"none"}]
  /\ computing \subseteq [id : 1 .. lastId, for : {"initialize", "list", "call"},
                          task : Task \cup {"none"}]
  /\ disk \in [Task -> Nat \ {0}]
  /\ view \in [Task -> Nat]
  /\ reply.how \in {"none", "started", "result", "error", "transport", "not running"}

\* The result of a tool call is the answer to that very call, also when an
\* earlier call timed out and its answer came late (the id check of _request).
AnswerIsOwn == reply.how = "result" => reply.id = lastId

\* A Lean tool never describes a file as it was before a proof was checked
\* (mark_workspace_files_changed, the restart of call_tool).
NoStaleFile ==
  reply.how = "result" => \A t \in Task : view[t] \in {0, disk[t]}

\* A session that was closed by a failed restart is started again before it is
\* used: no call finds it not running.
NeverUsedClosed == reply.how # "not running"

\* What the tools of the Lean server tell a task is the answer to its own call,
\* about the file as it is now, through timeouts, late answers and restarts
\* (LeanLspMcpSession).
AnswersAreCurrent == McpTypeOK /\ AnswerIsOwn /\ NoStaleFile /\ NeverUsedClosed
=============================================================================
