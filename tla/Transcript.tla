------------------------------ MODULE Transcript ------------------------------
(***************************************************************************)
(* What the driver model is shown: the messages of _attempt_task_fair in   *)
(* harness/runners/lean_tools.py, the order _sanitize_tool_message_order   *)
(* (harness/transport_request.py) gives them in a chat request, and the    *)
(* part of them that a continued Responses conversation is sent            *)
(* (harness/responses_transport.py).                                       *)
(*                                                                         *)
(* The budgets that end the loop are FairLoop's: here any call may be      *)
(* refused or executed, and the attempt may end after any of them.  Of a   *)
(* message the model keeps which calls it reports on, whether it carries   *)
(* the repetition warning, and the ids that pair calls with replies.       *)
(***************************************************************************)
EXTENDS Naturals, Sequences, SequencesExt, FiniteSetsExt

CONSTANTS
  Configs,     \* settings of the harness, see Config
  MaxRequests, \* bound: requests of the attempt; the last is not answered
  MaxCalls     \* bound: tool calls in one response

\* wire: DEFAULT_HARNESS_WIRE_API; native: native_tools; mode: what follows a
\* failed proof check; cap: DEFAULT_HARNESS_MAX_FAIR_MESSAGES (0 for never).
Config == [wire : {"chat", "responses"}, native : BOOLEAN,
           mode : {"plain", "diagnostic", "strict"}, cap : Nat]

ASSUME TranscriptAssumption ==
  /\ Configs \subseteq Config
  /\ {MaxRequests, MaxCalls} \subseteq Nat \ {0}

VARIABLES
  conf,      \* the settings of this process
  pc,        \* "top", "waiting" for a response, "calls", "done"
  requests,  \* request_index
  messages,  \* the transcript
  left,      \* the calls of the response that are still to be handled
  textual,   \* whether they were parsed from text (text_protocol)
  corrected, \* corrective_protocol_sent
  pending,   \* whether pending_repetition_warning is set
  state,     \* ResponsesState
  sent,      \* what the provider has of the conversation after the last request
  due        \* what the last response's only call owes to the next request

vars == <<conf, pc, requests, messages, left, textual, corrected, pending,
          state, sent, due>>

-----------------------------------------------------------------------------
(* Messages.  A call is known by its request and its place in it.          *)

NoId == <<0, 0>>

\* The id under which the result of a call without an id is recorded.
Fallback(r) == <<r, 0>>

\* "badargs" has arguments that are no JSON object, "nameless" no function or
\* no name, and "bare" is not an object at all.
Call(r, i, id, kind) ==
  [key |-> <<r, i>>, id |-> IF id THEN <<r, i>> ELSE NoId, kind |-> kind]

Message(role, calls, id, shows, warn, text) ==
  [role |-> role, calls |-> calls, id |-> id, shows |-> shows, warn |-> warn,
   text |-> text]

System == Message("system", <<>>, NoId, {}, FALSE, TRUE)

User(shows, warn) == Message("user", <<>>, NoId, shows, warn, TRUE)

Assistant(calls, text) == Message("assistant", calls, NoId, {}, FALSE, text)

Reply(id, shows) == Message("tool", <<>>, id, shows, FALSE, TRUE)

\* The summary quotes the last six messages.
Summary(ms) ==
  LET recent == {ms[i] : i \in {j \in DOMAIN ms : j > Len(ms) - 6}} IN
  User(UNION {m.shows : m \in recent}, \E m \in recent : m.warn)

TooLong(ms) == conf.cap > 0 /\ Len(ms) > conf.cap

\* _compact_fair_messages
Compacted(ms) == IF TooLong(ms) THEN <<System, Summary(ms)>> ELSE ms

-----------------------------------------------------------------------------
(* The chat request.                                                       *)

KnownIds(ms) ==
  {c.id : c \in {d \in UNION {ToSet(ms[i].calls) : i \in DOMAIN ms} : d.kind # "bare"}}

RepliesTo(ms, id) == {j \in DOMAIN ms : ms[j].role = "tool" /\ ms[j].id = id}

OrphansMutant(ms, i) ==
  {j \in DOMAIN ms : j > i /\ ms[j].role = "tool" /\ ms[j].id \notin KnownIds(ms)}

\* Replies under an unknown id between message i and the next assistant turn.
OrphansAfter(ms, i) ==
  {j \in DOMAIN ms :
     /\ j > i /\ ms[j].role = "tool" /\ ms[j].id \notin KnownIds(ms)
     /\ \A k \in i + 1 .. j : ms[k].role # "assistant"}

\* The reply put under call c of message i, taken from those not yet used.
Paired(ms, i, acc, c) ==
  LET own == RepliesTo(ms, c.id) \ acc.used
      orphans == OrphansAfter(ms, i) \ acc.used
      found == IF own # {} THEN own ELSE orphans
  IN CASE c.kind = "bare" -> acc
       [] c.kind # "bare" /\ found = {} ->
            [acc EXCEPT !.out = Append(@, Reply(c.id, {}))]
       [] OTHER -> [used |-> acc.used \cup {Min(found)},
                    out |-> Append(acc.out, ms[Min(found)])]

\* Message i with its replies; a reply itself is put where it is paired.
Emitted(ms, i, acc) ==
  LET calls == ms[i].calls
      paired[n \in 0 .. Len(calls)] ==
        IF n = 0 THEN [acc EXCEPT !.out = Append(@, ms[i])]
        ELSE Paired(ms, i, paired[n - 1], calls[n])
  IN IF ms[i].role = "tool" THEN acc ELSE paired[Len(calls)]

\* _sanitize_tool_message_order
Sanitize(ms) ==
  LET emitted[n \in 0 .. Len(ms)] ==
        IF n = 0 THEN [used |-> {}, out |-> <<>>] ELSE Emitted(ms, n, emitted[n - 1])
  IN emitted[Len(ms)].out

-----------------------------------------------------------------------------
(* The Responses request.                                                  *)

Fresh == [prev |-> 0, cursor |-> 0, prefix |-> <<>>]

\* The conversation is continued only when what it consumed is still there.
Current(st, ms) ==
  IF st.prev # 0 /\ Len(ms) >= st.cursor /\ SubSeq(ms, 1, st.cursor) = st.prefix
    THEN st ELSE Fresh

\* The members of s at the places of I, in their order.
Picked(s, I) ==
  LET upto[n \in 0 .. Len(s)] ==
        IF n = 0 THEN <<>> ELSE IF n \in I THEN Append(upto[n - 1], s[n]) ELSE upto[n - 1]
  IN upto[Len(s)]

ItemsMutant(st, ms) == Picked(ms, {i \in DOMAIN ms : i > st.cursor /\ ms[i].text})

\* The items of _inputs: assistant turns only start a conversation anew, and
\* then only their text.
Items(st, ms) ==
  Picked(ms, {i \in DOMAIN ms : i > st.cursor /\ ms[i].text
                                  /\ ~(st.prev # 0 /\ ms[i].role = "assistant")})

\* The state after a completed request.
Completed ==
  IF conf.wire = "responses"
    THEN [prev |-> requests, cursor |-> Len(messages), prefix |-> messages]
    ELSE state

-----------------------------------------------------------------------------
(* The loop.                                                               *)

NothingDue == [keys |-> {}, warn |-> FALSE]

Init ==
  /\ conf \in Configs
  /\ pc = "top"
  /\ requests = 0
  /\ messages = <<System, User({}, FALSE)>>
  /\ left = <<>>
  /\ textual = FALSE
  /\ corrected = FALSE
  /\ pending = FALSE
  /\ state = Fresh
  /\ sent = <<>>
  /\ due = NothingDue

Ask ==
  LET st == Current(state, messages) IN
  /\ pc = "top" /\ requests < MaxRequests
  /\ pc' = "waiting"
  /\ requests' = requests + 1
  /\ \/ /\ conf.wire = "chat"
        /\ sent' = Sanitize(messages)
        /\ state' = state
     \/ /\ conf.wire = "responses"
        /\ sent' = (IF st.prev # 0 THEN sent ELSE <<>>) \o Items(st, messages)
        /\ state' = st
  /\ UNCHANGED <<conf, messages, left, textual, corrected, pending, due>>

\* The attempt ends: request_failed, or any of the ends of FairLoop.
Stop ==
  /\ pc \in {"waiting", "calls"}
  /\ pc' = "done"
  /\ UNCHANGED <<conf, requests, messages, left, textual, corrected, pending,
                 state, sent, due>>

\* The turn is recorded; a provider that keeps the conversation has it too.
\* The last request of the bound is only sent.
Answered(turn) ==
  /\ pc = "waiting" /\ requests < MaxRequests
  /\ due' = NothingDue
  /\ sent' = IF conf.wire = "responses" THEN Append(sent, turn) ELSE sent

\* A response without a tool call; a repeated text raises the warning.
RespondText ==
  \E text, repeated \in BOOLEAN :
    LET turn == Assistant(<<>>, text)
        told == messages \o <<turn, User({}, FALSE)>>
    IN /\ repeated => text
       /\ Answered(turn)
       /\ pc' = "top"
       /\ messages' = Compacted(told)
       /\ state' = IF TooLong(told) THEN Fresh ELSE Completed
       /\ pending' = (pending \/ repeated)
       /\ UNCHANGED <<conf, requests, left, textual, corrected>>

\* The shapes of call a response may hold.  The Responses transport builds each
\* call itself: it checks the id, and passes a missing name on.
Kinds ==
  IF conf.wire = "responses" THEN {"ok", "badargs", "nameless"}
  ELSE {"ok", "badargs", "nameless", "bare"}

Calls(kinds, ids) ==
  UNION {{[i \in 1 .. n |-> Call(requests, i, id[i], kind[i])] :
            id \in [1 .. n -> ids], kind \in [1 .. n -> kinds]} : n \in 1 .. MaxCalls}

\* The calls _tool_calls_from_text finds in a text: they have a name and an id,
\* the arguments may be anything.
TextCalls == Calls({"ok", "badargs"}, {TRUE})

RespondCalls ==
  /\ conf.wire = "responses" => conf.native
  /\ \E calls \in Calls(Kinds, IF conf.wire = "chat" THEN BOOLEAN ELSE {TRUE}) :
       /\ Answered(Assistant(calls, FALSE))
       /\ messages' = Append(messages, Assistant(calls, FALSE))
       /\ left' = calls
  /\ pc' = "calls"
  /\ state' = Completed
  /\ textual' = FALSE
  /\ UNCHANGED <<conf, requests, corrected, pending>>

\* Calls written as JSON text are no calls of the assistant message.
RespondTextCalls ==
  \E calls \in TextCalls :
    /\ Answered(Assistant(<<>>, TRUE))
    /\ pc' = "calls"
    /\ messages' = Append(messages, Assistant(<<>>, TRUE))
    /\ state' = Completed
    /\ left' = calls
    /\ textual' = TRUE
    /\ UNCHANGED <<conf, requests, corrected, pending>>

Next1 == IF Len(left) = 1 THEN "top" ELSE "calls"

Handled == pc' = Next1 /\ left' = Tail(left)

\* Whether protocol_failure answers call c under its id.
ToolAnswers(c) == conf.native /\ ~textual /\ c.kind = "badargs" /\ c.id # NoId

\* protocol_failure: one correction, then the attempt ends (Stop).
Malformed ==
  LET c == Head(left) IN
  /\ pc = "calls" /\ c.kind # "ok" /\ ~corrected
  /\ corrected' = TRUE
  /\ messages' = Append(messages, IF ToolAnswers(c) THEN Reply(c.id, {c.key})
                                                    ELSE User({}, FALSE))
  /\ Handled
  /\ UNCHANGED <<conf, requests, textual, pending, state, sent, due>>

Warning(w) == IF w THEN <<User({}, TRUE)>> ELSE <<>>

DeliveredMutant(c, w) ==
  IF textual /\ ~conf.native THEN <<System, User({c.key}, FALSE)>>
  ELSE Append(messages, IF textual THEN User({c.key}, FALSE)
                        ELSE Reply(IF c.id = NoId THEN Fallback(c.key[1]) ELSE c.id, {c.key}))
         \o Warning(w)

\* The transcript after the result of call c and the pending warning w:
\* without native tools the result replaces it (set_compact_user_context).
Delivered(c, w) ==
  IF textual /\ ~conf.native THEN <<System, User({c.key}, w)>>
  ELSE Append(messages, IF textual THEN User({c.key}, FALSE)
                        ELSE Reply(IF c.id = NoId THEN Fallback(c.key[1]) ELSE c.id, {c.key}))
         \o Warning(w)

Replaced == textual /\ ~conf.native

\* A call of the response that was repeated once raises the warning.
Deliver(c, w) ==
  /\ pc = "calls" /\ c.kind = "ok"
  /\ \E repeated \in BOOLEAN : w = (pending \/ repeated)
  /\ pending' = FALSE
  /\ due' = IF Len(left) = 1 /\ c.key[2] = 1 THEN [keys |-> {c.key}, warn |-> w]
            ELSE NothingDue
  /\ Handled
  /\ UNCHANGED <<conf, requests, textual, corrected, sent>>

\* A budget refuses the call; nothing is compacted.
Refuse ==
  LET c == Head(left) IN
  \E w \in BOOLEAN :
    /\ Deliver(c, w)
    /\ messages' = Delivered(c, w)
    /\ state' = IF Replaced THEN Fresh ELSE state

\* A tool runs; a long transcript is compacted.
Execute ==
  LET c == Head(left) IN
  \E w \in BOOLEAN :
    /\ Deliver(c, w)
    /\ messages' = Compacted(Delivered(c, w))
    /\ state' = IF Replaced \/ TooLong(Delivered(c, w)) THEN Fresh ELSE state

\* A strict driver whose check failed is sent back to the prover.
StrictRepair ==
  LET c == Head(left) IN
  \E w \in BOOLEAN :
    LET told == Append(Delivered(c, w), User({}, FALSE)) IN
    /\ conf.mode = "strict"
    /\ Deliver(c, w)
    /\ messages' = Compacted(told)
    /\ state' = IF Replaced \/ TooLong(told) THEN Fresh ELSE state

\* The repair prompt carries the failed attempt and the warning; the files read
\* and the earlier attempts it also quotes are left out.
RepairPrompt(c, w) == <<System, User({c.key}, w)>>

\* A failed check replaces the transcript by the repair prompt.
DiagnosticRepair ==
  LET c == Head(left) IN
  \E w \in BOOLEAN :
    /\ conf.mode = "diagnostic"
    /\ Deliver(c, w)
    /\ messages' = RepairPrompt(c, w)
    /\ state' = Fresh

Next ==
  \/ Ask \/ Stop
  \/ RespondText \/ RespondCalls \/ RespondTextCalls
  \/ Malformed \/ Refuse \/ Execute \/ StrictRepair \/ DiagnosticRepair

Spec == Init /\ [][Next]_vars

-----------------------------------------------------------------------------
(* Properties.                                                             *)

\* The types of the transcript's state in harness/runners/lean_tools.py.
TypeOK ==
  /\ conf \in Configs
  /\ pc \in {"top", "waiting", "calls", "done"}
  /\ requests \in 0 .. MaxRequests
  /\ \A i \in DOMAIN messages :
       messages[i].role \in {"system", "user", "assistant", "tool"}
  /\ Len(left) <= MaxCalls
  /\ {textual, corrected, pending} \subseteq BOOLEAN
  /\ state.cursor = Len(state.prefix)

Chat == conf.wire = "chat" /\ pc = "waiting"

Responses == conf.wire = "responses" /\ pc = "waiting"

RealCalls(m) == Picked(m.calls, {k \in DOMAIN m.calls : m.calls[k].kind # "bare"})

\* In every chat request the tool messages are exactly the replies that follow
\* an assistant turn, one for each of its calls, however the loop interleaved
\* corrections, warnings and compactions (_sanitize_tool_message_order).
RepliesFollowCalls ==
  Chat =>
    \A i \in DOMAIN sent :
      /\ sent[i].role = "tool" =>
           \E k \in 1 .. i - 1 :
             /\ i - k <= Len(RealCalls(sent[k]))
             /\ \A j \in k + 1 .. i : sent[j].role = "tool"
      /\ \A j \in 1 .. Len(RealCalls(sent[i])) :
           i + j <= Len(sent) /\ sent[i + j].role = "tool"

\* The result shown under a call is one of the same turn, also when calls have
\* no id and an earlier call was never answered: no result is attached to the
\* wrong turn and so hidden from the next request.
ResultsStayInTurn ==
  Chat =>
    \A i \in DOMAIN sent :
      \A j \in 1 .. Len(RealCalls(sent[i])) :
        \A key \in sent[i + j].shows : key[1] = RealCalls(sent[i])[j].key[1]

\* The conversation a Responses provider holds is the transcript: nothing that
\* was compacted away is continued, nothing is sent twice and nothing skipped
\* (ResponsesState.reset, _inputs).
ProviderSeesTranscript ==
  Responses => sent = messages

\* The calls of the conversation that no tool result after them answers.
Unanswered ==
  UNION {{c \in ToSet(sent[i].calls) :
            ~\E j \in DOMAIN sent : j > i /\ sent[j].role = "tool" /\ sent[j].id = c.id}
         : i \in DOMAIN sent}

\* A continued Responses conversation answers every function call that has a
\* name before the next turn.  At most one call is never answered, a nameless
\* one: protocol_failure corrects it by a user message, and only once, against its
\* comment ("A native assistant tool call must be answered by the matching tool
\* result").
CallsAnswered ==
  Responses =>
    /\ \A c \in Unanswered : c.kind = "nameless" /\ corrected
    /\ \A c, d \in Unanswered : c = d

\* When a response held one call, its result, and the repetition warning it
\* earned, are in the next request whatever was compacted in between.
ResultReachesDriver ==
  pc = "waiting" =>
    /\ \A key \in due.keys : \E i \in DOMAIN sent : key \in sent[i].shows
    /\ due.warn => \E i \in DOMAIN sent : sent[i].warn

\* Whatever the loop appended, corrected, warned of or compacted: on the chat wire
\* every call of a request has its own reply after it, on the Responses wire every
\* call that has a name is answered and at most one without a name is not.
RequestsWellFormed == TypeOK /\ RepliesFollowCalls /\ ResultsStayInTurn /\ CallsAnswered
=============================================================================
