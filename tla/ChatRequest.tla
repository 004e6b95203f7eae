------------------------------ MODULE ChatRequest ------------------------------
(***************************************************************************)
(* One completion asked of a model: the retry loop of chat_completion      *)
(* (harness/transport_request.py) with its streaming fallback, and that of *)
(* responses_completion (harness/responses_transport.py).  The fallback is *)
(* a global of the process that all roles and endpoints share.             *)
(***************************************************************************)
EXTENDS Naturals

CONSTANTS
  MaxAttempts, \* REQUEST_RETRIES + 1
  Streaming,   \* DEFAULT_STREAMING_ENABLED
  Accepting    \* which endpoints accept streaming: the cases to consider

Role == {"driver", "prover"}

ASSUME ChatRequestAssumption ==
  /\ MaxAttempts \in Nat \ {0}
  /\ Streaming \in BOOLEAN
  /\ Accepting \subseteq [Role -> BOOLEAN]

VARIABLES
  accepts,    \* whether the endpoint of a role accepts streaming requests
  fallback,   \* whether _streaming_fallback_reason is set
  call,       \* the completion in progress
  rejections  \* history: streaming requests rejected since the last reset

chatVars == <<accepts, fallback, call, rejections>>

NoError == [kind |-> "none", transient |-> FALSE]

NoCall == [at |-> "idle", role |-> "driver", api |-> "chat", attempt |-> 0,
           exchanges |-> 0, error |-> NoError]

ChatInit ==
  /\ accepts \in Accepting
  /\ fallback = FALSE
  /\ call = NoCall
  /\ rejections = 0

\* The call starts its first attempt.
Begin(role, api) ==
  /\ call.at = "idle"
  /\ call' = [NoCall EXCEPT !.at = "send", !.role = role, !.api = api, !.attempt = 1]
  /\ UNCHANGED <<accepts, fallback, rejections>>

\* responses_completion without a key raises before it sends anything.
Keyless(role) ==
  /\ call.at = "idle"
  /\ call' = [NoCall EXCEPT !.at = "returned", !.role = role, !.api = "responses",
                           !.error = [kind |-> "provider_setup_error", transient |-> FALSE]]
  /\ UNCHANGED <<accepts, fallback, rejections>>

\* The caller has taken the response or handled the exception.
Returned == call.at = "returned"

Take == call' = NoCall /\ UNCHANGED <<accepts, fallback, rejections>>

\* generic_preflight starts with reset_transport_fallback if streaming is on;
\* the completion that follows is its text probe.
ResetFallback == IF Streaming THEN FALSE ELSE fallback

BeginAfterReset(role) ==
  /\ call.at = "idle"
  /\ call' = [NoCall EXCEPT !.at = "send", !.role = role, !.attempt = 1]
  /\ fallback' = ResetFallback
  /\ rejections' = 0
  /\ UNCHANGED accepts

StreamingAllowed == Streaming /\ ~fallback

\* What one HTTP exchange may come to.  "transient" is such an HTTP status,
\* "network" a timeout or a broken connection, "cut" an event stream without a
\* terminal event, "fatal" any other failure: another status, a body that no
\* except clause can handle, a response that did not complete.
Failures == {"transient", "network", "fatal"}

\* An event stream that ends early: the Responses wire asks for its terminal
\* event, the chat wire takes what has come for the whole response.
Decoded(ended) == IF ended \/ call.api = "chat" THEN "response" ELSE "cut"

\* _execute_chat_request and its counterpart.
Exchanged(stream) ==
  Failures \cup
  IF call.api = "chat" /\ stream /\ ~accepts[call.role] THEN {"rejected"}
  ELSE {Decoded(ended) : ended \in IF stream THEN BOOLEAN ELSE {TRUE}}

\* The exception for a failed exchange.
Error(result) ==
  CASE result = "network" -> [kind |-> "transport_error", transient |-> TRUE]
    [] result = "transient" -> [kind |-> "http_transient", transient |-> TRUE]
    [] result = "cut" -> [kind |-> "invalid_response", transient |-> TRUE]
    [] OTHER -> [kind |-> "fatal", transient |-> FALSE]

\* Whether the loop goes on after this error.
Retries(error) == error.transient /\ call.attempt < MaxAttempts

\* How an exchange leaves the call; what is "cut" is raised past the loop.
Settled(result) ==
  LET error == Error(result)
      done == [call EXCEPT !.exchanges = @ + 1]
  IN IF result = "response" THEN [done EXCEPT !.at = "returned", !.error = NoError]
     ELSE [done EXCEPT !.error = error,
             !.at = IF result # "cut" /\ Retries(error) THEN "sleep" ELSE "returned"]

RejectMutant ==
  /\ rejections' = rejections + 1
  /\ call' = [call EXCEPT !.at = "again", !.exchanges = @ + 1]
  /\ UNCHANGED <<accepts, fallback>>

\* disable_streaming_fallback; the request is repeated in the same attempt.
Reject ==
  /\ fallback' = TRUE
  /\ rejections' = rejections + 1
  /\ call' = [call EXCEPT !.at = "again", !.exchanges = @ + 1]
  /\ UNCHANGED accepts

Exchange ==
  /\ call.at = "send"
  /\ \E result \in Exchanged(IF call.api = "chat" THEN StreamingAllowed ELSE Streaming) :
       \/ result = "rejected" /\ Reject
       \/ /\ result # "rejected"
          /\ call' = Settled(result)
          /\ UNCHANGED <<accepts, fallback, rejections>>

\* The request is sent once more without streaming.
ExchangeAgain ==
  /\ call.at = "again"
  /\ \E result \in Exchanged(FALSE) : call' = Settled(result)
  /\ UNCHANGED <<accepts, fallback, rejections>>

\* time.sleep(retry_delay_seconds(...))
BackOff ==
  /\ call.at = "sleep"
  /\ call' = [call EXCEPT !.at = "send", !.attempt = @ + 1, !.error = NoError]
  /\ UNCHANGED <<accepts, fallback, rejections>>

ChatStep == Exchange \/ ExchangeAgain \/ BackOff

-----------------------------------------------------------------------------
(* Properties.                                                             *)

ChatTypeOK ==
  /\ accepts \in [Role -> BOOLEAN]
  /\ fallback \in BOOLEAN
  /\ call \in [at : {"idle", "send", "again", "sleep", "returned"}, role : Role,
               api : {"chat", "responses"}, attempt : 0 .. MaxAttempts, exchanges : Nat,
               error : [kind : {"none", "transport_error", "http_transient",
                                "invalid_response", "fatal", "provider_setup_error"},
                        transient : BOOLEAN]]
  /\ rejections \in Nat

\* However many completions of however many endpoints follow, one rejected
\* streaming request is the last one, until a preflight switches streaming on
\* again (disable_streaming_fallback, reset_transport_fallback).
RejectionLearned == rejections <= 1

\* A completion costs at most one request per attempt and the one that repeats
\* a rejected streaming request, whatever else fails in the repetition.
ExchangesBounded == call.exchanges <= MaxAttempts + 1

\* A chat completion gives up on a transient error only after its last attempt,
\* also when that error met the repetition of a rejected streaming request.
TransientIsRetried ==
  Returned /\ call.api = "chat" /\ call.error.transient => call.attempt = MaxAttempts

\* The retries of a completion, its repetition without streaming and the switch
\* that the whole process shares never multiply requests nor give up early
\* (chat_completion).
RequestsBounded ==
  ChatTypeOK /\ RejectionLearned /\ ExchangesBounded /\ TransientIsRetried
=============================================================================
