----------------------------- MODULE ModelStream -----------------------------
(***************************************************************************)
(* How a provider's answer becomes one Reply: the adapters                 *)
(* (lipas/adapter/openai_compatible.py, openai.py, anthropic.py,           *)
(* ollama.py), complete() that drains their events into a sink             *)
(* (adapter/protocol.py), and call_with_retry that asks again              *)
(* (lipas/retry.py, adapter/errors.py).  The provider may stop at any      *)
(* chunk: cleanly, by an error of its own, or with its connection.         *)
(*                                                                         *)
(* Text and arguments are counted in the pieces they arrive in; pieces are *)
(* appended in order, and what is in them does not matter here.            *)
(***************************************************************************)
EXTENDS Naturals, FiniteSets

CONSTANTS
  MaxPieces,       \* pieces of text in an answer, and of arguments in a call
  StreamAttempts,  \* max_attempts of a transient error
  Missing          \* no call, no finish reason, no reply

ASSUME StreamBounds == MaxPieces \in Nat /\ StreamAttempts \in Nat \ {0}

VARIABLES
  adapter,   \* which adapter serves the call
  plan,      \* external: call -> the pieces of arguments the model means
  acc,       \* what has come of this attempt: its _ChatStreamAccumulator
  shown,     \* pieces of text and of arguments the sink has been given
  visible,   \* call_with_retry's visible_event of this attempt
  attempt,
  reply,     \* the reply of an attempt, Missing while it runs
  returned   \* call_with_retry has returned the reply

streamVars == <<adapter, plan, acc, shown, visible, attempt, reply, returned>>

Indexes == {0, 1}
Streaming == {"chat_stream", "responses"}
SingleShot == {"chat", "anthropic", "ollama"}

\* finish_reason, stop_reason or done_reason: known ones, the filter, others.
Finishes == {"stop", "length", "tool_calls", "content_filter", "other"}

NoCall == [name |-> FALSE, pieces |-> 0]
Fresh == [text |-> 0, calls |-> [i \in Indexes |-> Missing], finish |-> Missing,
          usage |-> 0]

StreamInit ==
  /\ adapter \in Streaming \cup SingleShot
  /\ plan \in [Indexes -> {Missing} \cup 0 .. MaxPieces]
  /\ plan[0] = Missing => plan[1] = Missing
  /\ acc = Fresh
  /\ shown = [text |-> 0, pieces |-> [i \in Indexes |-> 0]]
  /\ visible = FALSE
  /\ attempt = 1
  /\ reply = Missing
  /\ returned = FALSE

Answering == reply = Missing

-----------------------------------------------------------------------------
(* Replies *)

\* What error_detail says of a failure: an HTTP status, the connection, or the
\* provider (its own error, or an exception of the adapter).
Details == {"http_transient", "http_permanent", "network", "overloaded", "provider"}

ToolUse == [name : BOOLEAN, pieces : Nat]
ReplyType ==
  [stop : {"end_turn", "max_tokens", "tool_use", "error"}, text : Nat,
   calls : [Indexes -> {Missing} \cup ToolUse], usage : Nat,
   detail : Details \cup {Missing}]

ASSUME MissingIsNone ==
  /\ Missing \notin Nat \cup Finishes \cup Details
  /\ Missing \notin {"good", "nameless", "unparsable"}
  /\ Missing \notin ToolUse \cup ReplyType

\* classify and DEFAULT_POLICY: what is worth another attempt.
Transient(detail) == detail \in {"http_transient", "network", "overloaded"}

Success(stop, text, calls, usage) ==
  [stop |-> stop, text |-> text, calls |-> calls, usage |-> usage, detail |-> Missing]

Failure(detail, text, calls, usage) ==
  [stop |-> "error", text |-> text, calls |-> calls, usage |-> usage, detail |-> detail]

\* The calls an accumulator has heard of.
Heard(calls) == {i \in Indexes : calls[i] # Missing}

\* json.loads of the arguments: "" is {}, a part of an object is none.
Parses(calls, i) == calls[i].pieces = 0 \/ calls[i].pieces = plan[i]

\* Mutant: what was heard of a call is in the reply of a failed stream too.
Partial_WithCalls(detail) == Failure(detail, acc.text, acc.calls, acc.usage)

\* The terminal reply of a stream that failed: its partial text and its usage.
Partial(detail) == Failure(detail, acc.text, Fresh.calls, acc.usage)

\* _make_reply: the filter fails the call whatever there is; calls win over the
\* finish reason; a reason that is none, or absent, fails it.
MakeReply(text, calls, finish, usage) ==
  CASE finish = "content_filter" -> Failure("provider", text, calls, usage)
    [] finish # "content_filter" /\ (finish = "tool_calls" \/ Heard(calls) # {}) ->
         Success("tool_use", text, calls, usage)
    [] finish = "length" /\ Heard(calls) = {} -> Success("max_tokens", text, calls, usage)
    [] finish = "stop" /\ Heard(calls) = {} -> Success("end_turn", text, calls, usage)
    [] finish \in {"other", Missing} /\ Heard(calls) = {} -> Partial("provider")

\* complete() returns at Done; the events before it have been delivered.
Done(r) == reply' = r /\ UNCHANGED <<adapter, plan, acc, shown, visible, attempt, returned>>

-----------------------------------------------------------------------------
(* Streams *)

\* The chunk has been consumed, and its events delivered.
Consumed(newAcc, newShown) ==
  /\ acc' = newAcc
  /\ shown' = newShown
  /\ visible' = (visible \/ newShown # shown)
  /\ UNCHANGED <<adapter, plan, attempt, reply, returned>>

TextDelta ==
  /\ adapter \in Streaming /\ Answering
  /\ acc.text < MaxPieces
  /\ Consumed([acc EXCEPT !.text = @ + 1], [shown EXCEPT !.text = @ + 1])

\* The name of a call, or the next piece of its arguments.  A name that comes
\* again is not appended.
CallDelta(i) ==
  /\ adapter \in Streaming /\ Answering
  /\ plan[i] # Missing
  /\ LET heard == IF acc.calls[i] = Missing THEN NoCall ELSE acc.calls[i] IN
     \/ Consumed([acc EXCEPT !.calls[i] = [heard EXCEPT !.name = TRUE]], shown)
     \/ /\ heard.pieces < plan[i]
        /\ Consumed([acc EXCEPT !.calls[i] = [heard EXCEPT !.pieces = @ + 1]],
                    [shown EXCEPT !.pieces[i] = @ + 1])

\* A usage chunk replaces the usage heard before.
UsageChunk ==
  /\ adapter = "chat_stream" /\ Answering
  /\ acc.usage < 1
  /\ Consumed([acc EXCEPT !.usage = @ + 1], shown)

\* A finish reason; another one than before is an error.
FinishChunk ==
  /\ adapter = "chat_stream" /\ Answering
  /\ \E f \in Finishes :
       IF acc.finish \in {Missing, f}
       THEN Consumed([acc EXCEPT !.finish = f], shown)
       ELSE Done(Partial("provider"))

\* A chunk with text and a malformed tool call: consume raises after it has
\* appended the text, and its events are never delivered.
SpoiledChunk ==
  /\ adapter = "chat_stream" /\ Answering
  /\ acc.text < MaxPieces
  /\ acc' = [acc EXCEPT !.text = @ + 1]
  /\ reply' = Failure("provider", acc.text + 1, Fresh.calls, acc.usage)
  /\ UNCHANGED <<adapter, plan, shown, visible, attempt, returned>>

\* The stream ends, with or without [DONE]: finish() builds the reply from what
\* was accumulated, and raises if a call has no name or its arguments do not
\* parse.
EndOfChat ==
  /\ adapter = "chat_stream" /\ Answering
  /\ IF \E i \in Heard(acc.calls) : ~acc.calls[i].name \/ ~Parses(acc.calls, i)
     THEN Done(Partial("provider"))
     ELSE Done(MakeReply(acc.text, acc.calls, acc.finish, acc.usage))

\* Every call the model means, and those of a response cut at max_tokens.
Meant == [i \in Indexes |-> IF plan[i] = Missing THEN Missing
                            ELSE [name |-> TRUE, pieces |-> plan[i]]]
MeantSoFar == [i \in Indexes |-> IF acc.calls[i] = Missing THEN Missing
                                 ELSE [name |-> TRUE, pieces |-> acc.calls[i].pieces]]

\* A Responses stream ends with an event that carries the response, complete or
\* incomplete: the reply is built from that alone, and fails on arguments that
\* are cut ("" is none here).  Without such an event it is an empty error.
EndOfResponses ==
  /\ adapter = "responses" /\ Answering
  /\ LET stop(calls, s) == IF Heard(calls) # {} THEN "tool_use" ELSE s IN
     \/ Done(Success(stop(Meant, "end_turn"), acc.text, Meant, 1))
     \/ Done(IF \A i \in Heard(MeantSoFar) : MeantSoFar[i].pieces = plan[i]
             THEN Success(stop(MeantSoFar, "max_tokens"), acc.text, MeantSoFar, 1)
             ELSE Failure("provider", 0, Fresh.calls, 0))
     \/ Done(Failure("provider", 0, Fresh.calls, 0))

\* The provider reports an error in its stream, or the connection breaks; an
\* HTTP status comes before the first chunk.
StreamFails ==
  /\ adapter \in Streaming /\ Answering
  /\ \E d \in Details :
       /\ d \in {"http_transient", "http_permanent"} => acc = Fresh
       /\ Done(IF adapter = "chat_stream" THEN Partial(d)
               ELSE Failure(d, 0, Fresh.calls, 0))

-----------------------------------------------------------------------------
(* Single answers *)

\* What a body holds of a planned call: it is good, or has no name, or
\* arguments that are no object.
Bodies ==
  {b \in [Indexes -> {Missing, "good", "nameless", "unparsable"}] :
     \A i \in Indexes : b[i] = Missing <=> plan[i] = Missing}

GoodCalls(body) ==
  [i \in Indexes |-> IF body[i] = "good" THEN [name |-> TRUE, pieces |-> plan[i]]
                     ELSE Missing]

Malformed(body) ==
  \E i \in Indexes :
    body[i] = "unparsable" \/ (body[i] = "nameless" /\ adapter # "ollama")

\* Ollama leaves nameless calls out, but stops for tools all the same, and an
\* absent done_reason is a stop; an unknown one only matters without calls.
OllamaReply(text, body, finish) ==
  IF Heard(body) # {} THEN Success("tool_use", text, GoodCalls(body), 1)
  ELSE CASE finish \in {"stop", Missing} -> Success("end_turn", text, Fresh.calls, 1)
         [] finish = "length" -> Success("max_tokens", text, Fresh.calls, 1)
         [] OTHER -> Failure("provider", text, Fresh.calls, 1)

\* Anthropic keeps the blocks it has read when it does not know the reason.
AnthropicReply(text, body, finish) ==
  CASE finish = "stop" -> Success("end_turn", text, GoodCalls(body), 1)
    [] finish = "length" -> Success("max_tokens", text, GoodCalls(body), 1)
    [] finish = "tool_calls" -> Success("tool_use", text, GoodCalls(body), 1)
    [] OTHER -> Failure("provider", text, GoodCalls(body), 1)

WholeReply(text, body, finish) ==
  CASE Malformed(body) -> Failure("provider", 0, Fresh.calls, 0)
    [] ~Malformed(body) /\ adapter = "chat" /\ finish \in {"other", Missing} /\ Heard(body) = {} ->
         Failure("provider", 0, Fresh.calls, 0)
    [] ~Malformed(body) /\ adapter = "chat" /\ ~(finish \in {"other", Missing} /\ Heard(body) = {}) ->
         MakeReply(text, GoodCalls(body), finish, 1)
    [] ~Malformed(body) /\ adapter = "anthropic" -> AnthropicReply(text, body, finish)
    [] ~Malformed(body) /\ adapter = "ollama" -> OllamaReply(text, body, finish)

\* The one response of a call that does not stream, or its failure.
Answer ==
  /\ adapter \in SingleShot /\ Answering
  /\ \/ \E text \in 0 .. MaxPieces, b \in Bodies, f \in Finishes \cup {Missing} :
          Done(WholeReply(text, b, f))
     \/ \E d \in Details : Done(Failure(d, 0, Fresh.calls, 0))

-----------------------------------------------------------------------------
(* call_with_retry *)

\* A transient error is tried again, unless an event of the attempt was shown.
Retries ==
  /\ reply.stop = "error" /\ Transient(reply.detail)
  /\ ~visible
  /\ attempt < StreamAttempts

DecideRetry ==
  /\ ~Answering /\ ~returned
  /\ IF Retries
     THEN /\ attempt' = attempt + 1
          /\ acc' = Fresh /\ visible' = FALSE /\ reply' = Missing
          /\ UNCHANGED returned
     ELSE /\ returned' = TRUE
          /\ UNCHANGED <<attempt, acc, visible, reply>>
  /\ UNCHANGED <<adapter, plan, shown>>

-----------------------------------------------------------------------------
StreamNext ==
  \/ TextDelta \/ UsageChunk \/ FinishChunk \/ SpoiledChunk
  \/ \E i \in Indexes : CallDelta(i)
  \/ EndOfChat \/ EndOfResponses \/ StreamFails \/ Answer \/ DecideRetry

StreamSpec == StreamInit /\ [][StreamNext]_streamVars

-----------------------------------------------------------------------------
(* Properties *)

TypeOK ==
  /\ acc.text \in 0 .. MaxPieces /\ acc.usage \in 0 .. 1
  /\ shown.text \in Nat /\ shown.pieces \in [Indexes -> Nat]
  /\ attempt \in 1 .. StreamAttempts
  /\ ~Answering => /\ reply.stop \in {"end_turn", "max_tokens", "tool_use", "error"}
                 /\ reply.detail \in Details \cup {Missing}
                 /\ reply.stop = "error" <=> reply.detail # Missing

\* What a sink was shown is of one attempt, and of the reply: the text of a
\* success is what was shown, and a failed chat stream keeps it, with the text
\* of a spoiled chunk that was not shown.  No piece of arguments is shown twice.
ShownOnce ==
  /\ \A i \in Indexes : shown.pieces[i] <= IF plan[i] = Missing THEN 0 ELSE plan[i]
  /\ ~Answering /\ adapter \in Streaming =>
       /\ reply.stop # "error" => reply.text = shown.text
       /\ adapter = "chat_stream" => reply.text \in {shown.text, shown.text + 1}

\* A call that a reply asks for has its name and no part of its arguments: all
\* of them, or the none it was cut down to.  The replies of failed streams and
\* of malformed answers ask for nothing; what a filter or an unknown reason
\* failed may still hold its calls.
CallsAreWhole ==
  ~Answering =>
    \A i \in Heard(reply.calls) :
      /\ reply.calls[i].name
      /\ reply.calls[i].pieces \in {0, plan[i]}
      /\ reply.stop = "error" =>
           acc.finish = "content_filter" \/ adapter \in {"chat", "anthropic"}

\* A stream that was cut is no success, unless it was cut within a tool call.
CutIsNoSuccess ==
  ~Answering /\ adapter = "chat_stream" /\ reply.stop # "error" =>
    acc.finish # Missing \/ Heard(reply.calls) # {}

\* Whatever a provider sends and wherever it stops, one reply comes of it, that
\* holds what was shown, no part of a call, and no success of a stream that was
\* cut (adapter stream methods, _ChatStreamAccumulator, call_with_retry).
RepliesSound == TypeOK /\ ShownOnce /\ CallsAreWhole /\ CutIsNoSuccess
=============================================================================
