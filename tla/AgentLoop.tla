------------------------------ MODULE AgentLoop ------------------------------
(***************************************************************************)
(* One streamed run of an Agent (lipas/agent.py stream): the loop of       *)
(* lipas/react.py asks the model, executes the tools of its reply and shows *)
(* it their results; the run's context (lipas/context.py) cancels it or     *)
(* lets its deadline pass; lipas/events.py numbers what a consumer is told. *)
(*                                                                         *)
(* Every await is a step of its own.  A reply is the sequence of its tool  *)
(* calls: a "read" may run beside others, a "write" (any other tool, known *)
(* or not) may not, a "malformed" one is not a call.  Of the harnesses only *)
(* admission against a budget is kept: ModelCall and EffectTape have them. *)
(***************************************************************************)
EXTENDS Integers, Sequences, FiniteSets

CONSTANTS
  Replies,           \* what a model may answer
  MaxIterations, MaxParallel,
  ToolBudget,        \* what a budget admits, in tool calls
  Unset

ASSUME RepliesAreSequences == \A r \in Replies : r \in Seq({r[i] : i \in DOMAIN r})
ASSUME LoopLimits == {MaxIterations, MaxParallel, ToolBudget} \subseteq Nat

VARIABLES
  budgeted,   \* a hard budget, a guard or a replayer: admission reads the tape
  pc, iteration,
  messages,   \* AgentState.messages after the prompt
  modelReply, \* of this iteration
  nextCall,   \* tool_index
  executing,  \* the calls that the harness executes
  outcomes,   \* what the calls of this iteration returned so far
  callsSpent, \* claims of the budget
  cancelled, deadlinePassed, \* the RunContext
  finalResult,
  runEvents   \* what the emitter delivered of the run and its calls

loop == <<budgeted, pc, iteration, messages, modelReply, nextCall, executing, outcomes,
          callsSpent>>
context == <<cancelled, deadlinePassed>>
loopVars == <<loop, context, finalResult, runEvents>>

Event(type, turn, call, status) ==
  [type |-> type, turn |-> turn, call |-> call, status |-> status]

LoopInit ==
  /\ budgeted \in BOOLEAN
  /\ pc = "new" /\ iteration = 0 /\ messages = <<>> /\ modelReply = <<>>
  /\ nextCall = 1 /\ executing = {} /\ outcomes = [i \in {} |-> Unset] /\ callsSpent = 0
  /\ cancelled = FALSE /\ deadlinePassed = FALSE
  /\ finalResult = Unset
  /\ runEvents = <<Event("run_started", 0, 0, Unset)>>

IsCall(b) == b # "malformed"

\* _extract_tool_calls
ToolCalls(blocks) == SelectSeq(blocks, IsCall)
Calls == ToolCalls(modelReply)

Emit(type, call, status) ==
  runEvents' = Append(runEvents, Event(type, iteration, call, status))

Terminal == {"run_completed", "run_cancelled", "run_failed"}
Over == pc = "over"

-----------------------------------------------------------------------------
(* Ends *)

\* FinalResult, and the terminal event of the producer.
FinishRun(reason, turns, said) ==
  /\ pc' = "over"
  /\ finalResult' = [reason |-> reason, iteration |-> turns, messages |-> said]
  /\ runEvents' = Append(runEvents,
       Event(IF reason = "cancelled" THEN "run_cancelled" ELSE "run_completed",
             turns, 0, reason))

\* Whatever the loop awaits raises: run_failed.  Calls that run beside the one
\* that raised are left alone.
Raise == pc' = "over" /\ UNCHANGED finalResult /\ Emit("run_failed", 0, Unset)

\* Of the handle, or of a consumer that leaves the stream.
CancelLoop ==
  /\ ~Over /\ ~cancelled
  /\ cancelled' = TRUE
  /\ UNCHANGED <<loop, deadlinePassed, finalResult, runEvents>>

DeadlinePasses ==
  /\ ~Over /\ ~deadlinePassed
  /\ deadlinePassed' = TRUE
  /\ UNCHANGED <<loop, cancelled, finalResult, runEvents>>

\* RunContext.wait polls; the loop is cancelled with everything it awaits, and
\* the result is that of the state the run began with.
StopRun ==
  /\ pc \in {"new", "model", "act", "observe"} /\ (cancelled \/ deadlinePassed)
  /\ executing' = {}
  /\ FinishRun(IF cancelled THEN "cancelled" ELSE "error", 0, <<>>)
  /\ UNCHANGED <<budgeted, iteration, messages, modelReply, nextCall, outcomes, callsSpent,
                 context>>

-----------------------------------------------------------------------------
(* Reason *)

Reason ==
  /\ pc \in {"new", "reason"}
  /\ IF iteration >= MaxIterations
     THEN FinishRun("max_iterations", iteration, messages)
     ELSE pc' = "model" /\ UNCHANGED <<finalResult, runEvents>>
  /\ UNCHANGED <<budgeted, iteration, messages, modelReply, nextCall, executing, outcomes,
                 callsSpent, context>>

\* Without a call the reply is an answer, an error, or announces a call that
\* is malformed.  An answer is folded and counts as an iteration.  A supervisor
\* or an observer may put a result of its own in the place of this one.
ModelAnswers(r, says) ==
  /\ pc = "model" /\ ToolCalls(r) = <<>>
  /\ LET answered == says = "end_turn"
         turns == IF answered THEN iteration + 1 ELSE iteration
         said == IF answered THEN Append(messages, [role |-> "assistant", content |-> r])
                 ELSE messages IN
     /\ messages' = said /\ iteration' = turns
     /\ \E reason \in {IF answered THEN "natural_stop" ELSE "error", "recommended"} :
          FinishRun(reason, turns, said)
  /\ UNCHANGED <<budgeted, modelReply, nextCall, executing, outcomes, callsSpent, context>>

ModelCallsTools(r) ==
  /\ pc = "model" /\ ToolCalls(r) # <<>>
  /\ pc' = "act" /\ modelReply' = r /\ nextCall' = 1 /\ outcomes' = [i \in {} |-> Unset]
  /\ UNCHANGED <<budgeted, iteration, messages, executing, callsSpent, context, finalResult,
                 runEvents>>

ModelRaises ==
  /\ pc = "model" /\ Raise
  /\ UNCHANGED <<budgeted, iteration, messages, modelReply, nextCall, executing, outcomes,
                 callsSpent, context>>

-----------------------------------------------------------------------------
(* Act *)

\* Mutant: only the number of parallel calls is limited.
Batch_AnyEffect == {i \in nextCall .. Len(Calls) : i < nextCall + MaxParallel}

\* _parallel_tool_count: the reads that follow each other from here, one call
\* at least.
Batch ==
  {nextCall} \cup
  {i \in nextCall .. Len(Calls) : /\ ~budgeted /\ i < nextCall + MaxParallel
                              /\ \A j \in nextCall .. i : Calls[j] = "read"}

NoneRunning == executing = {} /\ nextCall <= Len(Calls)

WithOutcome(i, status) ==
  [j \in DOMAIN outcomes \cup {i} |-> IF j = i THEN status ELSE outcomes[j]]

\* The calls of a batch begin in their order.
StartBatch ==
  /\ pc = "act" /\ NoneRunning
  /\ ~budgeted \/ callsSpent < ToolBudget
  /\ executing' = Batch
  /\ runEvents' = runEvents \o [k \in 1 .. Cardinality(Batch) |->
                              Event("tool_started", iteration, nextCall + k - 1, Unset)]
  /\ UNCHANGED <<budgeted, pc, iteration, messages, modelReply, nextCall, outcomes,
                 callsSpent, context, finalResult>>

\* The budget is used up: the result of the call is an error.
RejectCall ==
  /\ pc = "act" /\ NoneRunning
  /\ budgeted /\ callsSpent >= ToolBudget
  /\ outcomes' = WithOutcome(nextCall, "rejected") /\ nextCall' = nextCall + 1
  /\ runEvents' = runEvents \o <<Event("tool_started", iteration, nextCall, Unset),
                                Event("tool_completed", iteration, nextCall, "rejected")>>
  /\ UNCHANGED <<budgeted, pc, iteration, messages, modelReply, executing, callsSpent, context,
                 finalResult>>

CallReturns(i, status) ==
  /\ i \in executing
  /\ executing' = executing \ {i}
  /\ Emit("tool_completed", i, status)
  /\ outcomes' = WithOutcome(i, status)
  /\ callsSpent' = IF budgeted THEN callsSpent + 1 ELSE callsSpent
  /\ nextCall' = IF executing' = {} THEN nextCall + Cardinality(Batch) ELSE nextCall
  /\ UNCHANGED <<budgeted, pc, iteration, messages, modelReply, context, finalResult>>

\* An effect that must be reconciled, a tape that cannot be written.
CallRaises(i) ==
  /\ i \in executing
  /\ executing' = executing \ {i}
  /\ IF Over THEN UNCHANGED <<pc, finalResult, runEvents>> ELSE Raise
  /\ UNCHANGED <<budgeted, iteration, messages, modelReply, nextCall, outcomes, callsSpent,
                 context>>

-----------------------------------------------------------------------------
(* Observe *)

\* _advance_after_tools; a recommendation of the supervisor comes before the
\* observers.
Advance ==
  /\ pc = "act" /\ nextCall > Len(Calls)
  /\ iteration' = iteration + 1
  /\ messages' = messages \o
       <<[role |-> "assistant", content |-> modelReply],
         [role |-> "user", content |-> [i \in 1 .. Len(Calls) |-> outcomes[i]]]>>
  /\ \/ pc' = "observe" /\ UNCHANGED <<finalResult, runEvents>>
     \/ FinishRun("recommended", iteration', messages')
  /\ UNCHANGED <<budgeted, modelReply, nextCall, executing, outcomes, callsSpent, context>>

Observe ==
  /\ pc = "observe"
  /\ \/ pc' = "reason" /\ UNCHANGED <<finalResult, runEvents>>
     \/ FinishRun("recommended", iteration, messages)
     \/ Raise
  /\ UNCHANGED <<budgeted, iteration, messages, modelReply, nextCall, executing, outcomes,
                 callsSpent, context>>

LoopNext ==
  \/ CancelLoop \/ DeadlinePasses \/ StopRun
  \/ Reason \/ ModelRaises
  \/ \E r \in Replies :
       \/ ModelCallsTools(r)
       \/ \E says \in {"end_turn", "error", "tool_use"} : ModelAnswers(r, says)
  \/ StartBatch \/ RejectCall
  \/ \E i \in executing :
       \/ CallRaises(i)
       \/ \E status \in {"ok", "error"} : CallReturns(i, status)
  \/ Advance \/ Observe

LoopSpec == LoopInit /\ [][LoopNext]_loopVars

-----------------------------------------------------------------------------
(* Properties *)

\* A call that may change something runs by itself, and none is still running
\* when the run is over, however it ended.
WritesRunAlone ==
  \A i \in executing : Calls[i] # "read" => executing = {i} /\ ~Over

BudgetKept == budgeted => callsSpent + Cardinality(executing) <= ToolBudget

Completed(turn, call, status) ==
  \E e \in 1 .. Len(runEvents) :
    runEvents[e] = Event("tool_completed", turn, call, status)

\* The model is told for each of its calls, in their order, what the consumer
\* was told of it.
TranscriptTrue ==
  \A m \in 1 .. Len(messages) :
    messages[m].role = "user" =>
      LET asked == ToolCalls(messages[m - 1].content)
          told == messages[m].content IN
      /\ Len(told) = Len(asked)
      /\ \A i \in 1 .. Len(told) : Completed((m \div 2) - 1, i, told[i])

\* The consumer reads up to the first terminal event.  There is one, a call is
\* started before it is completed, and a run that was not interrupted shows
\* the completion of each call it started.
StreamTrue ==
  LET ends == {e \in 1 .. Len(runEvents) : runEvents[e].type \in Terminal} IN
  /\ Over <=> ends # {}
  /\ \A e, f \in ends : e = f
  /\ \A e \in 1 .. Len(runEvents) : runEvents[e].type = "tool_completed" =>
       \E s \in 1 .. e :
         runEvents[s] = Event("tool_started", runEvents[e].turn, runEvents[e].call, Unset)
  /\ (Over /\ finalResult # Unset /\ ~cancelled /\ ~deadlinePassed) =>
       \A s \in 1 .. Len(runEvents) : runEvents[s].type = "tool_started" =>
         \E e \in s .. Len(runEvents) : /\ runEvents[e].type = "tool_completed"
                                        /\ runEvents[e].turn = runEvents[s].turn
                                        /\ runEvents[e].call = runEvents[s].call

\* Whatever the model asks for, and whatever is cancelled, raises or runs in
\* parallel (react.py _run_loop, _parallel_tool_count; agent.py stream).
LoopSound == WritesRunAlone /\ BudgetKept /\ TranscriptTrue /\ StreamTrue
=============================================================================
