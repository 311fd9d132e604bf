----------------------------- MODULE DurableRun -----------------------------
(***************************************************************************)
(* The durable ReAct runner (lipas/durable.py, entered through             *)
(* Agent.run_durable) of one Run, over the control store (ExecutionStore)  *)
(* and the Effect tape of its session.                                     *)
(*                                                                         *)
(* A worker claims the Run, loads its checkpoint and goes from phase to    *)
(* phase; each checkpoint, event and settlement is a transaction of its    *)
(* own, each model or tool call an Effect whose intent is recorded before  *)
(* and whose result is recorded after the call.  A worker may stop, stall  *)
(* beyond its lease, time out or be cancelled between any two steps, while *)
(* another claims the Run.  Two workers that admit one Effect at the same  *)
(* instant are left to EffectTape.                                         *)
(***************************************************************************)
EXTENDS Integers, Sequences, FiniteSets

CONSTANTS
  Task, Run, Workers,
  Operators, Evidence,    \* see ExecutionStore
  MaxIterations,          \* max_iterations
  MaxTools,               \* bound on the tool calls of one reply
  MaxParallel,            \* max_parallel_tools
  Policies,               \* slots the approval and the input policy stop at
  Deadlines, LocalCancel, \* are there deadlines, RunContext.cancel() calls
  NoTask, NoRun, NoError, NoCall,
  LeaseSeconds, MaxLag, MaxNow, MaxAttempt, MaxVersion,
  MaxFaults               \* bound on crashes, time-outs and control exceptions

ASSUME RunnerAssumption ==
  /\ {MaxIterations, MaxTools, MaxParallel, MaxFaults} \subseteq Nat
  /\ \A p \in Policies :
       p.approvals \cup p.inputs \subseteq (0 .. MaxIterations - 1) \X (1 .. MaxTools)
  /\ {Deadlines, LocalCancel} \subseteq BOOLEAN

VARIABLES
  policy,  \* the member of Policies the agent is configured with
  \* the variables of ExecutionStore
  now, taskState, taskOf, state, attempt, version, lease, expires,
  cancelRequested, error, checkpoints, intState, intRun, audit, reopening,
  writers,
  \* durable: the newest checkpoint, the Effect tape, the event log
  saved,   \* phase and payload of the newest checkpoint
  tape,    \* per effect: "none", "intent", or how it ended
  reply,   \* what the model's recorded reply asks for, per iteration
  shown,   \* the content in each tool:...:completed event
  events,  \* the run:... events in execution_agent_events
  \* in the workers' memory
  pc, token, mem, ver, calls, cause,
  \* history and bound
  live,    \* how often each effect was executed
  faults

storeVars == <<now, taskState, taskOf, state, attempt, version, lease, expires,
               cancelRequested, error, checkpoints, intState, intRun, audit,
               reopening, writers>>
tapeVars == <<tape, reply, live>>
memVars == <<pc, token, mem, ver, calls, cause>>
vars == <<storeVars, saved, tapeVars, shown, events, memVars, faults, policy>>

-----------------------------------------------------------------------------
(* The identities derived from (run, iteration, index): index 0 is the model. *)

Iterations == 0 .. MaxIterations - 1
Slots == Iterations \X (1 .. MaxTools)
Effects == Iterations \X (0 .. MaxTools)
Interrupts == {"approval", "input"} \X Slots

\* DurablePhaseTimeout and DurableRecoveryRequired set recovery_required.
UncertainErrors == {"phase timeout", "recovery required"}
OtherErrors == {"orphaned effect", "event conflict", "duplicate result",
                "unanswered", "agent termination"}

Store == INSTANCE ExecutionStore WITH Tasks <- {Task}, Runs <- {Run}

ASSUME StoreConstants == Store!StoreAssumption

Endings == {"ok", "rejected", "unrecordable"}
\* The model's reply: an end, a failure, or the number of tools it calls.
NoReply == <<"none", 0>>
Final == <<"final", 0>>
Error == <<"error", 0>>
Replies == {Final, Error} \cup {<<"tools", n>> : n \in 1 .. MaxTools}
NoText == <<"none", "same">>
Results == {"natural", "stopped", "cancelled"}
Phases == {"ready", "before_llm", "after_llm", "after_tool", "terminal"}

NoContent == [phase |-> "none", iter |-> 0, next |-> 1,
              wait |-> "none", result |-> "none"]
Ready(i) == [NoContent EXCEPT !.phase = "ready", !.iter = i]
Terminal(m, result) ==
  [NoContent EXCEPT !.phase = "terminal", !.iter = m.iter, !.result = result]

\* The stages of a worker's call of an effect.
Stages == {"none", "todo", "live", "answered", "recovered", "done"}
NoCalls == [k \in 0 .. MaxTools |-> "none"]

Init ==
  /\ policy \in Policies
  /\ Store!Init
  /\ saved = NoContent
  /\ tape = [e \in Effects |-> "none"]
  /\ reply = [i \in Iterations |-> NoReply]
  /\ shown = [e \in Slots |-> NoText]
  /\ events = {}
  /\ pc = [w \in Workers |-> "idle"]
  /\ token = [w \in Workers |-> 0]
  /\ mem = [w \in Workers |-> NoContent]
  /\ ver = [w \in Workers |-> 0]
  /\ calls = [w \in Workers |-> NoCalls]
  /\ cause = [w \in Workers |-> "none"]
  /\ live = [e \in Effects |-> 0]
  /\ faults = 0

Approvals == policy.approvals
Inputs == policy.inputs

Goto(w, p) == pc' = [pc EXCEPT ![w] = p]

\* A store call of w may be refused: its lease is not (or no longer) valid.
Unfenced(w) == \E s \in Store!Stamp : ~Store!HoldsLease(Run, token[w], s)

-----------------------------------------------------------------------------
(* Claiming, loading, saving *)

Claim(w) ==
  /\ pc[w] = "idle"
  /\ \E s \in Store!Stamp : Store!ClaimRun(Run, s)
  /\ token' = [token EXCEPT ![w] = attempt'[Run]]
  /\ calls' = [calls EXCEPT ![w] = NoCalls]
  /\ cause' = [cause EXCEPT ![w] = "none"]
  /\ Goto(w, "load")
  /\ UNCHANGED <<saved, tapeVars, shown, events, mem, ver, faults>>

\* save_checkpoint under the worker's token and version; it stays in memory.
Save(w, content) ==
  /\ \E s \in Store!Stamp : Store!SaveCheckpoint(Run, token[w], ver[w], s)
  /\ saved' = content
  /\ mem' = [mem EXCEPT ![w] = content]
  /\ ver' = [ver EXCEPT ![w] = ver[w] + 1]
  /\ Goto(w, "loop")
  /\ UNCHANGED <<tapeVars, shown, events, token, cause, faults>>

\* next_tool_index once a batch has returned
BatchEnd(w, batch) == mem[w].next + Cardinality(batch)

\* A resumed run restores its checkpoint; a new one saves its initial state.
Load(w) ==
  /\ pc[w] = "load"
  /\ \/ /\ version[Run] > 0
        /\ mem' = [mem EXCEPT ![w] = saved]
        /\ ver' = [ver EXCEPT ![w] = version[Run]]
        /\ Goto(w, "loop")
        /\ UNCHANGED <<storeVars, saved, tapeVars, shown, events, token, calls,
                       cause, faults>>
     \/ /\ version[Run] = 0
        /\ ver[w] = 0
        /\ Save(w, Ready(0))
        /\ UNCHANGED calls

\* The event that announces a result.
Announced(result) == IF result = "cancelled" THEN "run:cancelled" ELSE "run:completed"

\* The top of the loop reads the Run; a terminal checkpoint is announced
\* before it is settled.  _finish_controlled does not look again.
Look(w) ==
  LET cancel == cancelRequested[Run] /\ cause[w] # "deadline" IN
  /\ pc[w] = "loop"
  /\ IF mem[w].phase = "terminal"
     THEN IF cancel /\ mem[w].result # "cancelled"
          THEN Goto(w, "cancelling") /\ UNCHANGED events
          ELSE /\ events' = events \cup {Announced(mem[w].result)}
               /\ Goto(w, "settle")
     ELSE /\ Goto(w, IF cancel THEN "cancelling" ELSE "act")
          /\ UNCHANGED events
  /\ UNCHANGED <<storeVars, saved, tapeVars, shown, token, mem, ver, calls,
                 cause, faults>>

SaveCancelled(w) ==
  /\ pc[w] = "cancelling"
  /\ Save(w, Terminal(mem[w], "cancelled"))
  /\ UNCHANGED calls

-----------------------------------------------------------------------------
(* The phases *)

StartIteration(w) ==
  /\ pc[w] = "act"
  /\ mem[w].phase = "ready"
  /\ Save(w, IF mem[w].iter >= MaxIterations THEN Terminal(mem[w], "stopped")
             ELSE [mem[w] EXCEPT !.phase = "before_llm"])
  /\ UNCHANGED calls

CallModel(w) ==
  /\ pc[w] = "act"
  /\ mem[w].phase = "before_llm"
  /\ calls' = [calls EXCEPT ![w] = [NoCalls EXCEPT ![0] = "todo"]]
  /\ Goto(w, "model")
  /\ UNCHANGED <<storeVars, saved, tapeVars, shown, events, token, mem, ver,
                 cause, faults>>

ModelDone(w) ==
  /\ pc[w] = "model"
  /\ calls[w][0] = "done"
  /\ Save(w, [mem[w] EXCEPT !.phase = "after_llm"])
  /\ calls' = [calls EXCEPT ![w] = NoCalls]

AfterReply(w) == pc[w] = "act" /\ mem[w].phase \in {"after_llm", "after_tool"}
ReplyOf(w) == reply[mem[w].iter]
Tools(w) == ReplyOf(w)[2]

\* An error reply, a malformed one or a truncated one stops the agent; a
\* supervisor or an observer may stop it too.
Conclude(w) ==
  /\ AfterReply(w)
  /\ \/ ReplyOf(w) = Error /\ Save(w, Terminal(mem[w], "stopped"))
     \/ /\ ReplyOf(w) = Final
        /\ \E result \in {"natural", "stopped"} : Save(w, Terminal(mem[w], result))
  /\ UNCHANGED calls

ToolsPending(w) == AfterReply(w) /\ mem[w].next <= Tools(w)
Slot(w) == <<mem[w].iter, mem[w].next>>

\* All tools have answered: the next iteration, or an early stop.
Advance(w) ==
  /\ AfterReply(w)
  /\ Tools(w) > 0 /\ mem[w].next > Tools(w)
  /\ \/ Save(w, Ready(mem[w].iter + 1))
     \/ Save(w, Terminal(Ready(mem[w].iter + 1), "stopped"))
  /\ UNCHANGED calls

\* The interrupt a restored checkpoint refers to has been allowed.
Answered(w) == intState[<<mem[w].wait, Slot(w)>>] = "allowed"

\* The policies stop at this slot (an input policy before an approval policy).
Boundary(w, slot) ==
  IF slot = Slot(w) /\ mem[w].wait # "none" THEN FALSE
  ELSE slot \in Approvals \cup Inputs

\* suspend(): checkpoint, interrupt and waiting state in one transaction.
SuspendFor(w, kind) ==
  LET content == [mem[w] EXCEPT !.wait = kind] IN
  /\ ToolsPending(w)
  /\ Boundary(w, Slot(w))
  /\ kind = IF Slot(w) \in Inputs THEN "input" ELSE "approval"
  /\ \E s \in Store!Stamp :
       Store!Suspend(Run, token[w], ver[w], <<kind, Slot(w)>>, s)
  /\ saved' = content
  /\ Goto(w, "idle")
  /\ UNCHANGED <<tapeVars, shown, events, token, mem, ver, calls, cause, faults>>

\* The answer of an input interrupt is the result of the tool call.
TakeInput(w) ==
  /\ ToolsPending(w)
  /\ mem[w].wait = "input"
  /\ Answered(w)
  /\ Save(w, [mem[w] EXCEPT !.phase = "after_tool", !.next = @ + 1, !.wait = "none"])
  /\ UNCHANGED calls

NotAnswered(w) ==
  /\ ToolsPending(w)
  /\ mem[w].wait # "none"
  /\ ~Answered(w)
  /\ cause' = [cause EXCEPT ![w] = "unanswered"]
  /\ Goto(w, "failing")
  /\ UNCHANGED <<storeVars, saved, tapeVars, shown, events, token, mem, ver,
                 calls, faults>>

\* A restored approval admits its own tool only; otherwise the batch of
\* parallel calls ends before the next boundary.
Batch(w) ==
  IF mem[w].wait = "approval" THEN {mem[w].next}
  ELSE {k \in mem[w].next .. Tools(w) :
          /\ k < mem[w].next + MaxParallel
          /\ \A j \in mem[w].next .. k : ~Boundary(w, <<mem[w].iter, j>>)}

CallTools(w) ==
  /\ ToolsPending(w)
  /\ mem[w].wait = "none" \/ (mem[w].wait = "approval" /\ Answered(w))
  /\ ~Boundary(w, Slot(w))
  /\ calls' = [calls EXCEPT ![w] = [k \in 0 .. MaxTools |->
                  IF k \in Batch(w) THEN "todo" ELSE "none"]]
  /\ Goto(w, "tools")
  /\ UNCHANGED <<storeVars, saved, tapeVars, shown, events, token, mem, ver,
                 cause, faults>>

\* gather() returns when all calls of the batch have returned.
BatchDone(w, batch) == \A k \in batch : calls[w][k] = "done"

ToolsDone(w) ==
  LET batch == {k \in 1 .. MaxTools : calls[w][k] # "none"} IN
  /\ pc[w] = "tools"
  /\ BatchDone(w, batch)
  /\ Save(w, [mem[w] EXCEPT !.phase = "after_tool", !.wait = "none",
                            !.next = BatchEnd(w, batch)])
  /\ calls' = [calls EXCEPT ![w] = NoCalls]

-----------------------------------------------------------------------------
(* One call of an effect *)

Fail(w, e) ==
  /\ cause' = [cause EXCEPT ![w] = e]
  /\ Goto(w, "failing")

\* A call that raises ends the phase; the others of its batch go on alone.
Raise(w, k, e) ==
  /\ calls' = [calls EXCEPT ![w][k] = "none"]
  /\ IF pc[w] \in {"model", "tools"} THEN Fail(w, e) ELSE UNCHANGED <<pc, cause>>

\* A live call is made only for an effect the tape knows nothing of.
Admissible(e) == tape[e] = "none"

\* The harness records the intent and executes the call, or records that a
\* guard, the schema or the budget rejects it.
Execute(w, k) ==
  LET e == <<mem[w].iter, k>> IN
  /\ calls[w][k] = "todo"
  /\ Admissible(e)
  /\ \/ /\ tape' = [tape EXCEPT ![e] = "intent"]
        /\ live' = [live EXCEPT ![e] = @ + 1]
        /\ calls' = [calls EXCEPT ![w][k] = "live"]
        /\ UNCHANGED reply
     \/ /\ tape' = [tape EXCEPT ![e] = "rejected"]
        /\ reply' = IF k = 0 THEN [reply EXCEPT ![mem[w].iter] = Error] ELSE reply
        /\ calls' = [calls EXCEPT ![w][k] = "answered"]
        /\ UNCHANGED live
  /\ UNCHANGED <<storeVars, saved, shown, events, pc, token, mem, ver, cause, faults>>

\* A recorded outcome is returned without a call; an intent without one raises.
Recover(w, k) ==
  LET e == <<mem[w].iter, k>> IN
  /\ calls[w][k] = "todo"
  /\ ~Admissible(e)
  /\ IF tape[e] = "intent"
     THEN Raise(w, k, "orphaned effect")
     ELSE calls' = [calls EXCEPT ![w][k] = "recovered"] /\ UNCHANGED <<pc, cause>>
  /\ UNCHANGED <<storeVars, saved, tapeVars, shown, events, token, mem, ver, faults>>

\* The provider or tool answers.  An output that cannot be recorded ends the
\* effect with an error; one that was reconciled meanwhile cannot end again.
Answer(w, k) ==
  LET e == <<mem[w].iter, k>> IN
  /\ calls[w][k] = "live"
  /\ IF tape[e] = "intent"
     THEN /\ \E how \in {"ok"} \cup IF k = 0 THEN {} ELSE {"unrecordable"} :
               tape' = [tape EXCEPT ![e] = how]
          /\ IF k = 0
             THEN \E r \in Replies : reply' = [reply EXCEPT ![mem[w].iter] = r]
             ELSE UNCHANGED reply
          /\ calls' = [calls EXCEPT ![w][k] = "answered"]
          /\ UNCHANGED <<pc, cause>>
     ELSE Raise(w, k, "duplicate result") /\ UNCHANGED <<tape, reply>>
  /\ UNCHANGED <<storeVars, saved, live, shown, events, token, mem, ver, faults>>

\* The text of the tool result as the call returned it, and as
\* _recorded_result_content rebuilds it from the tape.
Content(how, stage) == <<how, IF how = "unrecordable" THEN stage ELSE "same">>

\* The tool:...:completed event: its identity admits one content only.
Completed(w, k) ==
  LET e == <<mem[w].iter, k>>
      text == Content(tape[e], calls[w][k])
  IN
  /\ calls[w][k] \in {"answered", "recovered"}
  /\ IF k = 0 \/ shown[e] \in {NoText, text}
     THEN /\ calls' = [calls EXCEPT ![w][k] = "done"]
          /\ shown' = IF k = 0 THEN shown ELSE [shown EXCEPT ![e] = text]
          /\ UNCHANGED <<pc, cause>>
     ELSE Raise(w, k, "event conflict") /\ UNCHANGED shown
  /\ UNCHANGED <<storeVars, saved, tapeVars, events, token, mem, ver, faults>>

-----------------------------------------------------------------------------
(* Time-outs, cancellation and deadlines during a phase *)

Fault == faults < MaxFaults /\ faults' = faults + 1

\* Cancelling the phase cancels its calls: they leave their intents behind.
PhaseTimeout(w) ==
  /\ pc[w] \in {"model", "tools"}
  /\ Fault
  /\ Fail(w, "phase timeout")
  /\ calls' = [calls EXCEPT ![w] = NoCalls]
  /\ UNCHANGED <<storeVars, saved, tapeVars, shown, events, token, mem, ver>>

\* RunContext.wait polls the token, the Run's cancel flag and the deadline.
Controlled(w, why) ==
  /\ pc[w] \in {"model", "tools"}
  /\ IF why = "deadline" THEN Deadlines ELSE cancelRequested[Run] \/ LocalCancel
  /\ Fault
  /\ cause' = [cause EXCEPT ![w] = why]
  /\ calls' = [calls EXCEPT ![w] = NoCalls]
  /\ Goto(w, "controlled")
  /\ UNCHANGED <<storeVars, saved, tapeVars, shown, events, token, mem, ver>>

\* Mutant: the outcome of the interrupted effect is not asked for.
Unsettled_Ignored == FALSE

\* _has_unsettled_effect
Unsettled == \E e \in Effects : tape[e] = "intent"

\* _finish_controlled: fail for recovery, or end at the newest checkpoint.
FinishControlled(w) ==
  /\ pc[w] = "controlled"
  /\ IF Unsettled
     THEN Fail(w, "recovery required") /\ UNCHANGED <<mem, ver>>
     ELSE /\ mem' = [mem EXCEPT ![w] = saved]
          /\ ver' = [ver EXCEPT ![w] = version[Run]]
          /\ Goto(w, IF cause[w] = "deadline" THEN "expiring"
                     ELSE IF cancelRequested[Run] THEN "cancelling" ELSE "requesting")
          /\ UNCHANGED cause
  /\ UNCHANGED <<storeVars, saved, tapeVars, shown, events, token, calls, faults>>

RequestOwnCancel(w) ==
  /\ pc[w] = "requesting"
  /\ Store!RequestCancel(Run)
  /\ Goto(w, "cancelling")
  /\ UNCHANGED <<saved, tapeVars, shown, events, token, mem, ver, calls, cause,
                 faults>>

SaveExpired(w) ==
  /\ pc[w] = "expiring"
  /\ Save(w, Terminal(mem[w], "stopped"))
  /\ UNCHANGED calls

-----------------------------------------------------------------------------
(* Settlement, failure and giving up *)

Leave(w) ==
  /\ Goto(w, "idle")
  /\ UNCHANGED <<saved, tapeVars, shown, token, mem, ver, cause>>

\* Mutant: the run is settled by what it is, not by its terminal result.
SettlesAs_AnyEnd(result) ==
  IF result = "cancelled" THEN "cancelled" ELSE "completed"

\* The transition _settle chooses for a result.
SettlesAs(result) ==
  CASE result = "natural" -> "completed"
    [] result = "cancelled" -> "cancelled"
    [] result = "stopped" -> "failed"

Settle(w) ==
  LET target == SettlesAs(mem[w].result) IN
  /\ pc[w] = "settle"
  /\ \E s \in Store!Stamp :
       \/ target = "completed" /\ Store!CompleteRun(Run, token[w], s)
       \/ target = "cancelled" /\ Store!FinishCancelled(Run, token[w], s)
       \/ target = "failed" /\ Store!FailRun(Run, token[w], "agent termination", s)
  /\ Leave(w)
  /\ UNCHANGED <<events, calls, faults>>

\* Mutant: a refused completion is tried again.
LateCancel_Retried(w) == FALSE

\* A cancellation request that came first refuses the completion; the runner
\* then ends the Run as cancelled.
LateCancel(w) == SettlesAs(mem[w].result) = "completed" /\ cancelRequested[Run]

SettleCancelled(w) ==
  /\ pc[w] = "settle"
  /\ LateCancel(w)
  /\ Goto(w, "cancelling")
  /\ UNCHANGED <<storeVars, saved, tapeVars, shown, events, token, mem, ver,
                 calls, cause, faults>>

\* _fail_run, then the run:failed event of run_to_completion.
FailRun(w) ==
  /\ pc[w] = "failing"
  /\ \E s \in Store!Stamp : Store!FailRun(Run, token[w], cause[w], s)
  /\ events' = events \cup {"run:failed"}
  /\ Leave(w)
  /\ UNCHANGED <<calls, faults>>

\* Another failure of the Run is in the outbox with other fields.
FailureConflicts(e) == ~Store!Agrees({Store!RunStateEvent(Run, "failed", e)})

\* Any store call of a worker may be refused once its lease is not valid (a
\* refused fail_run is suppressed), and so may a settlement or failure whose
\* audit event is already recorded with other fields; the runner then ends.
GiveUp(w) ==
  /\ pc[w] \notin {"idle", "model", "tools"}
  /\ \/ Unfenced(w)
     \/ pc[w] = "failing" /\ FailureConflicts(cause[w])
     \/ /\ pc[w] = "settle" /\ SettlesAs(mem[w].result) = "failed"
        /\ FailureConflicts("agent termination")
     \/ pc[w] = "requesting" /\ state[Run] \notin Store!Active
  /\ events' = events \cup {"run:failed"}
  /\ Leave(w)
  /\ UNCHANGED <<storeVars, calls, faults>>

\* The heartbeat is refused while the Run is not settled: the execution and
\* its calls are cancelled.
HeartbeatLost(w) ==
  /\ pc[w] # "idle"
  /\ Unfenced(w)
  /\ state[Run] \notin Store!Terminal
  /\ events' = events \cup {"run:failed"}
  /\ calls' = [calls EXCEPT ![w] = NoCalls]
  /\ Leave(w)
  /\ UNCHANGED <<storeVars, faults>>

Heartbeat(w) ==
  /\ pc[w] # "idle"
  /\ \E s \in Store!Stamp : Store!RenewLease(Run, token[w], s)
  /\ UNCHANGED <<saved, tapeVars, shown, events, memVars, faults>>

\* The process stops, or the runner's task is cancelled from outside (bound:
\* only while the clock can still reach the end of its lease).
Crash(w) ==
  /\ pc[w] # "idle"
  /\ expires[Run] <= MaxNow
  /\ Fault
  /\ calls' = [calls EXCEPT ![w] = NoCalls]
  /\ Leave(w)
  /\ UNCHANGED <<storeVars, events>>

-----------------------------------------------------------------------------
(* Everybody else *)

LeaveWorkers == UNCHANGED <<saved, tapeVars, shown, events, memVars, faults>>

\* Users, approvers and operators at the control store, and the clock.
Outside ==
  /\ \/ Store!Tick
     \/ Store!CreateTask(Task)
     \/ Store!CreateRun(Run, Task)
     \/ Store!RequestCancel(Run)
     \/ Store!CancelTask(Task)
     \/ \E i \in Interrupts, allow \in BOOLEAN : Store!ResolveInterrupt(i, allow)
     \/ \E o \in Operators : \/ Store!ReopenRead(o, Run)
                             \/ \E ev \in Evidence : Store!ReopenCommit(o, ev)
  /\ LeaveWorkers

\* reconcile_orphan: an operator records what the provider says became of an
\* effect of a failed run.
Reconcile(e) ==
  /\ Operators # {}
  /\ state[Run] = "failed"
  /\ tape[e] = "intent"
  /\ tape' = [tape EXCEPT ![e] = "ok"]
  /\ IF e[2] = 0
     THEN \E r \in Replies : reply' = [reply EXCEPT ![e[1]] = r]
     ELSE UNCHANGED reply
  /\ UNCHANGED <<storeVars, saved, live, shown, events, memVars, faults>>

\* What the runner of w does next by itself.
Proceed(w) ==
  \/ Load(w) \/ Look(w) \/ SaveCancelled(w)
  \/ StartIteration(w) \/ CallModel(w) \/ ModelDone(w)
  \/ Conclude(w) \/ Advance(w)
  \/ \E kind \in {"approval", "input"} : SuspendFor(w, kind)
  \/ TakeInput(w) \/ NotAnswered(w) \/ CallTools(w) \/ ToolsDone(w)
  \/ \E k \in 0 .. MaxTools : Execute(w, k) \/ Recover(w, k) \/ Completed(w, k)
  \/ FinishControlled(w) \/ RequestOwnCancel(w) \/ SaveExpired(w)
  \/ Settle(w) \/ SettleCancelled(w) \/ FailRun(w) \/ GiveUp(w) \/ HeartbeatLost(w)

AnswerSome(w) == \E k \in 0 .. MaxTools : Answer(w, k)

Next ==
  /\ \/ Outside
     \/ \E e \in Effects : Reconcile(e)
     \/ \E w \in Workers :
          \/ Claim(w) \/ Proceed(w) \/ AnswerSome(w)
          \/ PhaseTimeout(w)
          \/ \E why \in {"cancel", "deadline"} : Controlled(w, why)
          \/ Heartbeat(w) \/ Crash(w)
  /\ UNCHANGED policy

Spec == Init /\ [][Next]_vars

\* A dispatcher claims what is claimable, a running runner goes on, a phase
\* ends (by an answer, or by its time-out), and time passes.
FairSpec ==
  /\ Spec
  /\ WF_vars(Store!Tick /\ LeaveWorkers /\ UNCHANGED policy)
  /\ \A w \in Workers : /\ WF_vars(Claim(w) /\ UNCHANGED policy)
                        /\ WF_vars(Proceed(w) /\ UNCHANGED policy)
                        /\ WF_vars(AnswerSome(w) /\ UNCHANGED policy)

-----------------------------------------------------------------------------
(* Properties *)

\* Every variable of the runner has its type.
TypeOK ==
  /\ Store!TypeOK
  /\ saved.phase \in Phases \cup {"none"}
  /\ saved.iter \in 0 .. MaxIterations
  /\ saved.next \in 1 .. MaxTools + 1
  /\ saved.result \in Results \cup {"none"}
  /\ tape \in [Effects -> {"none", "intent"} \cup Endings]
  /\ reply \in [Iterations -> Replies \cup {NoReply}]
  /\ events \subseteq {"run:completed", "run:cancelled", "run:failed"}
  /\ calls \in [Workers -> [0 .. MaxTools -> Stages]]
  /\ token \in [Workers -> 0 .. MaxAttempt]
  /\ live \in [Effects -> Nat]
  /\ faults \in 0 .. MaxFaults

\* The module docstring: each external call has a stable effect identity, and
\* reopening a run reuses recorded effects.  Through crashes, lost leases,
\* time-outs, reopenings and stalled workers, no effect is executed twice.
EffectsAtMostOnce == \A e \in Effects : live[e] <= 1

\* A tool the approval policy stops at is never executed before a human has
\* allowed that very call, nor one the input policy stops at executed at all;
\* whoever restores the checkpoint, and however late.
ApprovedBeforeLive ==
  \A e \in Slots : live[e] > 0 =>
    /\ e \notin Inputs
    /\ e \in Approvals => intState[<<"approval", e>>] = "allowed"

\* What a checkpoint takes for done is on the tape, or was answered by a human:
\* a run never resumes past an effect whose outcome is not recorded.
CheckpointsBacked ==
  LET done(i) == IF i < saved.iter THEN reply[i][2]
                 ELSE IF saved.phase \in {"after_llm", "after_tool"} THEN saved.next - 1
                 ELSE 0
  IN
  \A i \in Iterations :
    i < saved.iter \/ (i = saved.iter /\ saved.phase \in {"after_llm", "after_tool"}) =>
      /\ tape[<<i, 0>>] \in Endings
      /\ done(i) \in 0 .. MaxTools
      /\ \A k \in 1 .. done(i) : \/ tape[<<i, k>>] \in Endings
                                 \/ intState[<<"input", <<i, k>>>>] = "allowed"

\* The result restored from a settled run's checkpoint is the one it was
\* settled with, however cancellation and completion raced, and who follows the
\* events of the run learns of it: a settlement by result is announced before.
TerminalAgrees ==
  /\ state[Run] = "completed" => saved = Terminal(saved, "natural")
  /\ state[Run] = "cancelled" /\ saved.phase = "terminal" => saved.result = "cancelled"
  /\ state[Run] = "failed" /\ error[Run] = "agent termination" =>
       saved = Terminal(saved, "stopped")
  /\ state[Run] = "completed" => "run:completed" \in events
  /\ state[Run] = "cancelled" /\ saved.phase = "terminal" => "run:cancelled" \in events

\* No effect happens that should not, none twice and none without its approval,
\* and what checkpoint, tape, events and control row say of a run agrees.
RunSound ==
  /\ TypeOK
  /\ EffectsAtMostOnce /\ ApprovedBeforeLive
  /\ CheckpointsBacked /\ TerminalAgrees

\* With one worker: a run that completed or stopped has no effect of unknown
\* outcome; one interrupted during an effect fails for recovery instead.
StoppedMeansSettled ==
  state[Run] = "completed" \/ error[Run] = "agent termination" =>
    \A e \in Effects : tape[e] # "intent"

\* Every run that becomes pending is settled, whatever crashes, loses its lease
\* or times out, cancelled or not, as long as faults end (no interrupts here;
\* a reopened run may fail to record its second failure, see ExecutionStore).
EventuallySettled ==
  state[Run] = "pending" /\ ~(\E n \in 1 .. MaxAttempt, ev \in Evidence :
                                <<<<"run reopened", Run, n>>, ev>> \in audit)
    ~> state[Run] \in Store!Terminal
=============================================================================
