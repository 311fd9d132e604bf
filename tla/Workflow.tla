------------------------------ MODULE Workflow ------------------------------
(***************************************************************************)
(* Compiled workflows (lipas/workflow.py) executed as one durable run      *)
(* (LIPASRuntime.execute_workflow, lipas/runtime.py).  A plan of steps     *)
(* with dependencies is accepted by the compiler, put in a topological     *)
(* order and executed step by step; the outputs so far are the run's       *)
(* checkpoint.  Any number of processes may call execute_workflow for the  *)
(* same plan, whose digest names the task and the run.                     *)
(*                                                                         *)
(* The run's row is reduced to what the calls read; a claim's token is its *)
(* worker, for a worker's next claim comes after its call has ended.       *)
(***************************************************************************)
EXTENDS Naturals, FiniteSets, Sequences

CONSTANTS
  Workers,
  StepCount,   \* the steps 1 .. StepCount, in the order they are declared
  Values,      \* what a step can return
  Nobody,
  MaxFlowFaults  \* crashes and missed renewals, at most

ASSUME StepsAreCounted == StepCount \in Nat

VARIABLES
  depends,   \* the compiled plan
  planState, \* execution_runs.state
  owner,     \* whose claim the lease token is
  alive,     \* the lease has not expired
  cancel,    \* execution_runs.cancel_requested
  outputs,   \* the checkpoint: step -> output
  inputs,    \* what the recorded execution of a step was given (history)
  call,      \* the execute_workflow call of each worker
  flowFaults

run == <<planState, owner, alive, cancel>>
record == <<outputs, inputs>>
flowVars == <<depends, run, record, call, flowFaults>>

Steps == 1 .. StepCount
NoOutput == 0
ASSUME NoOutputIsNoValue == NoOutput \notin Values
PlanEnds == {"completed", "failed", "cancelled"}
StepsDone(outs) == {s \in Steps : outs[s] # NoOutput}
NoOutputs == [s \in Steps |-> NoOutput]

-----------------------------------------------------------------------------
(* The compiler *)

\* What can follow when the steps of done are, and that in declaration order.
Ready(deps, done) == {s \in Steps \ done : deps[s] \subseteq done}
Declared(S) ==
  CHOOSE f \in [1 .. Cardinality(S) -> S] :
    \A i, j \in 1 .. Cardinality(S) : i < j => f[i] < f[j]

\* _workflow_order: level by level, until nothing is ready.
Order(deps) ==
  LET rest[done \in SUBSET Steps] ==
        LET ready == Ready(deps, done)
        IN IF ready = {} THEN <<>>
           ELSE Declared(ready) \o rest[done \cup ready]
  IN rest[{}]

\* _validate_dependencies runs the same algorithm and asks that it visits every
\* step; that a dependency is a known step is the type of the plan.
Accepted(deps) ==
  /\ \A s \in Steps : s \notin deps[s]
  /\ Steps = {Order(deps)[k] : k \in DOMAIN Order(deps)}

-----------------------------------------------------------------------------
IdleCall == [pc |-> "idle", at |-> 1, outs |-> NoOutputs, given |-> NoOutputs,
         noticed |-> FALSE, heart |-> "beating", ended |-> "none"]

FlowInit ==
  /\ depends \in {deps \in [Steps -> SUBSET Steps] : Accepted(deps)}
  /\ planState = "none"
  /\ owner = Nobody
  /\ alive = FALSE
  /\ cancel = FALSE
  /\ outputs = NoOutputs
  /\ inputs = [s \in Steps |-> NoOutputs]
  /\ call = [w \in Workers |-> IdleCall]
  /\ flowFaults = 0

SetCall(w, c) == call' = [call EXCEPT ![w] = c]

Holds(w) == planState = "running" /\ owner = w /\ alive

SettleRun(s) ==
  /\ planState' = s
  /\ owner' = Nobody
  /\ alive' = FALSE
  /\ UNCHANGED cancel

-----------------------------------------------------------------------------
(* One call of execute_workflow *)

\* The deterministic task and run are found or created.
CreateRun(w) ==
  /\ call[w].pc = "idle"
  /\ planState = "none"
  /\ planState' = "pending"
  /\ UNCHANGED <<depends, owner, alive, cancel, record, call, flowFaults>>

\* Mutant: a running run is never claimed again.
PlanClaimable_Pending == planState = "pending" /\ ~cancel

PlanClaimable ==
  \/ planState = "pending" /\ ~cancel
  \/ planState = "running" /\ ~alive

\* What a checkpoint must satisfy to be resumed from.
Resumable(outs) ==
  \A s \in StepsDone(outs) : depends[s] \subseteq StepsDone(outs)

\* The lease is taken and the checkpoint is read under it: a checkpoint of
\* the run can only be changed by its owner.
ClaimPlan(w) ==
  /\ call[w].pc = "idle"
  /\ PlanClaimable
  /\ planState' = "running" /\ owner' = w /\ alive' = TRUE
  /\ SetCall(w, IF Resumable(outputs)
                THEN [IdleCall EXCEPT !.pc = "next", !.outs = outputs]
                ELSE IdleCall)
  /\ UNCHANGED <<depends, cancel, record, flowFaults>>

\* The outputs a step is given: those of the steps it depends on.
Given(w, s) ==
  [d \in Steps |-> IF d \in depends[s] THEN call[w].outs[d] ELSE NoOutput]

\* Mutant: a step that was recorded before the claim is executed again.
Replays_Never(w, s) == FALSE

Replays(w, s) == s \in StepsDone(call[w].outs)

\* One turn of the loop up to the step's await: a cancellation that the
\* heartbeat noticed ends the workflow, a recorded step is replayed without
\* leaving the event loop, any other is started.
NextStep(w) ==
  LET c == call[w]
      s == Order(depends)[c.at] IN
  /\ c.pc = "next"
  /\ \/ /\ c.at > Len(Order(depends))
        /\ SetCall(w, [c EXCEPT !.pc = "end", !.ended = "succeeded"])
     \/ /\ c.at <= Len(Order(depends))
        /\ c.noticed
        /\ SetCall(w, [c EXCEPT !.pc = "end", !.ended = "cancelled"])
     \/ /\ c.at <= Len(Order(depends))
        /\ ~c.noticed
        /\ SetCall(w, IF Replays(w, s) THEN [c EXCEPT !.at = @ + 1]
                      ELSE [c EXCEPT !.pc = "executing", !.given = Given(w, s)])
  /\ UNCHANGED <<depends, run, record, flowFaults>>

\* heartbeat_loop, while a step is awaited.  It returns when it has seen the
\* request to cancel: the lease is not renewed from then on.
Heartbeat(w) ==
  /\ call[w].pc = "executing"
  /\ call[w].heart = "beating"
  /\ \/ ~Holds(w) /\ SetCall(w, [call[w] EXCEPT !.heart = "lost"])
     \/ Holds(w) /\ cancel
        /\ SetCall(w, [call[w] EXCEPT !.heart = "stopped", !.noticed = TRUE])
  /\ UNCHANGED <<depends, run, record, flowFaults>>

\* save_checkpoint: the lease and the version, which is the number of steps.
Saves(w) ==
  /\ Holds(w)
  /\ Cardinality(StepsDone(outputs)) = Cardinality(StepsDone(call[w].outs))

\* The step returns and its output is saved.  A failed save is an exception
\* like one of the step: the step has failed and those after it are skipped.
StepReturns(w) ==
  LET c == call[w]
      s == Order(depends)[c.at] IN
  /\ c.pc = "executing"
  /\ IF Saves(w)
     THEN \E v \in Values :
            /\ outputs' = [c.outs EXCEPT ![s] = v]
            /\ inputs' = [inputs EXCEPT ![s] = c.given]
            /\ SetCall(w, [c EXCEPT !.pc = "next", !.at = @ + 1,
                                    !.outs = outputs', !.given = NoOutputs])
     ELSE /\ SetCall(w, [c EXCEPT !.pc = "end", !.ended = "failed"])
          /\ UNCHANGED record
  /\ UNCHANGED <<depends, run, flowFaults>>

\* The step raises: RunCancelled ends the workflow as cancelled.
StepRaises(w) ==
  /\ call[w].pc = "executing"
  /\ \E e \in {"failed", "cancelled"} :
       SetCall(w, [call[w] EXCEPT !.pc = "end", !.ended = e])
  /\ UNCHANGED <<depends, run, record, flowFaults>>

\* The heartbeat's error, or a settlement that the store refuses, is raised
\* to the caller and leaves the run as it is.
FinishCall(w) ==
  LET c == call[w]
      refused == ~Holds(w) \/ (c.ended = "succeeded" /\ cancel) IN
  /\ c.pc = "end"
  /\ c.ended # "cancelled"
  /\ IF c.heart = "lost" \/ refused THEN UNCHANGED run
     ELSE SettleRun(IF c.ended = "succeeded" THEN "completed" ELSE "failed")
  /\ SetCall(w, IdleCall)
  /\ UNCHANGED <<depends, record, flowFaults>>

\* request_cancel is not fenced ...
AskToCancel(w) ==
  /\ call[w].pc = "end"
  /\ call[w].ended = "cancelled"
  /\ \/ /\ call[w].heart = "lost"
        /\ SetCall(w, IdleCall)
        /\ UNCHANGED run
     \/ /\ call[w].heart # "lost"
        /\ SetCall(w, [call[w] EXCEPT !.pc = "cancelling"])
        /\ cancel' = (cancel \/ planState = "running")
        /\ UNCHANGED <<planState, owner, alive>>
  /\ UNCHANGED <<depends, record, flowFaults>>

\* ... and what finish_cancelled raises is swallowed.
FinishCancelled(w) ==
  /\ call[w].pc = "cancelling"
  /\ IF Holds(w) /\ cancel THEN SettleRun("cancelled") ELSE UNCHANGED run
  /\ SetCall(w, IdleCall)
  /\ UNCHANGED <<depends, record, flowFaults>>

-----------------------------------------------------------------------------
(* The others *)

RequestCancel ==
  /\ planState \in {"pending", "running"}
  /\ ~cancel
  /\ cancel' = TRUE
  /\ planState' = IF planState = "pending" THEN "cancelled" ELSE planState
  /\ UNCHANGED <<depends, owner, alive, record, call, flowFaults>>

\* A lease runs out when its worker is gone or no longer renews it; that it
\* runs out under a beating heart is a fault.
Renewed ==
  \E w \in Workers : /\ owner = w
                     /\ call[w].pc # "idle"
                     /\ call[w].heart = "beating"

ExpirePlan ==
  /\ planState = "running" /\ alive
  /\ \/ ~Renewed /\ UNCHANGED flowFaults
     \/ Renewed /\ flowFaults < MaxFlowFaults /\ flowFaults' = flowFaults + 1
  /\ alive' = FALSE
  /\ UNCHANGED <<depends, planState, owner, cancel, record, call>>

CrashCall(w) ==
  /\ call[w].pc # "idle"
  /\ flowFaults < MaxFlowFaults
  /\ flowFaults' = flowFaults + 1
  /\ SetCall(w, IdleCall)
  /\ UNCHANGED <<depends, run, record>>

Advances(w) == \/ NextStep(w) \/ StepReturns(w) \/ StepRaises(w)
               \/ FinishCall(w) \/ AskToCancel(w) \/ FinishCancelled(w)

FlowNext ==
  \/ \E w \in Workers : \/ CreateRun(w) \/ ClaimPlan(w) \/ Heartbeat(w)
                        \/ Advances(w) \/ CrashCall(w)
  \/ RequestCancel \/ ExpirePlan

FlowSpec == FlowInit /\ [][FlowNext]_flowVars

\* A call goes on, the plan is executed again when its lease has run out, and
\* a lease that nobody renews runs out.
FlowFairness ==
  /\ \A w \in Workers : WF_flowVars(Advances(w)) /\ WF_flowVars(ClaimPlan(w))
  /\ WF_flowVars(~Renewed /\ ExpirePlan)

FairFlowSpec == FlowSpec /\ FlowFairness

-----------------------------------------------------------------------------
FlowTypeOK ==
  /\ planState \in {"none", "pending", "running"} \cup PlanEnds
  /\ owner \in Workers \cup {Nobody}
  /\ alive \in BOOLEAN /\ cancel \in BOOLEAN
  /\ outputs \in [Steps -> Values \cup {NoOutput}]
  /\ \A w \in Workers : call[w].pc \in {"idle", "next", "executing", "end",
                                        "cancelling"}

\* What one worker recorded before it was lost and what the next ones added
\* fit together: each recorded step was given the recorded outputs of the
\* steps it depends on, so the checkpoint can always be resumed from, and a
\* completed run has all of its steps.
OutputsFitTogether ==
  /\ FlowTypeOK
  /\ \A s \in StepsDone(outputs) :
       /\ depends[s] \subseteq StepsDone(outputs)
       /\ \A d \in Steps :
            inputs[s][d] = IF d \in depends[s] THEN outputs[d] ELSE NoOutput
  /\ planState = "completed" => StepsDone(outputs) = Steps

\* While the lease of the worker that executes it lives, a step is not one
\* whose output is recorded: what a run has done is not done again, whoever
\* resumes it.
NoStepDoneTwice ==
  \A w \in Workers :
    Holds(w) /\ call[w].pc = "executing"
      => Order(depends)[call[w].at] \notin StepsDone(outputs)

\* A workflow can be resumed from its checkpoint and does nothing again.
ResumesSoundly == OutputsFitTogether /\ NoStepDoneTwice

\* A run that exists is settled in the end, unless somebody asks to cancel it.
WorkflowSettles == planState # "none" ~> (planState \in PlanEnds \/ cancel)
=============================================================================
