------------------------------ MODULE MCQueues ------------------------------
(***************************************************************************)
(* What must get done in the end: the mirroring of the audit outbox        *)
(* (AuditMirror), the runs that dispatchers pick up (Dispatcher) and the    *)
(* steps of a workflow (Workflow), each under the fairness its own module   *)
(* states.  A behaviour is about the one that is `checked`.                *)
(***************************************************************************)
EXTENDS AuditMirror, TLC

CONSTANTS
  e1, e2, runA, runB,   \* audit events and the runs they belong to
  h1, h2, Nobody        \* handles, dispatchers, workers

VARIABLES
  checked,  \* the component a behaviour is about
  dState, dCancel, dOwner, dExpired, dMode, dJob, dDelayed, dAttempted,
  dFaults,
  wDepends, wState, wOwner, wAlive, wCancel, wOutputs, wInputs, wCall, wFaults

dispatchVars == <<dState, dCancel, dOwner, dExpired, dMode, dJob, dDelayed,
  dAttempted, dFaults>>
stepsVars == <<wDepends, wState, wOwner, wAlive, wCancel, wOutputs, wInputs,
  wCall, wFaults>>

Dispatch == INSTANCE Dispatcher WITH
  Dispatchers <- {h1, h2}, RunCount <- 2, MaxConcurrency <- 1, MaxFaults <- 1,
  state <- dState, cancel <- dCancel, owner <- dOwner, expired <- dExpired,
  mode <- dMode, job <- dJob, delayed <- dDelayed, attempted <- dAttempted,
  faults <- dFaults

Steps == INSTANCE Workflow WITH
  Workers <- {h1, h2}, StepCount <- 2, Values <- {1}, MaxFlowFaults <- 1,
  depends <- wDepends, planState <- wState, owner <- wOwner, alive <- wAlive,
  cancel <- wCancel, outputs <- wOutputs, inputs <- wInputs, call <- wCall,
  flowFaults <- wFaults

InitQueues ==
  /\ checked \in {"mirror", "dispatch", "workflow"}
  /\ MirrorInit /\ Dispatch!Init /\ Steps!FlowInit
  /\ checked # "workflow" => wDepends = [s \in 1 .. 2 |-> {}]

NextQueues ==
  /\ UNCHANGED checked
  /\ \/ checked = "mirror" /\ MirrorNext
        /\ UNCHANGED <<dispatchVars, stepsVars>>
     \/ checked = "dispatch" /\ Dispatch!Next
        /\ UNCHANGED <<mirrorVars, stepsVars>>
     \/ checked = "workflow" /\ Steps!FlowNext
        /\ UNCHANGED <<mirrorVars, dispatchVars>>

SpecQueues ==
  /\ InitQueues
  /\ [][NextQueues]_<<checked, mirrorVars, dispatchVars, stepsVars>>
  /\ Steps!FlowFairness
  /\ \A k \in Handles :
       /\ WF_mirrorVars(checked = "mirror" /\ Open(k))
       /\ WF_mirrorVars(checked = "mirror" /\ Call(k))
       /\ WF_mirrorVars(checked = "mirror" /\ Repair(k))
       /\ WF_dispatchVars(checked = "dispatch" /\ Dispatch!Round(k))
       /\ WF_dispatchVars(checked = "dispatch" /\ Dispatch!Batch(k))
       /\ SF_dispatchVars(checked = "dispatch" /\ Dispatch!StartServing(k))
       /\ \A n \in 1 .. 2 :
            /\ WF_dispatchVars(checked = "dispatch" /\ Dispatch!DelayPasses(k, n))
            /\ WF_dispatchVars(checked = "dispatch" /\ Dispatch!Execute(k, n))
            /\ WF_dispatchVars(/\ checked = "dispatch"
                               /\ Dispatch!Return(k, n) \/ Dispatch!Raise(k, n))
  /\ \A n \in 1 .. 2 :
       /\ WF_dispatchVars(/\ checked = "dispatch"
                          /\ Dispatch!Expire(n) /\ ~Dispatch!Executing(n))
       /\ WF_dispatchVars(checked = "dispatch" /\ Dispatch!Answer(n))

-----------------------------------------------------------------------------
\* e2 is an event of another run; h2 mirrors one run only.
TwoRuns == [e \in {e1, e2} |-> IF e = e2 THEN runB ELSE runA]
OneOfEach == [h \in Handles |-> IF h = h1 THEN AnyRun ELSE runA]

-----------------------------------------------------------------------------
(* Properties, by the names they have in the modules that state them *)

\* A run that is submitted is settled, whoever stops or fails (dispatcher.py).
EveryRunSettles == Dispatch!EveryRunSettles

\* A workflow's run is settled in the end (workflow.py execute_workflow).
WorkflowSettles == Steps!WorkflowSettles
==============================================================================
