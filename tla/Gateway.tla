------------------------------ MODULE Gateway ------------------------------
(***************************************************************************)
(* ActionGateway (lipas/gateway.py): tool calls of other frameworks, under *)
(* request ids that a host may deliver again.  A request id names one      *)
(* effect.  The approval of a write is recorded with a fingerprint of the  *)
(* payload; one task per effect runs ToolHarness.call; callers wait for it *)
(* behind a shield with a deadline, or directly without one.  The claims   *)
(* outlive the process, its tasks and callers do not.                      *)
(*                                                                         *)
(* A payload stands for a tool, its arguments and the caused_by of a call. *)
(* Of the harness only the order of its claims is kept: EffectTape has the *)
(* rest.                                                                   *)
(***************************************************************************)
EXTENDS Integers, Sequences

CONSTANTS
  Callers, RequestIds, Payloads,
  Writes,        \* the payloads whose tool writes
  AllowWrites,   \* the gateway's allow_writes
  Nothing,
  MaxRestarts    \* bound on restarts of the host

\* The value that stands for "no request" is not a request id.
RequestsNamed == Nothing \notin RequestIds

VARIABLES
  \* claims
  approval,   \* the payload of the gateway_approval_required claim
  effect,     \* payload and outcome of the effect
  \* in memory
  task,       \* the task in _inflight
  caller,
  \* history and bound
  executed,   \* the payloads a tool was called with, per request id
  answered,   \* what callers were told
  early,      \* the request ids admitted before an approval was asked for
  restarts

claims == <<approval, effect>>
gatewayVars == <<claims, task, caller, executed, answered, early, restarts>>

Final == {"ok", "error", "rejected"}
NoEffect == [payload |-> Nothing, outcome |-> "none"]
NoTask == [pc |-> "none", payload |-> Nothing]
NotCalling == [request |-> Nothing, payload |-> Nothing, bounded |-> FALSE,
         joined |-> FALSE]

GatewayInit ==
  /\ approval = [q \in RequestIds |-> Nothing]
  /\ effect = [q \in RequestIds |-> NoEffect]
  /\ task = [q \in RequestIds |-> NoTask]
  /\ caller = [c \in Callers |-> NotCalling]
  /\ executed = [q \in RequestIds |-> <<>>]
  /\ answered = {} /\ early = {} /\ restarts = 0

Waiting(q) == {c \in Callers : caller[c].request = q}

-----------------------------------------------------------------------------
(* Calls *)

\* Mutant: the recorded fingerprint is not compared.
PriorApprovalFits_Any(q, p) == TRUE

\* _check_prior_approval: another payload raises.
PriorApprovalFits(q, p) == approval[q] \in {Nothing, p}

NeedsApproval(p, approved) == p \in Writes /\ ~AllowWrites /\ ~approved

AskForApproval(c, q, p) ==
  /\ caller[c] = NotCalling
  /\ PriorApprovalFits(q, p) /\ NeedsApproval(p, FALSE)
  /\ approval' = [approval EXCEPT ![q] = p]
  /\ early' = IF approval[q] = Nothing /\ (task[q] # NoTask \/ effect[q] # NoEffect)
              THEN early \cup {q} ELSE early
  /\ UNCHANGED <<effect, task, caller, executed, answered, restarts>>

\* A call of an effect in flight waits for its task, whatever it asks for.
Admitted(q, p) ==
  IF task[q] = NoTask THEN [pc |-> "starting", payload |-> p] ELSE task[q]

Call(c, q, p, approved, bounded) ==
  /\ caller[c] = NotCalling
  /\ PriorApprovalFits(q, p) /\ ~NeedsApproval(p, approved)
  /\ task' = [task EXCEPT ![q] = Admitted(q, p)]
  /\ caller' = [caller EXCEPT ![c] =
       [request |-> q, payload |-> p, bounded |-> bounded,
        joined |-> task[q] # NoTask]]
  /\ UNCHANGED <<claims, executed, answered, early, restarts>>

\* The task of q ends: _forget drops it and its callers go on.
Settle(q) ==
  /\ task' = [task EXCEPT ![q] = NoTask]
  /\ caller' = [c \in Callers |-> IF c \in Waiting(q) THEN NotCalling ELSE caller[c]]

\* _result_from_effect, for every caller of q: the status is the tape's.
Told(q, outcome) ==
  {[request |-> q, payload |-> caller[c].payload, status |-> outcome,
    joined |-> caller[c].joined] : c \in Waiting(q)}

-----------------------------------------------------------------------------
(* The task: ToolHarness.call *)

\* An effect on the tape is restored; another payload, and an intent without
\* an outcome, raise.
Recover(q) ==
  /\ task[q].pc = "starting" /\ effect[q] # NoEffect
  /\ answered' = IF effect[q].payload = task[q].payload /\ effect[q].outcome \in Final
                 THEN answered \cup Told(q, effect[q].outcome) ELSE answered
  /\ Settle(q)
  /\ UNCHANGED <<claims, executed, early, restarts>>

\* Unknown tool, schema, guards and budget.
Reject(q) ==
  /\ task[q].pc = "starting" /\ effect[q] = NoEffect
  /\ effect' = [effect EXCEPT ![q] =
                  [payload |-> task[q].payload, outcome |-> "rejected"]]
  /\ answered' = answered \cup Told(q, "rejected")
  /\ Settle(q)
  /\ UNCHANGED <<approval, executed, early, restarts>>

Execute(q) ==
  /\ task[q].pc = "starting" /\ effect[q] = NoEffect
  /\ effect' = [effect EXCEPT ![q] =
                  [payload |-> task[q].payload, outcome |-> "open"]]
  /\ executed' = [executed EXCEPT ![q] = Append(@, task[q].payload)]
  /\ task' = [task EXCEPT ![q].pc = "running"]
  /\ UNCHANGED <<approval, caller, answered, early, restarts>>

\* The result is folded, unless an operator's observation is there already:
\* then the second result raises.
ToolReturns(q, status) ==
  /\ task[q].pc = "running"
  /\ IF effect[q].outcome = "open"
     THEN /\ effect' = [effect EXCEPT ![q].outcome = status]
          /\ answered' = answered \cup Told(q, status)
     ELSE UNCHANGED <<effect, answered>>
  /\ Settle(q)
  /\ UNCHANGED <<approval, executed, early, restarts>>

-----------------------------------------------------------------------------
(* Deadlines, cancellations, operators, restarts *)

\* wait_for gives up ("uncertain"); the shielded task goes on.
Timeout(c) ==
  /\ caller[c].bounded
  /\ caller' = [caller EXCEPT ![c] = NotCalling]
  /\ UNCHANGED <<claims, task, executed, answered, early, restarts>>

\* A caller without a deadline awaits the task itself: cancelling the caller
\* cancels the task, and with it every other caller of the effect.
Cancel(c) ==
  /\ caller[c] # NotCalling
  /\ IF caller[c].bounded
     THEN caller' = [caller EXCEPT ![c] = NotCalling] /\ UNCHANGED task
     ELSE Settle(caller[c].request)
  /\ UNCHANGED <<claims, executed, answered, early, restarts>>

\* reconcile_orphan: the observation of an operator closes an open intent;
\* a closed one is told as it is.
Reconcile(q, status) ==
  /\ effect[q] # NoEffect
  /\ LET outcome == IF effect[q].outcome = "open" THEN status ELSE effect[q].outcome IN
     /\ effect' = [effect EXCEPT ![q].outcome = outcome]
     /\ answered' = answered \cup
          {[request |-> q, payload |-> effect[q].payload, status |-> outcome,
            joined |-> FALSE]}
  /\ UNCHANGED <<approval, task, caller, executed, early, restarts>>

Restart ==
  /\ restarts < MaxRestarts
  /\ restarts' = restarts + 1
  /\ task' = [q \in RequestIds |-> NoTask]
  /\ caller' = [c \in Callers |-> NotCalling]
  /\ UNCHANGED <<claims, executed, answered, early>>

GatewayNext ==
  \/ \E c \in Callers, q \in RequestIds, p \in Payloads :
       \/ AskForApproval(c, q, p)
       \/ \E approved, bounded \in BOOLEAN : Call(c, q, p, approved, bounded)
  \/ \E q \in RequestIds :
       \/ Recover(q) \/ Reject(q) \/ Execute(q)
       \/ \E status \in {"ok", "error"} : ToolReturns(q, status) \/ Reconcile(q, status)
  \/ \E c \in Callers : Timeout(c) \/ Cancel(c)
  \/ Restart

GatewaySpec == GatewayInit /\ [][GatewayNext]_gatewayVars

-----------------------------------------------------------------------------
(* Properties *)

\* A request is executed at most once, with the payload on its tape.
RequestExecutedOnce ==
  \A q \in RequestIds : executed[q] \in {<<>>, <<effect[q].payload>>}

\* A payload that was put before an operator first is the one executed.
ApprovalBinds ==
  \A q \in RequestIds \ early :
    approval[q] # Nothing => effect[q].payload \in {Nothing, approval[q]}

\* An answer is the recorded outcome of the payload that was asked for; a
\* caller that joined a task in flight gets the outcome of that task's.
AnswersTrue ==
  \A a \in answered :
    /\ a.status = effect[a.request].outcome
    /\ a.payload = effect[a.request].payload \/ a.joined

\* However requests are delivered again, time out, are cancelled, reconciled
\* and restarted: what is executed is what was approved, once, and what is
\* answered is what was recorded (gateway.py call, reconcile_orphan).
ActionsSound == RequestExecutedOnce /\ ApprovalBinds /\ AnswersTrue
=============================================================================
