----------------------------- MODULE TalkProofs -----------------------------
(***************************************************************************)
(* Machine-checked proofs about nine components that share nothing but     *)
(* this module.  Gateway, for any callers, request ids, payloads,          *)
(* approvals and restarts: a request is executed once, with the payload    *)
(* that was approved, and answered with what was recorded.  Conversation,  *)
(* for any chats, messages, clients, Runs and page sizes: a Run is shown   *)
(* in the chat of its one message, and a reader misses nothing of it.      *)
(* Session, for any handles and prompts: the saved versions are a chain of *)
(* completed turns.  PolicyStore, for any identities, delegations and      *)
(* scope sets: a delegation allows nothing that its grantor may not.       *)
(* Mailbox, for any hosts, messages, attempts and faults: a message is     *)
(* answered once and the outbox tells how each of its attempts ended.      *)
(* ToolReplay, for any calls, recordings, options and reopenings: each     *)
(* recording is used once and in order, and the live world is touched once *)
(* by a call and only as allowed.  ModelStream, for any pieces and         *)
(* attempts: one reply comes of a stream, wherever it stops, of what was   *)
(* shown and of whole calls.  ModelCall, for any coroutines, effects,      *)
(* estimates, usages and budget: a call is submitted by one caller and     *)
(* billed once, within the budget or as an overrun.  AgentLoop, for any    *)
(* replies and limits: a write runs by itself, and the model and the       *)
(* consumer are told the same of each call, however a run is cut off.      *)
(***************************************************************************)
EXTENDS Conversation, Gateway, Session, PolicyStore, Mailbox, ToolReplay,
  ModelStream, ModelCall, AgentLoop, SequenceTheorems, FiniteSetTheorems,
  WellFoundedInduction, TLAPS

(***************************************************************************)
(* Gateway                                                                 *)
(***************************************************************************)

Asked == Payloads \cup {Nothing}
Tapes == [payload : Asked, outcome : {"none", "open"} \cup Final]
Tasks == [pc : {"none", "starting", "running"}, payload : Asked]
CallStates == [request : RequestIds \cup {Nothing}, payload : Asked,
               bounded : BOOLEAN, joined : BOOLEAN]
Answers == [request : RequestIds, payload : Asked, status : Final, joined : BOOLEAN]

Types ==
  /\ approval \in [RequestIds -> Asked]
  /\ effect \in [RequestIds -> Tapes]
  /\ task \in [RequestIds -> Tasks]
  /\ caller \in [Callers -> CallStates]
  /\ executed \in [RequestIds -> Seq(Asked)]
  /\ answered \subseteq Answers

\* The tape of a request: nothing, or an intent with at most one execution.
TapeFollows ==
  \A q \in RequestIds :
    /\ effect[q].outcome = "none" => effect[q] = NoEffect /\ executed[q] = <<>>
    /\ executed[q] \in {<<>>, <<effect[q].payload>>}

\* A task that runs the tool has its own payload on the tape.
TaskFollows ==
  \A q \in RequestIds :
    /\ task[q].pc = "none" => task[q] = NoTask
    /\ task[q].pc = "running" =>
         effect[q].outcome # "none" /\ effect[q].payload = task[q].payload

\* A caller waits for a task, of its own payload unless it has joined it.
CallersWait ==
  \A c \in Callers : caller[c].request # Nothing =>
    /\ task[caller[c].request] # NoTask
    /\ caller[c].joined \/ caller[c].payload = task[caller[c].request].payload

\* An approval that came first binds the task and the tape.
ApprovalFirst ==
  \A q \in RequestIds \ early : approval[q] # Nothing =>
    /\ effect[q].payload \in {Nothing, approval[q]}
    /\ task[q].payload \in {Nothing, approval[q]}

\* What was answered is final and is what the tape says.
AnswersFinal ==
  \A a \in answered :
    /\ a.status = effect[a.request].outcome /\ a.status \in Final
    /\ a.payload = effect[a.request].payload \/ a.joined

GatewayInv ==
  /\ Types /\ TapeFollows /\ TaskFollows /\ CallersWait /\ ApprovalFirst
  /\ AnswersFinal

-----------------------------------------------------------------------------
USE DEF Asked, Tapes, Tasks, CallStates, Answers

\* An empty gateway satisfies the invariant.
LEMMA InitInv == GatewayInit => GatewayInv
BY DEF GatewayInit, GatewayInv, Types, TapeFollows, TaskFollows, CallersWait, ApprovalFirst,
       AnswersFinal, NoEffect, NoTask, NotCalling, Final

\* A task that ends lets its callers go, and nobody waits for nothing.
LEMMA SettleKeeps ==
  ASSUME RequestsNamed, GatewayInv, NEW q \in RequestIds, Settle(q)
  PROVE  /\ task' \in [RequestIds -> Tasks]
         /\ caller' \in [Callers -> CallStates]
         /\ task'[q] = NoTask
         /\ \A o \in RequestIds : o # q => task'[o] = task[o]
         /\ CallersWait'
<1> USE DEF GatewayInv
<1>1. /\ task' = [task EXCEPT ![q] = NoTask]
      /\ caller' = [c \in Callers |-> IF c \in Waiting(q) THEN NotCalling ELSE caller[c]]
  BY DEF Settle
<1>2. \A c \in Callers : IF caller[c].request = q THEN caller'[c] = NotCalling
                         ELSE caller'[c] = caller[c]
  BY <1>1 DEF Waiting
<1>3. caller' \in [Callers -> CallStates]
  BY <1>1, <1>2 DEF Types, NotCalling
<1>4. /\ task'[q] = NoTask
      /\ \A o \in RequestIds : o # q => task'[o] = task[o]
      /\ task' \in [RequestIds -> Tasks]
  BY <1>1 DEF Types, NoTask
<1>5. ASSUME NEW c \in Callers, caller'[c].request # Nothing
      PROVE  /\ task'[caller'[c].request] # NoTask
             /\ caller'[c].joined \/ caller'[c].payload = task'[caller'[c].request].payload
  <2>1. caller[c].request # q /\ caller'[c] = caller[c]
    BY <1>2, <1>5 DEF NotCalling
  <2>2. caller[c].request \in RequestIds
    BY <1>5, <2>1 DEF Types
  <2>3. task'[caller[c].request] = task[caller[c].request]
    BY <1>4, <2>1, <2>2
  <2> QED
    BY <1>5, <2>1, <2>3 DEF CallersWait
<1>6. CallersWait'
  BY <1>5 DEF CallersWait
<1> QED
  BY <1>3, <1>4, <1>6

\* What the callers of a task are told.
LEMMA ToldTrue ==
  ASSUME RequestsNamed, GatewayInv, NEW q \in RequestIds, NEW outcome \in Final,
         NEW a \in Told(q, outcome)
  PROVE  /\ a \in Answers
         /\ a.request = q /\ a.status = outcome
         /\ a.payload = task[q].payload \/ a.joined
<1>1. PICK c \in Waiting(q) :
        a = [request |-> q, payload |-> caller[c].payload, status |-> outcome,
             joined |-> caller[c].joined]
  BY DEF Told
<1>2. c \in Callers /\ caller[c].request = q
  BY <1>1 DEF Waiting
<1>3. caller[c].payload \in Asked /\ caller[c].joined \in BOOLEAN
  BY <1>2 DEF GatewayInv, Types
<1>4. caller[c].joined \/ caller[c].payload = task[q].payload
  BY <1>2 DEF GatewayInv, CallersWait, RequestsNamed
<1>5. /\ a.request = q /\ a.status = outcome
      /\ a.payload = caller[c].payload /\ a.joined = caller[c].joined
  BY <1>1
<1>6. a \in Answers
  BY <1>1, <1>3
<1> QED
  BY <1>4, <1>5, <1>6

\* Calls and requests for an approval.
LEMMA CallKeeps ==
  ASSUME RequestsNamed, GatewayInv, NEW c \in Callers, NEW q \in RequestIds,
         NEW p \in Payloads, NEW approved \in BOOLEAN, NEW bounded \in BOOLEAN,
         Call(c, q, p, approved, bounded)
  PROVE  GatewayInv'
<1> USE DEF GatewayInv
<1>1. /\ caller[c] = NotCalling /\ approval[q] \in {Nothing, p}
      /\ task' = [task EXCEPT ![q] = Admitted(q, p)]
      /\ caller' = [caller EXCEPT ![c] =
            [request |-> q, payload |-> p, bounded |-> bounded, joined |-> task[q] # NoTask]]
      /\ UNCHANGED <<approval, effect, executed, answered, early>>
  BY DEF Call, PriorApprovalFits, claims
<1>2. /\ Admitted(q, p) \in Tasks
      /\ Admitted(q, p).pc # "none"
      /\ Admitted(q, p) = task[q] \/ (task[q] = NoTask /\ Admitted(q, p).pc = "starting"
                                       /\ Admitted(q, p).payload = p)
  BY DEF Admitted, Types, TaskFollows
<1>3. Types'
  BY <1>1, <1>2 DEF Types
<1>4. TapeFollows' /\ AnswersFinal'
  BY <1>1 DEF TapeFollows, AnswersFinal
<1>5. TaskFollows'
  BY <1>1, <1>2 DEF TaskFollows, Types
<1>6. CallersWait'
  <2>1. task'[q] # NoTask
    BY <1>1, <1>2 DEF NoTask, Types
  <2>2. \A o \in RequestIds : task[o] # NoTask => task'[o] = task[o]
    BY <1>1 DEF Admitted, Types
  <2>3. \A d \in Callers : d # c => caller'[d] = caller[d]
    BY <1>1 DEF Types
  <2>4. /\ caller'[c].request = q /\ caller'[c].payload = p
        /\ caller'[c].joined = (task[q] # NoTask)
    BY <1>1 DEF Types
  <2>5. task[q] = NoTask => task'[q].payload = p
    BY <1>1 DEF Admitted, Types
  <2>6. ASSUME NEW d \in Callers, d # c, caller'[d].request # Nothing
        PROVE  /\ task'[caller'[d].request] # NoTask
               /\ caller'[d].joined \/ caller'[d].payload = task'[caller'[d].request].payload
    <3>1. caller[d].request \in RequestIds
      BY <2>3, <2>6 DEF Types
    <3> QED
      BY <2>2, <2>3, <2>6, <3>1 DEF CallersWait
  <2>7. /\ task'[caller'[c].request] # NoTask
        /\ caller'[c].joined \/ caller'[c].payload = task'[caller'[c].request].payload
    BY <2>1, <2>4, <2>5
  <2> QED
    BY <2>6, <2>7 DEF CallersWait
<1>7. ApprovalFirst'
  BY <1>1, <1>2 DEF ApprovalFirst, Types
<1> QED
  BY <1>3, <1>4, <1>5, <1>6, <1>7

\* An approval is asked for, first or again with the same payload.
LEMMA AskKeeps ==
  ASSUME GatewayInv, NEW c \in Callers, NEW q \in RequestIds, NEW p \in Payloads,
         AskForApproval(c, q, p)
  PROVE  GatewayInv'
<1> USE DEF GatewayInv
<1>1. /\ approval[q] \in {Nothing, p}
      /\ approval' = [approval EXCEPT ![q] = p]
      /\ early' = IF approval[q] = Nothing /\ (task[q] # NoTask \/ effect[q] # NoEffect)
                  THEN early \cup {q} ELSE early
      /\ UNCHANGED <<effect, task, caller, executed, answered>>
  BY DEF AskForApproval, PriorApprovalFits
<1>2. Types' /\ TapeFollows' /\ TaskFollows' /\ CallersWait' /\ AnswersFinal'
  BY <1>1 DEF Types, TapeFollows, TaskFollows, CallersWait, AnswersFinal
<1>3. ApprovalFirst'
  BY <1>1 DEF ApprovalFirst, Types, NoTask, NoEffect
<1> QED
  BY <1>2, <1>3

\* The task: it is restored, rejected or executed, and ends.
LEMMA RecoverKeeps ==
  ASSUME RequestsNamed, GatewayInv, NEW q \in RequestIds, Recover(q)
  PROVE  GatewayInv'
<1> USE DEF GatewayInv
<1>1. /\ Settle(q)
      /\ answered' = IF effect[q].payload = task[q].payload /\ effect[q].outcome \in Final
                     THEN answered \cup Told(q, effect[q].outcome) ELSE answered
      /\ UNCHANGED <<approval, effect, executed, early>>
  BY DEF Recover, claims
<1>2. /\ task' \in [RequestIds -> Tasks]
      /\ caller' \in [Callers -> CallStates]
      /\ task'[q] = NoTask
      /\ \A o \in RequestIds : o # q => task'[o] = task[o]
      /\ CallersWait'
  BY <1>1, SettleKeeps
<1>3. Types' /\ AnswersFinal'
  <2>1. ASSUME NEW a \in answered', a \notin answered
        PROVE  /\ a \in Answers
               /\ a.status = effect[a.request].outcome /\ a.status \in Final
               /\ a.payload = effect[a.request].payload \/ a.joined
    BY <1>1, <2>1, ToldTrue
  <2> QED
    BY <1>1, <1>2, <2>1 DEF Types, AnswersFinal
<1>4. TapeFollows' /\ TaskFollows' /\ ApprovalFirst'
  BY <1>1, <1>2 DEF TapeFollows, TaskFollows, ApprovalFirst, NoTask
<1> QED
  BY <1>2, <1>3, <1>4

\* A task is rejected before anything is executed.
LEMMA RejectKeeps ==
  ASSUME RequestsNamed, GatewayInv, NEW q \in RequestIds, Reject(q)
  PROVE  GatewayInv'
<1> USE DEF GatewayInv
<1>1. /\ effect[q] = NoEffect /\ Settle(q)
      /\ effect' = [effect EXCEPT ![q] = [payload |-> task[q].payload, outcome |-> "rejected"]]
      /\ answered' = answered \cup Told(q, "rejected")
      /\ UNCHANGED <<approval, executed, early>>
  BY DEF Reject
<1>2. /\ task' \in [RequestIds -> Tasks]
      /\ caller' \in [Callers -> CallStates]
      /\ task'[q] = NoTask
      /\ \A o \in RequestIds : o # q => task'[o] = task[o]
      /\ CallersWait'
  BY <1>1, SettleKeeps
<1>3. /\ effect'[q].payload = task[q].payload /\ effect'[q].outcome = "rejected"
      /\ \A o \in RequestIds : o # q => effect'[o] = effect[o]
      /\ effect' \in [RequestIds -> Tapes]
  BY <1>1 DEF Types, Final
<1>4. \A a \in answered : a.request # q
  BY <1>1 DEF AnswersFinal, NoEffect, Final
<1>5. Types' /\ AnswersFinal'
  <2>1. ASSUME NEW a \in Told(q, "rejected")
        PROVE  /\ a \in Answers
               /\ a.status = effect'[a.request].outcome /\ a.status \in Final
               /\ a.payload = effect'[a.request].payload \/ a.joined
    BY <1>3, <2>1, ToldTrue DEF Final
  <2>2. AnswersFinal'
    BY <1>1, <1>3, <1>4, <2>1 DEF AnswersFinal, Types
  <2> QED
    BY <1>1, <1>2, <1>3, <2>1, <2>2 DEF Types
<1>6. TapeFollows'
  BY <1>1, <1>3 DEF TapeFollows, NoEffect
<1>7. TaskFollows' /\ ApprovalFirst'
  BY <1>1, <1>2, <1>3 DEF TaskFollows, ApprovalFirst, NoTask
<1> QED
  BY <1>2, <1>5, <1>6, <1>7

\* A task records its intent and runs the tool.
LEMMA ExecuteKeeps ==
  ASSUME GatewayInv, NEW q \in RequestIds, Execute(q)
  PROVE  GatewayInv'
<1> USE DEF GatewayInv
<1>1. /\ effect[q] = NoEffect /\ task[q].pc = "starting"
      /\ effect' = [effect EXCEPT ![q] = [payload |-> task[q].payload, outcome |-> "open"]]
      /\ executed' = [executed EXCEPT ![q] = Append(@, task[q].payload)]
      /\ task' = [task EXCEPT ![q].pc = "running"]
      /\ UNCHANGED <<approval, caller, answered, early>>
  BY DEF Execute
<1>2. executed[q] = <<>>
  BY <1>1 DEF TapeFollows, NoEffect
<1>3. Types'
  <2>1. task[q].payload \in Asked /\ executed[q] \in Seq(Asked)
    BY DEF Types
  <2>2. executed' \in [RequestIds -> Seq(Asked)]
    BY <1>1, <2>1 DEF Types
  <2> QED
    BY <1>1, <2>2 DEF Types
<1>4. TapeFollows'
  <2>1. executed'[q] = <<task[q].payload>>
    BY <1>1, <1>2 DEF Types
  <2>2. \A o \in RequestIds : o # q => executed'[o] = executed[o]
    BY <1>1 DEF Types
  <2> QED
    BY <1>1, <2>1, <2>2 DEF TapeFollows, Types
<1>5. TaskFollows'
  BY <1>1 DEF TaskFollows, Types, NoTask
<1>6. CallersWait'
  <2>1. \A o \in RequestIds : task'[o].payload = task[o].payload
                              /\ (task[o] # NoTask => task'[o] # NoTask)
    BY <1>1 DEF Types, NoTask
  <2> QED
    BY <1>1, <2>1 DEF CallersWait, Types
<1>7. ApprovalFirst'
  BY <1>1 DEF ApprovalFirst, Types
<1>8. AnswersFinal'
  BY <1>1 DEF AnswersFinal, Types, NoEffect, Final
<1> QED
  BY <1>3, <1>4, <1>5, <1>6, <1>7, <1>8

\* The tool returns: the outcome is recorded, and the callers are told.
LEMMA ToolReturnsKeeps ==
  ASSUME RequestsNamed, GatewayInv, NEW q \in RequestIds,
         NEW verdict \in {"ok", "error"}, ToolReturns(q, verdict)
  PROVE  GatewayInv'
<1> USE DEF GatewayInv
<1>1. /\ task[q].pc = "running" /\ Settle(q)
      /\ UNCHANGED <<approval, executed, early>>
  BY DEF ToolReturns
<1>2. /\ task' \in [RequestIds -> Tasks]
      /\ caller' \in [Callers -> CallStates]
      /\ task'[q] = NoTask
      /\ \A o \in RequestIds : o # q => task'[o] = task[o]
      /\ CallersWait'
  BY <1>1, SettleKeeps
<1>3. CASE UNCHANGED <<effect, answered>>
  <2>1. Types' /\ AnswersFinal' /\ TapeFollows'
    BY <1>1, <1>2, <1>3 DEF Types, AnswersFinal, TapeFollows
  <2>2. TaskFollows' /\ ApprovalFirst'
    BY <1>1, <1>2, <1>3 DEF TaskFollows, ApprovalFirst, NoTask
  <2> QED
    BY <1>2, <2>1, <2>2
<1>4. CASE /\ effect[q].outcome = "open"
           /\ effect' = [effect EXCEPT ![q].outcome = verdict]
           /\ answered' = answered \cup Told(q, verdict)
  <2>1. /\ effect'[q].payload = effect[q].payload /\ effect'[q].outcome = verdict
        /\ \A o \in RequestIds : o # q => effect'[o] = effect[o]
        /\ effect' \in [RequestIds -> Tapes]
    BY <1>4 DEF Types, Final
  <2>2. effect[q].payload = task[q].payload
    BY <1>1 DEF TaskFollows
  <2>3. ASSUME NEW a \in Told(q, verdict)
        PROVE  /\ a \in Answers
               /\ a.status = effect'[a.request].outcome /\ a.status \in Final
               /\ a.payload = effect'[a.request].payload \/ a.joined
    BY <2>1, <2>2, <2>3, ToldTrue DEF Final
  <2>4. \A a \in answered : a.request # q
    BY <1>4 DEF AnswersFinal, Final
  <2>5. AnswersFinal'
    BY <1>4, <2>1, <2>3, <2>4 DEF AnswersFinal, Types
  <2>6. Types'
    BY <1>1, <1>2, <1>4, <2>1, <2>3 DEF Types
  <2>7. TapeFollows' /\ TaskFollows' /\ ApprovalFirst'
    BY <1>1, <1>2, <1>4, <2>1 DEF TapeFollows, TaskFollows, ApprovalFirst, NoTask
  <2> QED
    BY <1>2, <2>5, <2>6, <2>7
<1> QED
  BY <1>3, <1>4 DEF ToolReturns

\* Deadlines, cancellations and restarts leave the tape alone.
LEMMA ForgetKeeps ==
  ASSUME RequestsNamed, GatewayInv,
         Restart \/ \E c \in Callers : Timeout(c) \/ Cancel(c)
  PROVE  GatewayInv'
<1> USE DEF GatewayInv
<1>1. UNCHANGED <<approval, effect, executed, answered, early>>
  BY DEF Restart, Timeout, Cancel, claims
<1>2. TapeFollows' /\ AnswersFinal'
  BY <1>1 DEF TapeFollows, AnswersFinal
<1>3. CASE Restart
  BY <1>1, <1>2, <1>3 DEF Restart, Types, TaskFollows, CallersWait, ApprovalFirst, NoTask, NotCalling
<1>4. ASSUME NEW c \in Callers, caller' = [caller EXCEPT ![c] = NotCalling], UNCHANGED task
      PROVE  GatewayInv'
  BY <1>1, <1>2, <1>4 DEF Types, TaskFollows, CallersWait, ApprovalFirst, NotCalling
<1>5. ASSUME NEW q \in RequestIds, Settle(q) PROVE GatewayInv'
  <2>1. /\ task' \in [RequestIds -> Tasks]
        /\ caller' \in [Callers -> CallStates]
        /\ task'[q] = NoTask
        /\ \A o \in RequestIds : o # q => task'[o] = task[o]
        /\ CallersWait'
    BY <1>5, SettleKeeps
  <2>2. Types'
    BY <1>1, <2>1 DEF Types
  <2>3. TaskFollows' /\ ApprovalFirst'
    BY <1>1, <2>1 DEF TaskFollows, ApprovalFirst, NoTask
  <2> QED
    BY <1>2, <2>1, <2>2, <2>3
<1>6. ASSUME NEW c \in Callers, Cancel(c) PROVE GatewayInv'
  <2>1. CASE caller[c].bounded
    BY <1>4, <1>6, <2>1 DEF Cancel
  <2>2. CASE ~caller[c].bounded
    <3>1. Settle(caller[c].request)
      BY <1>6, <2>2 DEF Cancel
    <3>2. CASE caller[c].request \in RequestIds
      BY <1>5, <3>1, <3>2
    <3>3. CASE caller[c].request = Nothing
      <4>1. task' = task
        BY <3>1, <3>3 DEF Settle, RequestsNamed, Types
      <4>2. \A d \in Callers : IF caller[d].request = Nothing THEN caller'[d] = NotCalling
                               ELSE caller'[d] = caller[d]
        BY <3>1, <3>3 DEF Settle, Waiting
      <4>3. caller' = [d \in Callers |-> caller'[d]]
        BY <3>1 DEF Settle
      <4>4. caller' \in [Callers -> CallStates]
        <5>1. NotCalling \in CallStates
          BY DEF NotCalling
        <5> HIDE DEF CallStates
        <5>2. \A d \in Callers : caller'[d] \in CallStates
          BY <4>2, <5>1 DEF Types
        <5> QED
          BY <4>3, <5>2
      <4>5. Types' /\ TaskFollows' /\ ApprovalFirst'
        BY <1>1, <4>1, <4>4 DEF Types, TaskFollows, ApprovalFirst
      <4>6. CallersWait'
        BY <4>1, <4>2 DEF CallersWait, NotCalling
      <4> QED
        BY <1>2, <4>5, <4>6
    <3> QED
      BY <3>2, <3>3 DEF Types
  <2> QED
    BY <2>1, <2>2
<1>7. ASSUME NEW c \in Callers, Timeout(c) PROVE GatewayInv'
  BY <1>4, <1>7 DEF Timeout
<1> QED
  BY <1>3, <1>6, <1>7

\* The observation of an operator closes an open intent and no other.
LEMMA ReconcileKeeps ==
  ASSUME GatewayInv, NEW q \in RequestIds, NEW verdict \in {"ok", "error"},
         Reconcile(q, verdict)
  PROVE  GatewayInv'
<1> USE DEF GatewayInv
<1> DEFINE outcome == IF effect[q].outcome = "open" THEN verdict ELSE effect[q].outcome
           told == [request |-> q, payload |-> effect[q].payload, status |-> outcome,
                    joined |-> FALSE]
<1>1. /\ effect[q] # NoEffect
      /\ effect' = [effect EXCEPT ![q].outcome = outcome]
      /\ answered' = answered \cup {told}
      /\ UNCHANGED <<approval, task, caller, executed, early>>
  BY DEF Reconcile
<1>2. outcome \in Final
  BY <1>1 DEF TapeFollows, Types, Final
<1>3. effect[q].outcome \in Final => outcome = effect[q].outcome
  BY DEF Final
<1> HIDE DEF outcome, GatewayInv
<1>4. /\ effect'[q].payload = effect[q].payload /\ effect'[q].outcome = outcome
      /\ \A o \in RequestIds : o # q => effect'[o] = effect[o]
      /\ effect' \in [RequestIds -> Tapes]
  <2>1. effect \in [RequestIds -> Tapes]
    BY DEF GatewayInv, Types
  <2>2. PICK one : one = [effect[q] EXCEPT !.outcome = outcome]
    OBVIOUS
  <2>3. effect' = [effect EXCEPT ![q] = one]
    BY <1>1, <2>1, <2>2
  <2>4. effect[q] \in Tapes
    BY <2>1
  <2>5. one \in Tapes /\ one.payload = effect[q].payload /\ one.outcome = outcome
    BY <1>2, <2>2, <2>4 DEF Tapes
  <2> QED
    BY <2>1, <2>3, <2>5
<1> USE DEF GatewayInv
<1>5. told \in Answers
  BY <1>2 DEF Types
<1>6. AnswersFinal'
  BY <1>1, <1>2, <1>3, <1>4, <1>5 DEF AnswersFinal, Types
<1>7. Types'
  BY <1>1, <1>4, <1>5 DEF Types
<1>8. TapeFollows' /\ TaskFollows' /\ CallersWait' /\ ApprovalFirst'
  <2>1. outcome # "none"
    BY <1>2 DEF Final
  <2> QED
    BY <1>1, <1>4, <2>1 DEF TapeFollows, TaskFollows, CallersWait, ApprovalFirst
<1> QED
  BY <1>6, <1>7, <1>8

\* Every step of a caller, a task or the host keeps the invariant.
LEMMA NextInv ==
  ASSUME RequestsNamed, GatewayInv, [GatewayNext]_gatewayVars
  PROVE  GatewayInv'
<1>1. CASE UNCHANGED gatewayVars
  BY <1>1 DEF gatewayVars, claims, GatewayInv, Types, TapeFollows, TaskFollows, CallersWait,
              ApprovalFirst, AnswersFinal
<1>2. CASE GatewayNext
  BY <1>2, CallKeeps, AskKeeps, RecoverKeeps, RejectKeeps, ExecuteKeeps,
     ToolReturnsKeeps, ForgetKeeps, ReconcileKeeps DEF GatewayNext
<1> QED
  BY <1>1, <1>2

-----------------------------------------------------------------------------
\* gateway.py call and reconcile_orphan, for any requests, payloads, callers and
\* restarts: a request is executed at most once, with the payload whose approval
\* was recorded first, and every answer is the outcome on the tape.
THEOREM ActionsAreSound ==
  ASSUME RequestsNamed PROVE GatewaySpec => []ActionsSound
<1>1. GatewayInv => ActionsSound
  BY DEF GatewayInv, TapeFollows, ApprovalFirst, AnswersFinal, ActionsSound,
         RequestExecutedOnce, ApprovalBinds, AnswersTrue
<1>2. GatewayInv /\ [GatewayNext]_gatewayVars => GatewayInv'
  BY NextInv
<1> QED
  BY <1>1, <1>2, InitInv, PTL DEF GatewaySpec

-----------------------------------------------------------------------------
(***************************************************************************)
(* Conversation                                                            *)
(***************************************************************************)

States == {"none", "pending", "resolved"}
Goals == {q[2] : q \in Requests}

\* The events of a conversation, and what a client may be doing.
ChatEvents ==
  ({"message", "task-link"} \X Messages)
    \cup ({"execution"} \X Runs \X (Nat \ {0})) \cup ({"interrupt"} \X Runs \X States)
Pages == [first : Nat \ {0}, last : Nat]
Paging == [at : {"page"}, todo : SUBSET Runs, run : Runs, page : Pages]
Carding == [at : {"card"}, todo : SUBSET Runs, run : Runs, state : States]
Listing == [at : {"runs"}, todo : SUBSET Runs]
Promoting == [at : {"task"}, message : Messages, goal : Goals]
Linking == [at : {"run", "attach"}, message : Messages]
Doing == {Idle} \cup Promoting \cup Linking \cup Listing \cup Paging \cup Carding

ChatTypes ==
  /\ home \in [Messages -> Conversations \cup {None}]
  /\ link \in [Messages -> Runs \cup {None}]
  /\ events \in [Conversations -> Seq(ChatEvents)]
  /\ happened \in [Runs -> Nat] /\ interrupt \in [Runs -> States]
  /\ client \in [Clients -> Doing]
  /\ follows \in [Clients -> Conversations \cup {None}]
  /\ cursor \in [Clients -> Nat] /\ got \in [Clients -> Seq(ChatEvents)]

\* A message that is not there has no link, and a Run has one message.
LinksSound ==
  /\ \A m \in Messages : home[m] = None => link[m] = None
  /\ \A m, n \in Messages : link[m] # None /\ link[m] = link[n] => m = n

\* An event of a Run is in its conversation, once, and after its predecessor.
EventsSound ==
  \A c \in Conversations : \A x \in DOMAIN events[c] :
    /\ \A y \in DOMAIN events[c] : events[c][x] = events[c][y] => x = y
    /\ events[c][x][1] \in {"execution", "interrupt"} => events[c][x][2] \in Linked(c)
    /\ events[c][x][1] = "execution" /\ events[c][x][3] # 1 =>
         \E y \in 1 .. x - 1 :
           events[c][y] = <<"execution", events[c][x][2], events[c][x][3] - 1>>

\* A promoted message is there; a projection is of Runs linked in the
\* conversation, and what it has passed of a Run is on record.
CallFits(k) ==
  /\ client[k] \in Promoting \cup Linking => home[client[k].message] # None
  /\ client[k] \in Listing \cup Paging \cup Carding =>
       follows[k] \in Conversations /\ client[k].todo \subseteq Linked(follows[k])
  /\ client[k] \in Paging \cup Carding => client[k].run \in Linked(follows[k])
  /\ client[k] \in Paging =>
       \A n \in 1 .. client[k].page.first - 1 :
         <<"execution", client[k].run, n>> \in ToSet(events[follows[k]])

\* Who follows a conversation has its events up to the cursor.
ReaderFits(k) ==
  IF follows[k] = None THEN cursor[k] = 0 /\ got[k] = <<>>
  ELSE /\ cursor[k] <= Len(events[follows[k]])
       /\ got[k] = SubSeq(events[follows[k]], 1, cursor[k])

ClientsSound == \A k \in Clients : CallFits(k) /\ ReaderFits(k)

ChatInv == ChatTypes /\ LinksSound /\ EventsSound /\ ClientsSound

-----------------------------------------------------------------------------

\* What a client is doing, by the stop it is at.
LEMMA StopIs ==
  ASSUME NEW s \in Doing
  PROVE  /\ s.at = "idle" => s = Idle
         /\ s.at = "task" => s \in Promoting
         /\ s.at \in {"run", "attach"} => s \in Linking
         /\ s.at = "runs" => s \in Listing
         /\ s.at = "page" => s \in Paging
         /\ s.at = "card" => s \in Carding
         /\ s \in Promoting => s.at = "task"
         /\ s \in Linking => s.at \in {"run", "attach"}
         /\ s \in Listing => s.at = "runs"
         /\ s \in Paging => s.at = "page"
         /\ s \in Carding => s.at = "card"
BY DEF Doing, Idle, Promoting, Linking, Listing, Paging, Carding

\* Nothing is said at first, and nobody does anything.
LEMMA InitChat == Init => ChatInv
<1> SUFFICES ASSUME Init PROVE ChatInv
  OBVIOUS
<1>1. ChatTypes
  BY DEF Init, ChatTypes, Doing, States
<1>2. LinksSound
  BY DEF Init, LinksSound
<1>3. EventsSound
  <2>1. \A c \in Conversations : events[c] = <<>> /\ DOMAIN events[c] = {}
    BY DEF Init
  <2> QED
    BY <2>1 DEF EventsSound
<1>4. \A k \in Clients : CallFits(k)
  <2>1. \A k \in Clients : client[k].at = "idle" /\ client[k] \in Doing
    BY DEF Init, Idle, Doing
  <2> QED
    BY <2>1, StopIs DEF CallFits
<1>5. \A k \in Clients : ReaderFits(k)
  BY DEF Init, ReaderFits
<1> QED
  BY <1>1, <1>2, <1>3, <1>4, <1>5 DEF ChatInv, ClientsSound

\* What a step may do to the chat: messages and links stay, and at most one event
\* is appended, which was nowhere, belongs where it is put and follows its
\* predecessor.
Placed(c, e) ==
  /\ e \in ChatEvents /\ ~Recorded(e)
  /\ e[1] \in {"execution", "interrupt"} => e[2] \in Linked(c)
  /\ e[1] = "execution" /\ e[3] # 1 =>
       <<"execution", e[2], e[3] - 1>> \in ToSet(events[c])

OneAppended ==
  \/ events' = events
  \/ \E c \in Conversations, e \in ChatEvents :
       Placed(c, e) /\ events' = [events EXCEPT ![c] = Append(@, e)]

LinksKept ==
  /\ home' \in [Messages -> Conversations \cup {None}]
  /\ link' \in [Messages -> Runs \cup {None}]
  /\ \A m \in Messages : home[m] # None => home'[m] = home[m]
  /\ \A m \in Messages : link[m] # None => link'[m] = link[m]
  /\ LinksSound'

\* Runs stay linked to their conversation.
LEMMA LinkedGrows ==
  ASSUME ChatInv, LinksKept, NEW c \in Conversations
  PROVE  Linked(c) \subseteq Linked(c)' /\ Linked(c) \subseteq Runs
<1>1. ASSUME NEW r \in Linked(c) PROVE r \in Linked(c)' /\ r \in Runs
  <2>1. PICK m \in Messages : home[m] = c /\ link[m] = r /\ r # None
    BY DEF Linked
  <2>2. home'[m] = c /\ link'[m] = r
    BY <2>1, ChatAssumption DEF LinksKept
  <2> QED
    BY <2>1, <2>2 DEF Linked, ChatInv, ChatTypes
<1> QED
  BY <1>1

\* Events keep their place.
LEMMA EventsGrow ==
  ASSUME ChatInv, OneAppended, NEW c \in Conversations
  PROVE  /\ events'[c] \in Seq(ChatEvents) /\ Len(events[c]) <= Len(events'[c])
         /\ \A x \in 1 .. Len(events[c]) : events'[c][x] = events[c][x]
         /\ ToSet(events[c]) \subseteq ToSet(events'[c])
<1>0. events \in [Conversations -> Seq(ChatEvents)]
  BY DEF ChatInv, ChatTypes
<1>1. /\ events'[c] \in Seq(ChatEvents) /\ Len(events[c]) <= Len(events'[c])
      /\ \A x \in 1 .. Len(events[c]) : events'[c][x] = events[c][x]
  <2>1. CASE events'[c] = events[c]
    BY <1>0, <2>1
  <2>2. CASE events'[c] # events[c]
    <3>1. PICK e \in ChatEvents : events'[c] = Append(events[c], e)
      BY <1>0, <2>2 DEF OneAppended
    <3>2. events[c] \in Seq(ChatEvents)
      BY <1>0
    <3> QED
      BY <3>1, <3>2, AppendProperties
  <2> QED
    BY <2>1, <2>2
<1>2. ToSet(events[c]) \subseteq ToSet(events'[c])
  BY <1>0, <1>1 DEF ToSet
<1> QED
  BY <1>1, <1>2

\* So the events stay sound.
LEMMA EventsKept ==
  ASSUME ChatInv, OneAppended, LinksKept
  PROVE  EventsSound'
<1>0. events \in [Conversations -> Seq(ChatEvents)]
  BY DEF ChatInv, ChatTypes
<1> SUFFICES ASSUME NEW c \in Conversations, NEW x \in DOMAIN events'[c]
    PROVE /\ \A y \in DOMAIN events'[c] : events'[c][x] = events'[c][y] => x = y
          /\ events'[c][x][1] \in {"execution", "interrupt"} =>
               events'[c][x][2] \in Linked(c)'
          /\ events'[c][x][1] = "execution" /\ events'[c][x][3] # 1 =>
               \E y \in 1 .. x - 1 :
                 events'[c][y] = <<"execution", events'[c][x][2], events'[c][x][3] - 1>>
  BY DEF EventsSound
<1>1. Linked(c) \subseteq Linked(c)'
  BY LinkedGrows
<1>2. PICK old : old = events[c]
  OBVIOUS
<1>3. old \in Seq(ChatEvents) /\ DOMAIN old = 1 .. Len(old) /\ Len(old) \in Nat
  BY <1>0, <1>2
<1>4. \A z \in DOMAIN old :
        /\ \A y \in DOMAIN old : old[z] = old[y] => z = y
        /\ old[z][1] \in {"execution", "interrupt"} => old[z][2] \in Linked(c)
        /\ old[z][1] = "execution" /\ old[z][3] # 1 =>
             \E y \in 1 .. z - 1 : old[y] = <<"execution", old[z][2], old[z][3] - 1>>
  BY <1>2 DEF ChatInv, EventsSound
<1>5. CASE events'[c] = old
  BY <1>1, <1>4, <1>5
<1>6. CASE events'[c] # old
  <2>1. PICK e \in ChatEvents : Placed(c, e) /\ events'[c] = Append(old, e)
    BY <1>0, <1>2, <1>6 DEF OneAppended
  <2>2. PICK new : new = events'[c]
    OBVIOUS
  <2>3. /\ new = Append(old, e) /\ Len(new) = Len(old) + 1
        /\ DOMAIN new = 1 .. Len(old) + 1
        /\ new[Len(old) + 1] = e /\ \A z \in 1 .. Len(old) : new[z] = old[z]
    BY <1>3, <2>1, <2>2, AppendProperties
  <2>4. \A z \in 1 .. Len(old) : old[z] # e
    <3>1. e \notin ToSet(old)
      BY <1>2, <2>1 DEF Placed, Recorded
    <3> QED
      BY <1>3, <3>1 DEF ToSet
  <2>5. x \in 1 .. Len(old) \/ x = Len(old) + 1
    BY <1>3, <2>2, <2>3
  <2>6. \A y \in DOMAIN new : new[x] = new[y] => x = y
    BY <1>3, <1>4, <2>3, <2>4, <2>5
  <2>7. new[x][1] \in {"execution", "interrupt"} => new[x][2] \in Linked(c)'
    <3>1. CASE x \in 1 .. Len(old)
      BY <1>1, <1>3, <1>4, <2>3, <3>1
    <3>2. CASE x = Len(old) + 1
      BY <1>1, <2>1, <2>3, <3>2 DEF Placed
    <3> QED
      BY <2>5, <3>1, <3>2
  <2>8. ASSUME new[x][1] = "execution" /\ new[x][3] # 1
        PROVE  \E y \in 1 .. x - 1 : new[y] = <<"execution", new[x][2], new[x][3] - 1>>
    <3>1. CASE x \in 1 .. Len(old)
      <4>1. PICK y \in 1 .. x - 1 : old[y] = <<"execution", old[x][2], old[x][3] - 1>>
        BY <1>3, <1>4, <2>3, <2>8, <3>1
      <4> QED
        BY <1>3, <2>3, <3>1, <4>1
    <3>2. CASE x = Len(old) + 1
      <4>1. <<"execution", e[2], e[3] - 1>> \in ToSet(old)
        BY <1>2, <2>1, <2>3, <2>8, <3>2 DEF Placed
      <4>2. PICK y \in DOMAIN old : old[y] = <<"execution", e[2], e[3] - 1>>
        BY <4>1 DEF ToSet
      <4> QED
        BY <1>3, <2>3, <3>2, <4>2
    <3> QED
      BY <2>5, <3>1, <3>2
  <2> QED
    BY <2>2, <2>6, <2>7, <2>8
<1> QED
  BY <1>5, <1>6

\* What a call knows of the chat stays true.
LEMMA CallKept ==
  ASSUME ChatInv, OneAppended, LinksKept, NEW k \in Clients,
         client'[k] = client[k], follows'[k] = follows[k]
  PROVE  CallFits(k)'
<1>1. CallFits(k) /\ client[k] \in Doing
  BY DEF ChatInv, ClientsSound, ChatTypes
<1>2. \A c \in Conversations : /\ Linked(c) \subseteq Linked(c)'
                              /\ ToSet(events[c]) \subseteq ToSet(events'[c])
  BY LinkedGrows, EventsGrow
<1>3. client[k] \in Promoting \cup Linking => client[k].message \in Messages
  BY DEF Promoting, Linking
<1>4. client[k] \in Promoting \cup Linking => home'[client[k].message] # None
  BY <1>1, <1>3 DEF LinksKept, CallFits
<1>5. client[k] \in Paging => client[k] \in Listing \cup Paging \cup Carding
  OBVIOUS
<1> QED
  BY <1>1, <1>2, <1>4, <1>5 DEF CallFits

\* What a reader has got stays the beginning of the conversation.
LEMMA ReaderKept ==
  ASSUME ChatInv, OneAppended, NEW k \in Clients,
         follows'[k] = follows[k], cursor'[k] = cursor[k], got'[k] = got[k]
  PROVE  ReaderFits(k)'
<1>1. ReaderFits(k)
  BY DEF ChatInv, ClientsSound
<1>2. CASE follows[k] = None
  BY <1>1, <1>2 DEF ReaderFits
<1>3. CASE follows[k] # None
  <2>1. PICK c \in Conversations : c = follows[k]
    BY <1>3 DEF ChatInv, ChatTypes
  <2>2. PICK n \in Nat : n = cursor[k]
    BY DEF ChatInv, ChatTypes
  <2>3. PICK old : old = events[c]
    OBVIOUS
  <2>4. PICK new : new = events'[c]
    OBVIOUS
  <2>5. /\ old \in Seq(ChatEvents) /\ new \in Seq(ChatEvents) /\ Len(old) <= Len(new)
        /\ \A x \in 1 .. Len(old) : new[x] = old[x]
    BY <2>3, <2>4, EventsGrow DEF ChatInv, ChatTypes
  <2>6. n <= Len(old) /\ got[k] = SubSeq(old, 1, n)
    BY <1>1, <1>3, <2>1, <2>2, <2>3 DEF ReaderFits
  <2>7. SubSeq(old, 1, n) = SubSeq(new, 1, n)
    <3>1. \A x \in 1 .. n : old[x] \in ChatEvents /\ new[x] = old[x]
      BY <2>5, <2>6
    <3>2. /\ SubSeq(old, 1, n) \in Seq(ChatEvents) /\ Len(SubSeq(old, 1, n)) = n
          /\ \A x \in 1 .. n : SubSeq(old, 1, n)[x] = old[x]
      BY <3>1
    <3>3. /\ SubSeq(new, 1, n) \in Seq(ChatEvents) /\ Len(SubSeq(new, 1, n)) = n
          /\ \A x \in 1 .. n : SubSeq(new, 1, n)[x] = new[x]
      BY <3>1
    <3> QED
      BY <3>1, <3>2, <3>3, SeqEqual
  <2>8. n <= Len(new)
    BY <2>5, <2>6
  <2> QED
    BY <1>3, <2>1, <2>2, <2>4, <2>6, <2>7, <2>8 DEF ReaderFits
<1> QED
  BY <1>2, <1>3

\* A step that leaves the messages alone keeps their links.
LEMMA LinksQuiet ==
  ASSUME ChatInv, UNCHANGED <<home, link>>
  PROVE  LinksKept
BY DEF ChatInv, ChatTypes, LinksSound, LinksKept

\* A step of k: the others keep what they have.
LEMMA StepKeeps ==
  ASSUME ChatInv, ChatTypes', OneAppended, LinksKept, NEW k \in Clients,
         \A j \in Clients \ {k} :
           /\ client'[j] = client[j] /\ follows'[j] = follows[j]
           /\ cursor'[j] = cursor[j] /\ got'[j] = got[j],
         CallFits(k)', ReaderFits(k)'
  PROVE  ChatInv'
<1>1. \A j \in Clients : CallFits(j)' /\ ReaderFits(j)'
  BY CallKept, ReaderKept
<1>2. LinksSound' /\ EventsSound'
  BY EventsKept DEF LinksKept
<1> QED
  BY <1>1, <1>2 DEF ChatInv, ClientsSound

\* A step of no client.
LEMMA SystemKeeps ==
  ASSUME ChatInv, ChatTypes', OneAppended, LinksKept, UNCHANGED <<client, reading>>
  PROVE  ChatInv'
<1>1. \A j \in Clients : CallFits(j)' /\ ReaderFits(j)'
  BY CallKept, ReaderKept DEF reading
<1>2. LinksSound' /\ EventsSound'
  BY EventsKept DEF LinksKept
<1> QED
  BY <1>1, <1>2 DEF ChatInv, ClientsSound

\* What is appended to a conversation is typed as it is.
LEMMA AppendKeeps ==
  ASSUME ChatInv, NEW c \in Conversations, NEW e \in ChatEvents,
         events' = AppendTo(c, e), ~Recorded(e) => Placed(c, e)
  PROVE  OneAppended /\ events' \in [Conversations -> Seq(ChatEvents)]
<1>0. events \in [Conversations -> Seq(ChatEvents)]
  BY DEF ChatInv, ChatTypes
<1>1. CASE Recorded(e)
  BY <1>0, <1>1 DEF AppendTo, OneAppended
<1>2. CASE ~Recorded(e)
  <2>1. events' = [events EXCEPT ![c] = Append(@, e)]
    BY <1>2 DEF AppendTo
  <2>2. Append(events[c], e) \in Seq(ChatEvents)
    BY <1>0
  <2> QED
    BY <1>0, <1>2, <2>1, <2>2 DEF OneAppended
<1> QED
  BY <1>1, <1>2

-----------------------------------------------------------------------------

\* A message is inserted, with or without a Run (append_message).
LEMMA AppendMessageKeeps ==
  ASSUME ChatInv, NEW m \in Messages, NEW c \in Conversations,
         NEW r \in Runs \cup {None}, AppendMessage(m, c, r)
  PROVE  ChatInv'
<1>1. PICK e : e = <<"message", m>>
  OBVIOUS
<1>2. e \in ChatEvents /\ e[1] = "message"
  BY <1>1 DEF ChatEvents
<1>3. OneAppended /\ events' \in [Conversations -> Seq(ChatEvents)]
  <2>1. events' = AppendTo(c, e)
    BY <1>1 DEF AppendMessage
  <2>2. ~Recorded(e) => Placed(c, e)
    BY <1>2 DEF Placed
  <2> QED
    BY <1>2, <2>1, <2>2, AppendKeeps
<1>4. home[m] = None /\ link[m] = None /\ (r # None => ~Owned(m, r))
  BY DEF AppendMessage, ChatInv, LinksSound
<1>5. /\ home' = [home EXCEPT ![m] = c] /\ link' = [link EXCEPT ![m] = r]
      /\ UNCHANGED <<execution, client, reading>>
  BY DEF AppendMessage
<1>6. LinksKept
  <2>1. \A n \in Messages : home'[n] = None => link'[n] = None
    BY <1>4, <1>5, ChatAssumption DEF ChatInv, ChatTypes, LinksSound
  <2>2. \A n, o \in Messages : link'[n] # None /\ link'[n] = link'[o] => n = o
    BY <1>4, <1>5 DEF ChatInv, ChatTypes, LinksSound, Owned
  <2> QED
    BY <1>4, <1>5, <2>1, <2>2 DEF ChatInv, ChatTypes, LinksSound, LinksKept
<1>7. ChatTypes'
  BY <1>3, <1>5, <1>6 DEF ChatInv, ChatTypes, LinksKept, execution, reading
<1> QED
  BY <1>3, <1>5, <1>6, <1>7, SystemKeeps

\* The execution of a Run changes nothing of the chats.
LEMMA RunKeeps ==
  ASSUME ChatInv, NEW r \in Runs, RunEvent(r) \/ Interrupt(r)
  PROVE  ChatInv'
<1>1. UNCHANGED <<home, link, events, client, reading>>
  BY DEF RunEvent, Interrupt, chat
<1>2. happened' \in [Runs -> Nat] /\ interrupt' \in [Runs -> States]
  <2>1. CASE RunEvent(r)
    BY <2>1 DEF RunEvent, ChatInv, ChatTypes
  <2>2. CASE Interrupt(r)
    <3>1. /\ happened' = happened
          /\ \E v \in {"pending", "resolved"} : interrupt' = [interrupt EXCEPT ![r] = v]
      BY <2>2 DEF Interrupt
    <3> QED
      BY <3>1 DEF ChatInv, ChatTypes, States
  <2> QED
    BY <2>1, <2>2
<1>3. ChatTypes'
  BY <1>1, <1>2 DEF ChatInv, ChatTypes, reading
<1>4. OneAppended /\ LinksKept
  BY <1>1, LinksQuiet DEF OneAppended
<1> QED
  BY <1>1, <1>3, <1>4, SystemKeeps

\* A step of k that only changes what it is doing.
LEMMA DoKeeps ==
  ASSUME ChatInv, NEW k \in Clients, NEW next \in Doing, Do(k, next),
         UNCHANGED <<chat, happened, interrupt, reading>>, CallFits(k)'
  PROVE  ChatInv'
<1>1. UNCHANGED <<home, link, events, happened, interrupt, follows, cursor, got>>
  BY DEF chat, reading
<1>2. client' = [client EXCEPT ![k] = next]
  BY DEF Do
<1>3. ChatTypes'
  BY <1>1, <1>2 DEF ChatInv, ChatTypes
<1>4. OneAppended /\ LinksKept
  BY <1>1, LinksQuiet DEF OneAppended
<1>5. ReaderFits(k)'
  BY <1>1, <1>4, ReaderKept
<1>6. \A j \in Clients \ {k} : client'[j] = client[j]
  BY <1>2 DEF ChatInv, ChatTypes
<1> QED
  BY <1>1, <1>3, <1>4, <1>5, <1>6, StepKeeps

\* An idle client knows nothing.
LEMMA IdleFits ==
  ASSUME NEW k \in Clients, client'[k] = Idle
  PROVE  CallFits(k)' /\ Idle \in Doing
<1>1. Idle \in Doing /\ Idle.at = "idle"
  BY DEF Idle, Doing
<1>2. Idle \notin Promoting \cup Linking \cup Listing \cup Paging \cup Carding
  BY <1>1, StopIs
<1> QED
  BY <1>1, <1>2 DEF CallFits

\* A promotion starts with a message that is there.
LEMMA PromoteKeeps ==
  ASSUME ChatInv, NEW k \in Clients, NEW q \in Requests, Promote(k, q[1], q[2])
  PROVE  ChatInv'
<1>1. PICK next : next = [at |-> "task", message |-> q[1], goal |-> q[2]]
  OBVIOUS
<1>2. next \in Promoting /\ next \in Doing /\ next.message = q[1]
  BY <1>1, ChatAssumption DEF Promoting, Goals, Doing
<1>3. Do(k, next) /\ home[q[1]] # None /\ UNCHANGED <<chat, execution, reading>>
  BY <1>1 DEF Promote
<1>4. client'[k] = next /\ home' = home
  BY <1>3 DEF Do, ChatInv, ChatTypes, chat
<1>5. next \notin Listing \cup Paging \cup Carding
  BY <1>1 DEF Listing, Paging, Carding
<1>6. CallFits(k)'
  BY <1>2, <1>3, <1>4, <1>5 DEF CallFits
<1> QED
  BY <1>2, <1>3, <1>6, DoKeeps DEF execution

\* The Task and the Run of a promotion are made (promote_message_to_task).
LEMMA PromoteTaskKeeps ==
  ASSUME ChatInv, NEW k \in Clients, PromoteTask(k) \/ PromoteRun(k)
  PROVE  ChatInv'
<1>1. client[k] \in Doing /\ client[k].at \in {"task", "run"}
  BY DEF PromoteTask, PromoteRun, At, ChatInv, ChatTypes
<1>2. /\ client[k] \in Promoting \cup Linking /\ client[k].message \in Messages
      /\ home[client[k].message] # None
  <2>1. client[k] \in Promoting \cup Linking
    BY <1>1, StopIs
  <2> QED
    BY <2>1 DEF ChatInv, ClientsSound, CallFits, Promoting, Linking
<1>3. PICK next \in Linking \cup {Idle} :
        Do(k, next) /\ (next # Idle => next.message = client[k].message)
  <2>1. CASE PromoteTask(k)
    <3>1. PICK next : next = [at |-> "run", message |-> client[k].message]
      OBVIOUS
    <3>2. next \in Linking /\ next.message = client[k].message
      BY <1>2, <3>1 DEF Linking
    <3>3. Do(k, next) \/ Do(k, Idle)
      BY <2>1, <3>1 DEF PromoteTask
    <3> QED
      BY <3>2, <3>3
  <2>2. CASE PromoteRun(k)
    <3>1. PICK next : next = [at |-> "attach", message |-> client[k].message]
      OBVIOUS
    <3>2. next \in Linking /\ next.message = client[k].message
      BY <1>2, <3>1 DEF Linking
    <3>3. Do(k, next)
      BY <2>2, <3>1 DEF PromoteRun
    <3> QED
      BY <3>2, <3>3
  <2> QED
    BY <2>1, <2>2
<1>4. UNCHANGED <<chat, happened, interrupt, reading>>
  BY DEF PromoteTask, PromoteRun
<1>5. client'[k] = next /\ home' = home /\ next \in Doing
  BY <1>3, <1>4 DEF Do, ChatInv, ChatTypes, chat, Doing
<1>6. CASE next = Idle
  BY <1>3, <1>4, <1>5, <1>6, IdleFits, DoKeeps
<1>7. CASE next # Idle
  <2>1. next \in Linking /\ next.message = client[k].message
    BY <1>3, <1>7
  <2>2. next \notin Listing \cup Paging \cup Carding
    BY <2>1 DEF Linking, Listing, Paging, Carding
  <2>3. CallFits(k)'
    BY <1>2, <1>5, <2>1, <2>2 DEF CallFits
  <2> QED
    BY <1>3, <1>4, <1>5, <2>3, DoKeeps
<1> QED
  BY <1>6, <1>7

\* The link is set once and to a Run that no message has (attach_message).
LEMMA PromoteLinkKeeps ==
  ASSUME ChatInv, NEW k \in Clients, PromoteLink(k)
  PROVE  ChatInv'
<1>1. client[k] \in Linking
  BY StopIs DEF PromoteLink, At, ChatInv, ChatTypes
<1>2. PICK m \in Messages : m = client[k].message
  BY <1>1 DEF Linking
<1>3. PICK r \in Runs : r = RunOf[m]
  BY ChatAssumption
<1>4. home[m] \in Conversations
  <2>1. home[m] # None
    BY <1>1, <1>2 DEF ChatInv, ClientsSound, CallFits
  <2> QED
    BY <2>1 DEF ChatInv, ChatTypes
<1>5. Attach(k, m, r)
  BY <1>2, <1>3 DEF PromoteLink
<1>6. /\ client' = [client EXCEPT ![k] = Idle]
      /\ UNCHANGED <<home, happened, interrupt, follows, cursor, got>>
  BY <1>5 DEF Attach, End, Do, execution, reading
<1>7. client'[k] = Idle /\ client' \in [Clients -> Doing]
      /\ \A j \in Clients \ {k} : client'[j] = client[j]
  BY <1>6, IdleFits DEF ChatInv, ChatTypes, Doing
<1>8. CallFits(k)'
  BY <1>7, IdleFits
<1>9. OneAppended /\ LinksKept /\ events' \in [Conversations -> Seq(ChatEvents)]
  <2>1. CASE UNCHANGED <<link, events>>
    BY <1>6, <2>1, LinksQuiet DEF OneAppended, ChatInv, ChatTypes
  <2>2. CASE /\ link[m] = None /\ ~Owned(m, r)
             /\ link' = [link EXCEPT ![m] = r]
             /\ events' = AppendTo(home[m], <<"task-link", m>>)
    <3>1. PICK e : e = <<"task-link", m>>
      OBVIOUS
    <3>2. e \in ChatEvents /\ e[1] = "task-link"
      BY <3>1 DEF ChatEvents
    <3>3. ~Recorded(e) => Placed(home[m], e)
      BY <3>2 DEF Placed
    <3>4. OneAppended /\ events' \in [Conversations -> Seq(ChatEvents)]
      BY <1>4, <2>2, <3>1, <3>2, <3>3, AppendKeeps
    <3>5. \A n \in Messages : home'[n] = None => link'[n] = None
      BY <1>4, <1>6, <2>2, ChatAssumption DEF ChatInv, ChatTypes, LinksSound
    <3>6. \A n, o \in Messages : link'[n] # None /\ link'[n] = link'[o] => n = o
      BY <2>2 DEF ChatInv, ChatTypes, LinksSound, Owned
    <3>7. LinksKept
      BY <1>6, <2>2, <3>5, <3>6 DEF ChatInv, ChatTypes, LinksSound, LinksKept
    <3> QED
      BY <3>4, <3>7
  <2> QED
    BY <1>5, <2>1, <2>2 DEF Attach
<1>10. ChatTypes'
  BY <1>6, <1>7, <1>9 DEF ChatInv, ChatTypes, LinksKept
<1>11. ReaderFits(k)'
  BY <1>6, <1>9, ReaderKept
<1> QED
  BY <1>6, <1>7, <1>8, <1>9, <1>10, <1>11, StepKeeps

\* A projection starts with the Runs that are linked now.
LEMMA ProjectKeeps ==
  ASSUME ChatInv, NEW k \in Clients, NEW c \in Conversations, Project(k, c)
  PROVE  ChatInv'
<1>1. PICK next : next = [at |-> "runs", todo |-> Linked(c)]
  OBVIOUS
<1>2. LinksKept /\ UNCHANGED <<home, link, events, happened, interrupt, cursor, got>>
  BY LinksQuiet DEF Project, chat, execution
<1>3. OneAppended
  BY <1>2 DEF OneAppended
<1>4. Linked(c) \subseteq Runs /\ Linked(c)' = Linked(c)
  BY <1>2, LinkedGrows DEF Linked
<1>5. next \in Listing /\ next \in Doing /\ next.todo = Linked(c)
  BY <1>1, <1>4 DEF Listing, Doing
<1>6. /\ client' = [client EXCEPT ![k] = next] /\ follows' = [follows EXCEPT ![k] = c]
      /\ follows[k] \in {None, c}
  BY <1>1 DEF Project, Do
<1>7. client'[k] = next /\ follows'[k] = c /\ client' \in [Clients -> Doing]
      /\ follows' \in [Clients -> Conversations \cup {None}]
      /\ \A j \in Clients \ {k} : client'[j] = client[j] /\ follows'[j] = follows[j]
  BY <1>5, <1>6 DEF ChatInv, ChatTypes
<1>8. next \notin Promoting \cup Linking \cup Paging \cup Carding
  BY <1>1 DEF Promoting, Linking, Paging, Carding
<1>9. CallFits(k)'
  BY <1>4, <1>5, <1>7, <1>8 DEF CallFits
<1>10. ReaderFits(k)'
  <2>1. CASE follows[k] = c
    BY <1>2, <1>3, <1>7, <2>1, ReaderKept
  <2>2. CASE follows[k] = None
    <3>1. cursor[k] = 0 /\ got[k] = <<>>
      BY <2>2 DEF ChatInv, ClientsSound, ReaderFits
    <3>2. SubSeq(events[c], 1, 0) = <<>> /\ Len(events[c]) \in Nat
      BY DEF ChatInv, ChatTypes
    <3> QED
      BY <1>2, <1>7, <3>1, <3>2, ChatAssumption DEF ReaderFits
  <2> QED
    BY <1>6, <2>1, <2>2
<1>11. ChatTypes'
  BY <1>2, <1>7 DEF ChatInv, ChatTypes
<1> QED
  BY <1>2, <1>3, <1>7, <1>9, <1>10, <1>11, StepKeeps

\* The page asked for starts after the last event that was read.
LEMMA PageIs ==
  ASSUME ChatInv, NEW r \in Runs, NEW n \in Nat
  PROVE  PageAfter(r, n) \in Pages /\ PageAfter(r, n).first = n + 1
<1>1. happened[r] \in Nat
  BY DEF ChatInv, ChatTypes
<1> QED
  BY <1>1, ChatAssumption DEF PageAfter, Pages

\* A Run is taken from the list: nothing of it is passed yet.
LEMMA ReadRunKeeps ==
  ASSUME ChatInv, NEW k \in Clients, ReadRun(k)
  PROVE  ChatInv'
<1>1. PICK s \in Listing : s = client[k]
  BY StopIs DEF ReadRun, At, ChatInv, ChatTypes
<1>2. PICK r \in s.todo : r = CHOOSE q \in s.todo : TRUE
  BY <1>1 DEF ReadRun
<1>3. PICK c \in Conversations : c = follows[k] /\ s.todo \subseteq Linked(c)
  BY <1>1 DEF ChatInv, ClientsSound, CallFits
<1>4. r \in Runs /\ s.todo \in SUBSET Runs
  BY <1>1, <1>2 DEF Listing
<1>5. PICK page \in Pages : page = PageAfter(r, 0) /\ page.first = 1
  BY <1>4, PageIs
<1>6. PICK full : full = [at |-> "page", todo |-> s.todo \ {r}, run |-> r, page |-> page]
  OBVIOUS
<1>7. PICK rest : rest = [s EXCEPT !.todo = s.todo \ {r}]
  OBVIOUS
<1>8. full \in Paging /\ full.todo = s.todo \ {r} /\ full.run = r /\ full.page = page
  BY <1>4, <1>6 DEF Paging
<1>9. rest \in Listing /\ rest.todo = s.todo \ {r}
  BY <1>4, <1>7 DEF Listing
<1>10. UNCHANGED <<home, link, events, happened, interrupt, follows>>
       /\ UNCHANGED <<chat, execution, reading>> /\ Linked(c)' = Linked(c)
  BY DEF ReadRun, chat, execution, reading, Linked
<1>11. Do(k, full) \/ Do(k, rest)
  <2>1. exists[r] => Do(k, full)
    BY <1>1, <1>2, <1>5, <1>6 DEF ReadRun
  <2>2. ~exists[r] => Do(k, rest)
    BY <1>1, <1>2, <1>7 DEF ReadRun
  <2> QED
    BY <2>1, <2>2
<1>12. CASE Do(k, full)
  <2>1. client'[k] = full /\ follows'[k] = c
    BY <1>3, <1>10, <1>12 DEF Do, ChatInv, ChatTypes
  <2>2. full \notin Promoting \cup Linking \cup Listing \cup Carding
    BY <1>6 DEF Promoting, Linking, Listing, Carding
  <2>3. \A n \in 1 .. full.page.first - 1 : FALSE
    BY <1>5, <1>8
  <2>4. CallFits(k)'
    BY <1>2, <1>3, <1>8, <1>10, <2>1, <2>2, <2>3 DEF CallFits
  <2> QED
    BY <1>8, <1>10, <1>12, <2>4, DoKeeps DEF Doing, execution
<1>13. CASE Do(k, rest)
  <2>1. client'[k] = rest /\ follows'[k] = c
    BY <1>3, <1>10, <1>13 DEF Do, ChatInv, ChatTypes
  <2>2. rest.at = "runs"
    BY <1>9 DEF Listing
  <2>3. rest \notin Promoting \cup Linking \cup Paging \cup Carding
    BY <2>2 DEF Promoting, Linking, Paging, Carding
  <2>4. CallFits(k)'
    BY <1>3, <1>9, <1>10, <2>1, <2>3 DEF CallFits
  <2> QED
    BY <1>9, <1>10, <1>13, <2>4, DoKeeps DEF Doing, execution
<1> QED
  BY <1>11, <1>12, <1>13

\* An event is appended after its predecessor, or is on record here.
LEMMA ProjectEventKeeps ==
  ASSUME ChatInv, NEW k \in Clients, ProjectEvent(k)
  PROVE  ChatInv'
<1>1. PICK s \in Paging : s = client[k]
  BY StopIs DEF ProjectEvent, At, ChatInv, ChatTypes
<1>2. PICK r \in Runs : r = s.run
  BY DEF Paging
<1>3. PICK n \in Nat \ {0} : n = s.page.first
  BY DEF Paging, Pages
<1>4. PICK e : e = <<"execution", r, n>>
  OBVIOUS
<1>5. e \in ChatEvents /\ e[1] = "execution" /\ e[2] = r /\ e[3] = n
  BY <1>4 DEF ChatEvents
<1>6. PICK c \in Conversations :
        /\ c = follows[k] /\ s.todo \subseteq Linked(c) /\ r \in Linked(c)
        /\ \A x \in 1 .. n - 1 : <<"execution", r, x>> \in ToSet(events[c])
  BY <1>1, <1>2, <1>3 DEF ChatInv, ClientsSound, CallFits
<1>7. LinksKept /\ UNCHANGED <<home, link, happened, interrupt, follows, cursor, got>>
  BY LinksQuiet DEF ProjectEvent, execution, reading
<1>8. CASE UNCHANGED events /\ End(k)
  <2>1. Do(k, Idle) /\ Idle \in Doing
    BY <1>8 DEF End, Doing
  <2>2. client'[k] = Idle
    BY <2>1 DEF Do, ChatInv, ChatTypes
  <2>3. CallFits(k)'
    BY <2>2, IdleFits
  <2>4. UNCHANGED <<chat, happened, interrupt, reading>>
    BY <1>7, <1>8 DEF chat, reading
  <2> QED
    BY <2>1, <2>3, <2>4, DoKeeps
<1>9. CASE /\ Accepts(c, e) /\ events' = AppendTo(c, e)
           /\ Do(k, [s EXCEPT !.page.first = @ + 1])
  <2>1. ~Recorded(e) => Placed(c, e)
    BY <1>5, <1>6, <1>3, <1>4 DEF Placed
  <2>2. OneAppended /\ events' \in [Conversations -> Seq(ChatEvents)]
    BY <1>5, <1>9, <2>1, AppendKeeps
  <2>3. e \in ToSet(events'[c])
    <3>1. CASE Recorded(e)
      <4>1. e \in ToSet(events[c])
        BY <1>9, <3>1 DEF Recorded, Accepts
      <4> QED
        BY <2>2, <4>1, EventsGrow
    <3>2. CASE ~Recorded(e)
      <4>1. events[c] \in Seq(ChatEvents)
        BY DEF ChatInv, ChatTypes
      <4>2. events'[c] = Append(events[c], e)
        BY <1>9, <3>2 DEF AppendTo, ChatInv, ChatTypes
      <4>3. Len(events[c]) + 1 \in DOMAIN Append(events[c], e)
            /\ Append(events[c], e)[Len(events[c]) + 1] = e
        BY <1>5, <4>1, AppendProperties
      <4> QED
        BY <4>2, <4>3 DEF ToSet
    <3> QED
      BY <3>1, <3>2
  <2>4. PICK next : next = [s EXCEPT !.page.first = @ + 1]
    OBVIOUS
  <2>5. /\ next \in Paging /\ next.todo = s.todo /\ next.run = r
        /\ next.page.first = n + 1
    BY <1>1, <1>2, <1>3, <2>4 DEF Paging, Pages
  <2>6. client'[k] = next /\ client' \in [Clients -> Doing]
        /\ \A j \in Clients \ {k} : client'[j] = client[j]
    BY <1>9, <2>4, <2>5 DEF Do, ChatInv, ChatTypes, Doing
  <2>7. next.at = "page"
    BY <2>5 DEF Paging
  <2>8. next \notin Promoting \cup Linking \cup Listing \cup Carding
    BY <2>7 DEF Promoting, Linking, Listing, Carding
  <2>9. Linked(c)' = Linked(c) /\ ToSet(events[c]) \subseteq ToSet(events'[c])
    BY <1>7, <2>2, EventsGrow DEF Linked
  <2>10. \A x \in 1 .. (n + 1) - 1 : <<"execution", r, x>> \in ToSet(events'[c])
    <3> SUFFICES ASSUME NEW x \in 1 .. n PROVE <<"execution", r, x>> \in ToSet(events'[c])
      OBVIOUS
    <3>1. CASE x = n
      BY <1>4, <2>3, <3>1
    <3>2. CASE x # n
      BY <1>6, <2>9, <3>2
    <3> QED
      BY <3>1, <3>2
  <2>11. CallFits(k)'
    BY <1>6, <1>7, <2>5, <2>6, <2>8, <2>9, <2>10 DEF CallFits
  <2>12. ReaderFits(k)'
    BY <1>7, <2>2, ReaderKept
  <2>13. ChatTypes'
    BY <1>7, <2>2, <2>6 DEF ChatInv, ChatTypes
  <2> QED
    BY <1>7, <2>2, <2>6, <2>11, <2>12, <2>13, StepKeeps
<1> QED
  BY <1>1, <1>2, <1>3, <1>4, <1>6, <1>8, <1>9 DEF ProjectEvent

\* The next page starts where the last one ended.
LEMMA NextPageKeeps ==
  ASSUME ChatInv, NEW k \in Clients, NextPage(k)
  PROVE  ChatInv'
<1>1. PICK s \in Paging : s = client[k]
  BY StopIs DEF NextPage, At, ChatInv, ChatTypes
<1>2. PICK r \in Runs : r = s.run
  BY DEF Paging
<1>3. PICK n \in Nat : n = s.page.last /\ s.page.first \in Nat /\ s.page.first > n
  BY <1>1 DEF Paging, Pages, NextPage
<1>4. PICK c \in Conversations :
        /\ c = follows[k] /\ s.todo \subseteq Linked(c) /\ r \in Linked(c)
        /\ \A x \in 1 .. s.page.first - 1 : <<"execution", r, x>> \in ToSet(events[c])
  BY <1>1, <1>2 DEF ChatInv, ClientsSound, CallFits
<1>5. /\ UNCHANGED <<home, link, events, happened, interrupt, follows>>
      /\ UNCHANGED <<chat, execution, reading>> /\ Linked(c)' = Linked(c)
  BY DEF NextPage, chat, execution, reading, Linked
<1>6. PICK page \in Pages : page = PageAfter(r, n) /\ page.first = n + 1
  BY PageIs
<1>7. PICK more : more = [s EXCEPT !.page = page]
  OBVIOUS
<1>8. PICK card :
        card = [at |-> "card", todo |-> s.todo, run |-> r, state |-> interrupt[r]]
  OBVIOUS
<1>9. /\ more \in Paging /\ more.todo = s.todo /\ more.run = r /\ more.page = page
      /\ more.at = "page"
  BY <1>2, <1>7 DEF Paging
<1>10. card \in Carding /\ card.todo = s.todo /\ card.run = r /\ card.at = "card"
  BY <1>8 DEF Carding, Paging, ChatInv, ChatTypes
<1>11. Do(k, more) \/ Do(k, card)
  BY <1>1, <1>2, <1>3, <1>6, <1>7, <1>8 DEF NextPage
<1>12. CASE Do(k, more)
  <2>1. client'[k] = more /\ follows'[k] = c
    BY <1>4, <1>5, <1>12 DEF Do, ChatInv, ChatTypes
  <2>2. more \notin Promoting \cup Linking \cup Listing \cup Carding
    BY <1>9 DEF Promoting, Linking, Listing, Carding
  <2>3. \A x \in 1 .. more.page.first - 1 : <<"execution", r, x>> \in ToSet(events'[c])
    BY <1>3, <1>4, <1>5, <1>6, <1>9
  <2>4. CallFits(k)'
    BY <1>4, <1>5, <1>9, <2>1, <2>2, <2>3 DEF CallFits
  <2> QED
    BY <1>5, <1>9, <1>12, <2>4, DoKeeps DEF Doing, execution
<1>13. CASE Do(k, card)
  <2>1. client'[k] = card /\ follows'[k] = c
    BY <1>4, <1>5, <1>13 DEF Do, ChatInv, ChatTypes
  <2>2. card \notin Promoting \cup Linking \cup Listing \cup Paging
    BY <1>10 DEF Promoting, Linking, Listing, Paging
  <2>3. CallFits(k)'
    BY <1>4, <1>5, <1>10, <2>1, <2>2 DEF CallFits
  <2> QED
    BY <1>5, <1>10, <1>13, <2>3, DoKeeps DEF Doing, execution
<1> QED
  BY <1>11, <1>12, <1>13

\* The card of a Run is put in the conversation the Run is linked in.
LEMMA ProjectInterruptKeeps ==
  ASSUME ChatInv, NEW k \in Clients, ProjectInterrupt(k)
  PROVE  ChatInv'
<1>1. PICK s \in Carding : s = client[k]
  BY StopIs DEF ProjectInterrupt, At, ChatInv, ChatTypes
<1>2. PICK r \in Runs : r = s.run
  BY DEF Carding
<1>3. PICK e : e = <<"interrupt", r, s.state>>
  OBVIOUS
<1>4. e \in ChatEvents /\ e[1] = "interrupt" /\ e[2] = r
  BY <1>3 DEF ChatEvents, Carding
<1>5. PICK c \in Conversations :
        c = follows[k] /\ s.todo \subseteq Linked(c) /\ r \in Linked(c)
  BY <1>1, <1>2 DEF ChatInv, ClientsSound, CallFits
<1>6. LinksKept /\ UNCHANGED <<home, link, happened, interrupt, follows, cursor, got>>
  BY LinksQuiet DEF ProjectInterrupt, execution, reading
<1>7. OneAppended /\ events' \in [Conversations -> Seq(ChatEvents)]
  <2>1. CASE events' = events
    BY <2>1 DEF OneAppended, ChatInv, ChatTypes
  <2>2. CASE events' = AppendTo(c, e)
    <3>1. ~Recorded(e) => Placed(c, e)
      BY <1>4, <1>5 DEF Placed
    <3> QED
      BY <1>4, <2>2, <3>1, AppendKeeps
  <2> QED
    BY <1>1, <1>2, <1>3, <1>5, <2>1, <2>2 DEF ProjectInterrupt
<1>8. PICK next : next = [at |-> "runs", todo |-> s.todo]
  OBVIOUS
<1>9. next \in Listing /\ next.todo = s.todo /\ next.at = "runs"
  BY <1>8 DEF Listing, Carding
<1>10. client'[k] = next /\ client' \in [Clients -> Doing]
       /\ \A j \in Clients \ {k} : client'[j] = client[j]
  BY <1>1, <1>8, <1>9 DEF ProjectInterrupt, Do, ChatInv, ChatTypes, Doing
<1>11. next \notin Promoting \cup Linking \cup Paging \cup Carding
  BY <1>9 DEF Promoting, Linking, Paging, Carding
<1>12. Linked(c)' = Linked(c)
  BY <1>6 DEF Linked
<1>13. CallFits(k)'
  BY <1>5, <1>6, <1>9, <1>10, <1>11, <1>12 DEF CallFits
<1>14. ReaderFits(k)'
  BY <1>6, <1>7, ReaderKept
<1>15. ChatTypes'
  BY <1>6, <1>7, <1>10 DEF ChatInv, ChatTypes
<1> QED
  BY <1>6, <1>7, <1>10, <1>13, <1>14, <1>15, StepKeeps

\* A page goes on from the cursor and moves it past what was read.
LEMMA ReadPageKeeps ==
  ASSUME ChatInv, NEW k \in Clients, ReadPage(k)
  PROVE  ChatInv'
<1>1. PICK s \in Listing : s = client[k]
  BY StopIs DEF ReadPage, At, ChatInv, ChatTypes
<1>2. PICK c \in Conversations : c = follows[k]
  BY <1>1 DEF ChatInv, ClientsSound, CallFits
<1>3. PICK told : told = events[c]
  OBVIOUS
<1>4. told \in Seq(ChatEvents) /\ Len(told) \in Nat
  BY <1>3 DEF ChatInv, ChatTypes
<1>5. PICK after \in Nat : after = cursor[k]
  BY DEF ChatInv, ChatTypes
<1>6. after <= Len(told) /\ got[k] = SubSeq(told, 1, after)
  BY <1>2, <1>3, <1>5, ChatAssumption DEF ChatInv, ClientsSound, ReaderFits
<1>7. PICK n \in after .. Len(told) :
        n = IF Len(told) < after + PageSize THEN Len(told) ELSE after + PageSize
  BY <1>4, <1>6, ChatAssumption
<1>8. PICK page : page = SubSeq(told, after + 1, n)
  OBVIOUS
<1>9. /\ page \in Seq(ChatEvents) /\ Len(page) = n - after
      /\ SubSeq(told, 1, after) \o page = SubSeq(told, 1, n)
  <2>1. \A x \in after + 1 .. n : told[x] \in ChatEvents
    BY <1>4, <1>7
  <2>2. page \in Seq(ChatEvents)
        /\ Len(page) = IF after + 1 <= n THEN n - (after + 1) + 1 ELSE 0
    BY <1>7, <1>8, <2>1, SubSeqProperties
  <2>3. SubSeq(told, 1, after) \o SubSeq(told, after + 1, n) = SubSeq(told, 1, n)
    <3>1. /\ 1 \in 1 .. Len(told) + 1 /\ after \in 1 - 1 .. Len(told)
          /\ n \in after .. Len(told)
      BY <1>4, <1>6, <1>7
    <3> QED
      BY <1>4, <3>1, ConcatAdjacentSubSeq
  <2> QED
    BY <1>7, <1>8, <2>2, <2>3
<1>10. /\ got' = [got EXCEPT ![k] = @ \o page]
       /\ cursor' = [cursor EXCEPT ![k] = after + Len(page)]
       /\ client' = [client EXCEPT ![k] = Idle]
       /\ UNCHANGED <<home, link, events, happened, interrupt, follows>>
  BY <1>2, <1>3, <1>5, <1>7, <1>8
     DEF ReadPage, NextCursor, End, Do, chat, execution
<1>11. /\ got'[k] = SubSeq(told, 1, n) /\ cursor'[k] = n /\ client'[k] = Idle
       /\ got' \in [Clients -> Seq(ChatEvents)] /\ cursor' \in [Clients -> Nat]
       /\ client' \in [Clients -> Doing]
       /\ \A j \in Clients \ {k} :
            client'[j] = client[j] /\ cursor'[j] = cursor[j] /\ got'[j] = got[j]
  <2>1. got[k] \o page = SubSeq(told, 1, n)
    BY <1>6, <1>9
  <2>2. after + Len(page) = n
    <3>1. n \in Nat /\ after \in Nat /\ Len(page) = n - after
      BY <1>4, <1>5, <1>7, <1>9
    <3> QED
      BY <3>1
  <2>3. got[k] \o page \in Seq(ChatEvents)
    BY <1>9, ConcatProperties DEF ChatInv, ChatTypes
  <2>4. Idle \in Doing
    BY DEF Doing
  <2> QED
    BY <1>4, <1>7, <1>10, <2>1, <2>2, <2>3, <2>4 DEF ChatInv, ChatTypes
<1>12. CallFits(k)'
  BY <1>11, IdleFits
<1>13. ReaderFits(k)'
  BY <1>2, <1>3, <1>7, <1>10, <1>11, ChatAssumption DEF ReaderFits
<1>14. OneAppended /\ LinksKept
  BY <1>10, LinksQuiet DEF OneAppended
<1>15. ChatTypes'
  BY <1>10, <1>11 DEF ChatInv, ChatTypes
<1> QED
  BY <1>10, <1>11, <1>12, <1>13, <1>14, <1>15, StepKeeps

\* Every step of a client or a Run keeps the invariant.
LEMMA NextChat ==
  ASSUME ChatInv, [Next]_vars
  PROVE  ChatInv'
<1>1. ASSUME NEW m \in Messages, NEW c \in Conversations, NEW r \in Runs \cup {None},
             AppendMessage(m, c, r)
      PROVE  ChatInv'
  BY <1>1, AppendMessageKeeps
<1>2. ASSUME NEW r \in Runs, RunEvent(r) \/ Interrupt(r)
      PROVE  ChatInv'
  BY <1>2, RunKeeps
<1>3. ASSUME NEW k \in Clients, Work(k)
      PROVE  ChatInv'
  BY <1>3, PromoteKeeps, PromoteTaskKeeps, PromoteLinkKeeps, ProjectKeeps, ReadRunKeeps,
     ProjectEventKeeps, NextPageKeeps, ProjectInterruptKeeps, ReadPageKeeps DEF Work
<1>4. CASE UNCHANGED vars
  <2>1. /\ UNCHANGED <<home, link, events, goalOf, exists, happened, interrupt>>
        /\ UNCHANGED <<client, follows, cursor, got>>
    BY <1>4 DEF vars, chat, execution, reading
  <2>2. ChatTypes'
    BY <2>1 DEF ChatInv, ChatTypes
  <2>3. \A c \in Conversations : Linked(c)' = Linked(c)
    BY <2>1 DEF Linked
  <2>4. LinksSound'
    BY <2>1 DEF ChatInv, LinksSound
  <2>5. EventsSound'
    BY <2>1, <2>3 DEF ChatInv, EventsSound
  <2>6. ASSUME NEW k \in Clients PROVE CallFits(k)' /\ ReaderFits(k)'
    <3>1. CallFits(k) /\ ReaderFits(k)
      BY DEF ChatInv, ClientsSound
    <3>2. client[k] \in Listing \cup Paging \cup Carding =>
            follows[k] \in Conversations
      BY <3>1 DEF CallFits
    <3>3. CallFits(k)'
      BY <2>1, <2>3, <3>1, <3>2 DEF CallFits
    <3>4. ReaderFits(k)'
      BY <2>1, <3>1 DEF ReaderFits
    <3> QED
      BY <3>3, <3>4
  <2> QED
    BY <2>2, <2>4, <2>5, <2>6 DEF ChatInv, ClientsSound
<1> QED
  BY <1>1, <1>2, <1>3, <1>4 DEF Next

\* Whoever promotes, links, projects and reads at once, and wherever a call is
\* cut off: a Run is shown in the one conversation of its message, a client has
\* what was told there up to its cursor, and the events of a Run are told
\* once each and in order (conversation_store.py, runtime.py
\* promote_message_to_task and conversation_events).
THEOREM ChatIsSound == Spec => []ChatFollowsRuns
<1>1. ChatInv => ChatFollowsRuns
  <2> SUFFICES ASSUME ChatInv PROVE RunOwnedOnce /\ ReaderMissesNothing
    BY DEF ChatFollowsRuns
  <2>1. RunOwnedOnce
    <3>1. ASSUME NEW c \in Conversations, NEW e \in ToSet(events[c]),
                 e[1] \in {"execution", "interrupt"}
          PROVE  e[2] \in Linked(c)
      <4>1. PICK x \in DOMAIN events[c] : events[c][x] = e
        BY DEF ToSet
      <4> QED
        BY <3>1, <4>1 DEF ChatInv, EventsSound
    <3> QED
      BY <3>1 DEF RunOwnedOnce, ChatInv, LinksSound
  <2>2. ReaderMissesNothing
    BY DEF ReaderMissesNothing, ChatInv, EventsSound, ClientsSound, ReaderFits
  <2> QED
    BY <2>1, <2>2
<1>2. Init => ChatInv
  BY InitChat
<1> QED
  BY <1>1, <1>2, NextChat, PTL DEF Spec

-----------------------------------------------------------------------------
(* Session *)

AgentRuns ==
  {NoRun} \cup [phase : {"done"}, prompt : Prompts]
    \cup [phase : {"running"}, prompt : Prompts, base : Seq(Prompts), cancelled : BOOLEAN]

\* The conversation at a version.
StateAt(n) == IF n = 0 THEN <<>> ELSE history[n]

\* The versions whose last turn is this prompt.
EndsWith(p) == {i \in DOMAIN history : history[i] # <<>> /\ history[i][Len(history[i])] = p}

SessionTypes ==
  /\ saved \in [version : Nat, state : Seq(Prompts)]
  /\ state \in [Handles -> Seq(Prompts)] /\ version \in [Handles -> Nat]
  /\ active \in [Handles -> AgentRuns]
  /\ result \in [Prompts -> {"none", "completed", "failed", "cancelled"}]
  /\ history \in Seq(Seq(Prompts))

\* What a handle holds is what was saved as its version.
Snapshots ==
  /\ Len(history) = saved.version /\ saved.state = StateAt(saved.version)
  /\ \A h \in Handles : version[h] <= saved.version /\ state[h] = StateAt(version[h])

\* A run still works on the state of its handle, and its prompt is its own.
RunsApart ==
  /\ \A h \in Handles : Running(h) =>
       active[h].base = state[h] /\ result[active[h].prompt] = "none"
  /\ \A g, h \in Handles :
       Running(g) /\ Running(h) /\ active[g].prompt = active[h].prompt => g = h

Chained ==
  /\ \A i \in 1..Len(history) :
       \/ history[i] = <<>>
       \/ \E p \in Prompts :
            history[i] = Append(StateAt(i - 1), p) /\ result[p] = "completed"
  /\ \A p \in Prompts :
       /\ result[p] = "completed" => \E i : EndsWith(p) = {i}
       /\ result[p] # "completed" => EndsWith(p) = {}

SessionInv == SessionTypes /\ Snapshots /\ RunsApart /\ Chained

LEMMA SessionStarts ==
  ASSUME SessionInit PROVE SessionInv
<1>1. SessionTypes
  BY DEF SessionInit, SessionTypes, AgentRuns
<1>2. Snapshots
  BY DEF SessionInit, Snapshots, StateAt
<1>3. RunsApart
  BY DEF SessionInit, RunsApart, Running, NoRun
<1>4. Chained
  BY DEF SessionInit, Chained, EndsWith
<1> QED
  BY <1>1, <1>2, <1>3, <1>4 DEF SessionInv

\* One more version leaves those before it as they are.
LEMMA OneMoreVersion ==
  ASSUME history \in Seq(Seq(Prompts)), NEW s \in Seq(Prompts), history' = Append(history, s)
  PROVE  /\ history' \in Seq(Seq(Prompts)) /\ Len(history') = Len(history) + 1
         /\ Len(history) \in Nat
         /\ \A i \in 1..Len(history) : history'[i] = history[i]
         /\ history'[Len(history) + 1] = s
         /\ \A n \in 0..Len(history) : StateAt(n)' = StateAt(n)
         /\ \A p : EndsWith(p)' = EndsWith(p) \cup
              IF s # <<>> /\ s[Len(s)] = p THEN {Len(history) + 1} ELSE {}
<1>1. /\ history' \in Seq(Seq(Prompts)) /\ Len(history') = Len(history) + 1
      /\ Len(history) \in Nat
      /\ \A i \in 1..Len(history) : history'[i] = history[i]
      /\ history'[Len(history) + 1] = s
  OBVIOUS
<1>2. \A n \in 0..Len(history) : StateAt(n)' = StateAt(n)
  BY <1>1 DEF StateAt
<1>3. DOMAIN history = 1..Len(history) /\ DOMAIN history' = 1..(Len(history) + 1)
  BY <1>1
<1>4. ASSUME NEW p
      PROVE  EndsWith(p)' = EndsWith(p) \cup
               IF s # <<>> /\ s[Len(s)] = p THEN {Len(history) + 1} ELSE {}
  <2>1. \A i \in 1..Len(history) : i \in EndsWith(p)' <=> i \in EndsWith(p)
    BY <1>1, <1>3 DEF EndsWith
  <2>2. Len(history) + 1 \in EndsWith(p)' <=> s # <<>> /\ s[Len(s)] = p
    BY <1>1, <1>3 DEF EndsWith
  <2>3. EndsWith(p) \subseteq 1..Len(history)
    BY <1>3 DEF EndsWith
  <2>4. EndsWith(p)' \subseteq 1..(Len(history) + 1)
    BY <1>3 DEF EndsWith
  <2>5. \A i : i \in 1..(Len(history) + 1) <=> i \in 1..Len(history) \/ i = Len(history) + 1
    BY <1>1
  <2>6. Len(history) + 1 \notin 1..Len(history)
    BY <1>1
  <2>7. PICK new : new = Len(history) + 1
    OBVIOUS
  <2>8. PICK old : old = 1..Len(history)
    OBVIOUS
  <2>9. PICK all : all = 1..(Len(history) + 1)
    OBVIOUS
  <2>10. /\ \A i \in old : i \in EndsWith(p)' <=> i \in EndsWith(p)
         /\ new \in EndsWith(p)' <=> s # <<>> /\ s[Len(s)] = p
         /\ EndsWith(p) \subseteq old /\ EndsWith(p)' \subseteq all
         /\ \A i : i \in all <=> i \in old \/ i = new
         /\ new \notin old
    BY <2>1, <2>2, <2>3, <2>4, <2>5, <2>6, <2>7, <2>8, <2>9
  <2> QED
    BY <2>7, <2>10
<1> QED
  BY <1>1, <1>2, <1>4

\* _commit_state, after the compare-and-swap.
LEMMA CommitKeepsSnapshots ==
  ASSUME SessionTypes, Snapshots, NEW h \in Handles, NEW s \in Seq(Prompts),
         Current(h), Commit(h, s)
  PROVE  /\ Snapshots'
         /\ saved' \in [version : Nat, state : Seq(Prompts)]
         /\ state' \in [Handles -> Seq(Prompts)] /\ version' \in [Handles -> Nat]
         /\ history' = Append(history, s) /\ history' \in Seq(Seq(Prompts))
<1>1. /\ saved' = [version |-> version[h] + 1, state |-> s]
      /\ history' = Append(history, s)
      /\ version' = [version EXCEPT ![h] = @ + 1]
      /\ state' = [state EXCEPT ![h] = s]
      /\ saved.version = version[h] /\ Len(history) = saved.version
      /\ version[h] \in Nat /\ history \in Seq(Seq(Prompts))
  BY DEF Commit, Current, SessionTypes, Snapshots
<1>2. /\ saved' \in [version : Nat, state : Seq(Prompts)]
      /\ state' \in [Handles -> Seq(Prompts)] /\ version' \in [Handles -> Nat]
  BY <1>1 DEF SessionTypes
<1>3. /\ history' \in Seq(Seq(Prompts)) /\ Len(history') = Len(history) + 1
      /\ Len(history) \in Nat
      /\ history'[Len(history) + 1] = s
      /\ \A n \in 0..Len(history) : StateAt(n)' = StateAt(n)
  BY <1>1, OneMoreVersion
<1>4. PICK last : last = version[h] + 1
  OBVIOUS
<1>5. saved'.version = last /\ saved'.state = s /\ Len(history') = last
      /\ last \in Nat /\ last = Len(history) + 1 /\ last # 0 /\ history'[last] = s
  BY <1>1, <1>3, <1>4
<1>6. \A n : n = last => StateAt(n)' = s
  BY <1>5 DEF StateAt
<1>7. Len(history)' = saved'.version /\ saved'.state = StateAt(saved.version)'
  BY <1>5, <1>6 DEF StateAt
<1>8. ASSUME NEW g \in Handles
      PROVE  version'[g] <= saved'.version /\ state'[g] = StateAt(version[g])'
  <2>1. CASE g = h
    <3>1. version'[g] = last /\ state'[g] = s
      BY <1>1, <1>4, <2>1 DEF SessionTypes
    <3> QED
      BY <1>5, <3>1 DEF StateAt
  <2>2. CASE g # h
    <3>1. version'[g] = version[g] /\ state'[g] = state[g]
      BY <1>1, <2>2 DEF SessionTypes
    <3>2. version[g] \in Nat /\ version[g] <= saved.version /\ state[g] = StateAt(version[g])
      BY DEF SessionTypes, Snapshots
    <3>3. PICK n : n = version[g]
      OBVIOUS
    <3>4. n \in 0..Len(history) /\ n = version'[g]
      BY <1>1, <3>1, <3>2, <3>3
    <3>5. StateAt(n)' = StateAt(n)
      BY <1>3, <3>4
    <3>6. version'[g] <= saved'.version
      BY <1>1, <1>5, <3>1, <3>2
    <3> QED
      BY <3>1, <3>2, <3>3, <3>4, <3>5, <3>6 DEF StateAt
  <2> QED
    BY <2>1, <2>2
<1> QED
  BY <1>1, <1>2, <1>3, <1>7, <1>8 DEF Snapshots

\* Session.load().
LEMMA OpenKeeps ==
  ASSUME SessionInv, NEW h \in Handles, Open(h) PROVE SessionInv'
<1>1. /\ ~Running(h) /\ UNCHANGED <<saved, result, history>>
      /\ state' = [state EXCEPT ![h] = saved.state]
      /\ version' = [version EXCEPT ![h] = saved.version]
      /\ active' = [active EXCEPT ![h] = NoRun]
  BY DEF Open
<1>2. SessionTypes'
  BY <1>1 DEF SessionInv, SessionTypes, AgentRuns
<1>3. Snapshots'
  BY <1>1 DEF SessionInv, SessionTypes, Snapshots, StateAt
<1>4. RunsApart'
  BY <1>1 DEF SessionInv, SessionTypes, RunsApart, Running, NoRun
<1>5. Chained'
  BY <1>1 DEF SessionInv, Chained, EndsWith, StateAt
<1> QED
  BY <1>2, <1>3, <1>4, <1>5 DEF SessionInv

\* start() and cancel().
LEMMA StartKeeps ==
  ASSUME SessionInv, NEW h \in Handles, NEW p \in Prompts, Start(h, p) PROVE SessionInv'
<1>1. /\ ~Running(h) /\ UNCHANGED <<saved, state, version, result, history>>
      /\ result[p] = "none"
      /\ \A g \in Handles : Running(g) => active[g].prompt # p
      /\ active' = [active EXCEPT ![h] =
           [phase |-> "running", prompt |-> p, base |-> state[h], cancelled |-> FALSE]]
  BY DEF Start
<1>2. SessionTypes'
  <2>1. [phase |-> "running", prompt |-> p, base |-> state[h], cancelled |-> FALSE] \in AgentRuns
    BY DEF AgentRuns, SessionInv, SessionTypes
  <2> QED
    BY <1>1, <2>1 DEF SessionInv, SessionTypes
<1>3. Snapshots'
  BY <1>1 DEF SessionInv, Snapshots, StateAt
<1>4. RunsApart'
  BY <1>1 DEF SessionInv, SessionTypes, RunsApart, Running
<1>5. Chained'
  BY <1>1 DEF SessionInv, Chained, EndsWith, StateAt
<1> QED
  BY <1>2, <1>3, <1>4, <1>5 DEF SessionInv

LEMMA CancelRunKeeps ==
  ASSUME SessionInv, NEW h \in Handles, CancelRun(h) PROVE SessionInv'
<1>1. /\ Running(h) /\ UNCHANGED <<saved, state, version, result, history>>
      /\ active' = [active EXCEPT ![h].cancelled = TRUE]
  BY DEF CancelRun
<1>2. /\ active[h] \in AgentRuns /\ active[h].phase = "running"
  BY <1>1 DEF Running, SessionInv, SessionTypes
<1>3. PICK p \in Prompts, b \in Seq(Prompts), c \in BOOLEAN :
        active[h] = [phase |-> "running", prompt |-> p, base |-> b, cancelled |-> c]
  BY <1>2 DEF AgentRuns, NoRun
<1>4. [active[h] EXCEPT !.cancelled = TRUE] =
        [phase |-> "running", prompt |-> p, base |-> b, cancelled |-> TRUE]
  <2>1. PICK r : r = active[h]
    OBVIOUS
  <2>2. r = [phase |-> "running", prompt |-> p, base |-> b, cancelled |-> c]
    BY <1>3, <2>1
  <2>3. PICK yes : yes = TRUE
    OBVIOUS
  <2>4. [r EXCEPT !.cancelled = yes] =
          [phase |-> "running", prompt |-> p, base |-> b, cancelled |-> yes]
    BY <2>2
  <2> QED
    BY <2>1, <2>3, <2>4
<1>5. active' = [active EXCEPT ![h] =
        [phase |-> "running", prompt |-> p, base |-> b, cancelled |-> TRUE]]
  BY <1>1, <1>4
<1>6. SessionTypes'
  <2>1. [phase |-> "running", prompt |-> p, base |-> b, cancelled |-> TRUE] \in AgentRuns
    BY DEF AgentRuns
  <2> QED
    BY <1>1, <1>5, <2>1 DEF SessionInv, SessionTypes
<1>7. Snapshots'
  BY <1>1 DEF SessionInv, Snapshots, StateAt
<1>8. RunsApart'
  <2>1. \A g \in Handles :
          /\ Running(g)' <=> Running(g)
          /\ Running(g) => active'[g].prompt = active[g].prompt /\ active'[g].base = active[g].base
    BY <1>3, <1>5 DEF SessionInv, SessionTypes, Running
  <2> QED
    BY <1>1, <2>1 DEF SessionInv, RunsApart
<1>9. Chained'
  BY <1>1 DEF SessionInv, Chained, EndsWith, StateAt
<1> QED
  BY <1>6, <1>7, <1>8, <1>9 DEF SessionInv

\* The run of a handle ends: its prompt was asked in no other one.
LEMMA FinishKeepsApart ==
  ASSUME SessionInv, NEW h \in Handles, Running(h),
         NEW how \in {"completed", "failed", "cancelled"}, Finish(h, how),
         \A g \in Handles \ {h} : state'[g] = state[g]
  PROVE  /\ RunsApart'
         /\ active[h].prompt \in Prompts /\ result[active[h].prompt] = "none"
         /\ result' = [result EXCEPT ![active[h].prompt] = how]
         /\ active' \in [Handles -> AgentRuns]
         /\ result' \in [Prompts -> {"none", "completed", "failed", "cancelled"}]
<1>1. /\ active' = [active EXCEPT ![h] = [phase |-> "done", prompt |-> @.prompt]]
      /\ result' = [result EXCEPT ![active[h].prompt] = how]
  BY DEF Finish
<1>2. PICK q : q = active[h].prompt
  OBVIOUS
<1>3. q \in Prompts /\ result[q] = "none"
  <2>1. active[h] \in AgentRuns /\ active[h].phase = "running"
    BY DEF SessionInv, SessionTypes, Running
  <2>2. active[h].prompt \in Prompts
    BY <2>1 DEF AgentRuns, NoRun
  <2> QED
    BY <1>2, <2>2 DEF SessionInv, RunsApart
<1>4. [phase |-> "done", prompt |-> q] \in AgentRuns
  BY <1>3 DEF AgentRuns
<1>5. active' = [active EXCEPT ![h] = [phase |-> "done", prompt |-> q]]
      /\ result' = [result EXCEPT ![q] = how]
  BY <1>1, <1>2
<1>6. /\ active' \in [Handles -> AgentRuns]
      /\ result' \in [Prompts -> {"none", "completed", "failed", "cancelled"}]
  BY <1>3, <1>4, <1>5 DEF SessionInv, SessionTypes
<1>7. ~Running(h)'
  BY <1>5 DEF Running, SessionInv, SessionTypes
<1>8. \A g \in Handles \ {h} : active'[g] = active[g] /\ (Running(g)' <=> Running(g))
  BY <1>5 DEF Running, SessionInv, SessionTypes
<1>9. ASSUME NEW g \in Handles \ {h}, Running(g)
      PROVE  result'[active[g].prompt] = "none"
  <2>1. active[g].prompt # q /\ result[active[g].prompt] = "none"
    BY <1>2, <1>9 DEF SessionInv, RunsApart
  <2> QED
    BY <1>3, <1>5, <2>1 DEF SessionInv, SessionTypes
<1>10. RunsApart'
  <2>1. ASSUME NEW g \in Handles, Running(g)'
        PROVE  active'[g].base = state'[g] /\ result'[active'[g].prompt] = "none"
    BY <1>7, <1>8, <1>9, <2>1 DEF SessionInv, RunsApart
  <2>2. ASSUME NEW f \in Handles, NEW g \in Handles, Running(f)', Running(g)',
               active'[f].prompt = active'[g].prompt
        PROVE  f = g
    BY <1>7, <1>8, <2>2 DEF SessionInv, RunsApart
  <2> QED
    BY <2>1, <2>2 DEF RunsApart
<1> QED
  BY <1>2, <1>3, <1>5, <1>6, <1>10

\* A run that fails or is cancelled has saved nothing, and its prompt ends no
\* version.
LEMMA UnsavedKeeps ==
  ASSUME SessionInv, NEW h \in Handles, Running(h), NEW how \in {"failed", "cancelled"},
         Finish(h, how), UNCHANGED <<saved, state, version, history>>
  PROVE  SessionInv'
<1>1. /\ RunsApart' /\ active[h].prompt \in Prompts /\ result[active[h].prompt] = "none"
      /\ result' = [result EXCEPT ![active[h].prompt] = how]
      /\ active' \in [Handles -> AgentRuns]
      /\ result' \in [Prompts -> {"none", "completed", "failed", "cancelled"}]
  BY FinishKeepsApart
<1>2. SessionTypes'
  BY <1>1 DEF SessionInv, SessionTypes
<1>3. Snapshots'
  BY DEF SessionInv, Snapshots, StateAt
<1>4. \A p \in Prompts : result'[p] = "completed" <=> result[p] = "completed"
  BY <1>1 DEF SessionInv, SessionTypes
<1>5. Chained'
  BY <1>4 DEF SessionInv, Chained, EndsWith, StateAt
<1> QED
  BY <1>1, <1>2, <1>3, <1>5 DEF SessionInv

\* Session.reset().
LEMMA ResetKeeps ==
  ASSUME SessionInv, NEW h \in Handles, Reset(h) PROVE SessionInv'
<1>1. /\ ~Running(h) /\ UNCHANGED <<active, result>> /\ Current(h) /\ Commit(h, <<>>)
      /\ <<>> \in Seq(Prompts)
  BY DEF Reset
<1>2. /\ Snapshots'
      /\ saved' \in [version : Nat, state : Seq(Prompts)]
      /\ state' \in [Handles -> Seq(Prompts)] /\ version' \in [Handles -> Nat]
      /\ history' = Append(history, <<>>) /\ history' \in Seq(Seq(Prompts))
  BY <1>1, CommitKeepsSnapshots DEF SessionInv
<1>3. SessionTypes'
  BY <1>1, <1>2 DEF SessionInv, SessionTypes
<1>4. RunsApart'
  <2>1. state' = [state EXCEPT ![h] = <<>>]
    BY <1>1 DEF Commit
  <2>2. \A g \in Handles : Running(g) => state'[g] = state[g]
    BY <1>1, <2>1 DEF SessionInv, SessionTypes
  <2> QED
    BY <1>1, <2>2 DEF SessionInv, RunsApart, Running
<1>5. Chained'
  <2>1. /\ Len(history') = Len(history) + 1 /\ Len(history) \in Nat
        /\ \A i \in 1..Len(history) : history'[i] = history[i]
        /\ history'[Len(history) + 1] = <<>>
        /\ \A n \in 0..Len(history) : StateAt(n)' = StateAt(n)
        /\ \A p : EndsWith(p)' = EndsWith(p)
    <3>1. PICK s \in Seq(Prompts) : s = <<>>
      BY <1>1
    <3>2. history \in Seq(Seq(Prompts)) /\ history' = Append(history, s)
      BY <1>2, <3>1 DEF SessionInv, SessionTypes
    <3>3. /\ Len(history') = Len(history) + 1 /\ Len(history) \in Nat
          /\ \A i \in 1..Len(history) : history'[i] = history[i]
          /\ history'[Len(history) + 1] = s
          /\ \A n \in 0..Len(history) : StateAt(n)' = StateAt(n)
          /\ \A p : EndsWith(p)' = EndsWith(p) \cup
               IF s # <<>> /\ s[Len(s)] = p THEN {Len(history) + 1} ELSE {}
      BY <3>2, OneMoreVersion
    <3>4. \A p : EndsWith(p)' = EndsWith(p) \cup {}
      BY <3>1, <3>3
    <3>5. \A p : EndsWith(p)' = EndsWith(p)
      BY <3>4
    <3> QED
      BY <3>1, <3>3, <3>5
  <2>2. ASSUME NEW i \in 1..Len(history')
        PROVE  \/ history'[i] = <<>>
               \/ \E p \in Prompts :
                    history'[i] = Append(StateAt(i - 1)', p) /\ result[p] = "completed"
    <3>1. CASE i = Len(history) + 1
      BY <2>1, <3>1
    <3>2. CASE i # Len(history) + 1
      <4>1. i \in 1..Len(history) /\ i - 1 \in 0..Len(history)
        BY <2>1, <3>2
      <4>2. PICK j : j = i - 1
        OBVIOUS
      <4>3. StateAt(j)' = StateAt(j) /\ history'[i] = history[i]
        BY <2>1, <4>1, <4>2
      <4>4. \/ history[i] = <<>>
            \/ \E p \in Prompts : history[i] = Append(StateAt(j), p) /\ result[p] = "completed"
        BY <4>1, <4>2 DEF SessionInv, Chained
      <4> QED
        BY <4>2, <4>3, <4>4
    <3> QED
      BY <3>1, <3>2
  <2> QED
    BY <1>1, <2>1, <2>2 DEF SessionInv, Chained
<1> QED
  BY <1>2, <1>3, <1>4, <1>5 DEF SessionInv

\* The agent's result is committed: the turn follows the last version saved.
LEMMA SavedKeeps ==
  ASSUME SessionInv, NEW h \in Handles, Running(h), Current(h),
         Commit(h, Append(active[h].base, active[h].prompt)), Finish(h, "completed")
  PROVE  SessionInv'
<1>1. PICK q \in Prompts, b \in Seq(Prompts) :
        /\ q = active[h].prompt /\ b = active[h].base
        /\ b = state[h]
  <2>1. active[h] \in AgentRuns /\ active[h].phase = "running"
    BY DEF SessionInv, SessionTypes, Running
  <2>2. active[h].prompt \in Prompts /\ active[h].base \in Seq(Prompts)
    BY <2>1 DEF AgentRuns, NoRun
  <2> QED
    BY <2>2 DEF SessionInv, RunsApart
<1>2. PICK s \in Seq(Prompts) : s = Append(b, q)
  <2>1. Append(b, q) \in Seq(Prompts)
    OBVIOUS
  <2> QED
    BY <2>1
<1>3. s # <<>> /\ s[Len(s)] = q /\ Commit(h, s)
  BY <1>1, <1>2
<1>4. /\ Snapshots'
      /\ saved' \in [version : Nat, state : Seq(Prompts)]
      /\ state' \in [Handles -> Seq(Prompts)] /\ version' \in [Handles -> Nat]
      /\ history' = Append(history, s) /\ history' \in Seq(Seq(Prompts))
  BY <1>3, CommitKeepsSnapshots DEF SessionInv
<1>5. /\ RunsApart' /\ result[q] = "none" /\ result' = [result EXCEPT ![q] = "completed"]
      /\ active' \in [Handles -> AgentRuns]
      /\ result' \in [Prompts -> {"none", "completed", "failed", "cancelled"}]
  <2>1. \A g \in Handles \ {h} : state'[g] = state[g]
    BY <1>3 DEF Commit, SessionInv, SessionTypes
  <2> QED
    BY <1>1, <2>1, FinishKeepsApart
<1>6. SessionTypes'
  BY <1>4, <1>5 DEF SessionTypes
<1>7. b = StateAt(Len(history))
  BY <1>1 DEF SessionInv, Snapshots, Current
<1>8. Chained'
  <2>1. /\ Len(history') = Len(history) + 1 /\ Len(history) \in Nat
        /\ \A i \in 1..Len(history) : history'[i] = history[i]
        /\ history'[Len(history) + 1] = s
        /\ \A n \in 0..Len(history) : StateAt(n)' = StateAt(n)
        /\ \A p : EndsWith(p)' = EndsWith(p) \cup
             IF s # <<>> /\ s[Len(s)] = p THEN {Len(history) + 1} ELSE {}
    BY <1>4, OneMoreVersion DEF SessionInv, SessionTypes
  <2>2. /\ result'[q] = "completed"
        /\ \A p \in Prompts \ {q} : result'[p] = result[p]
    BY <1>5 DEF SessionInv, SessionTypes
  <2>3. ASSUME NEW i \in 1..Len(history')
        PROVE  \/ history'[i] = <<>>
               \/ \E p \in Prompts :
                    history'[i] = Append(StateAt(i - 1)', p) /\ result'[p] = "completed"
    <3>1. PICK j : j = i - 1
      OBVIOUS
    <3>2. CASE i = Len(history) + 1
      <4>1. j = Len(history) /\ j \in 0..Len(history)
        BY <2>1, <3>1, <3>2
      <4>2. StateAt(j)' = StateAt(j) /\ b = StateAt(j)
        BY <1>7, <2>1, <4>1
      <4> QED
        BY <1>2, <2>1, <2>2, <3>1, <3>2, <4>2
    <3>3. CASE i # Len(history) + 1
      <4>1. i \in 1..Len(history) /\ j \in 0..Len(history)
        BY <2>1, <3>1, <3>3
      <4>2. StateAt(j)' = StateAt(j) /\ history'[i] = history[i]
        BY <2>1, <4>1
      <4>3. \/ history[i] = <<>>
            \/ \E p \in Prompts : history[i] = Append(StateAt(j), p) /\ result[p] = "completed"
        BY <3>1, <4>1 DEF SessionInv, Chained
      <4> QED
        BY <2>2, <3>1, <4>2, <4>3
    <3> QED
      BY <3>2, <3>3
  <2>4. ASSUME NEW p \in Prompts
        PROVE  /\ result'[p] = "completed" => \E i : EndsWith(p)' = {i}
               /\ result'[p] # "completed" => EndsWith(p)' = {}
    <3>1. /\ result[p] = "completed" => \E i : EndsWith(p) = {i}
          /\ result[p] # "completed" => EndsWith(p) = {}
      BY DEF SessionInv, Chained
    <3>2. CASE p = q
      <4>1. EndsWith(p) = {}
        BY <1>5, <3>1, <3>2
      <4>2. EndsWith(p)' = EndsWith(p) \cup {Len(history) + 1}
        BY <1>3, <2>1, <3>2
      <4>3. EndsWith(p)' = {Len(history) + 1}
        BY <4>1, <4>2
      <4> QED
        BY <2>2, <3>2, <4>3
    <3>3. CASE p # q
      <4>1. EndsWith(p)' = EndsWith(p) \cup {}
        BY <1>3, <2>1, <3>3
      <4>2. result'[p] = result[p]
        BY <2>2, <3>3
      <4>3. EndsWith(p)' = EndsWith(p)
        BY <4>1
      <4> QED
        BY <3>1, <4>2, <4>3
    <3> QED
      BY <3>2, <3>3
  <2> QED
    BY <2>3, <2>4 DEF Chained
<1> QED
  BY <1>4, <1>5, <1>6, <1>8 DEF SessionInv

\* What the run checks follows.
LEMMA ChainFollows ==
  ASSUME SessionInv PROVE TurnsAreChained
<1>1. Len(history) = saved.version /\ Len(history) \in Nat
      /\ DOMAIN history = 1..Len(history)
  BY DEF SessionInv, SessionTypes, Snapshots
<1>2. ASSUME NEW i \in 1..Len(history)
      PROVE  StateAt(i - 1) = IF i = 1 THEN <<>> ELSE history[i - 1]
  BY <1>1 DEF StateAt
<1>3. ASSUME NEW p \in Prompts
      PROVE  result[p] = "completed" <=> Cardinality(EndsWith(p)) = 1
  <2>1. result[p] = "completed" => \E i : EndsWith(p) = {i}
    BY DEF SessionInv, Chained
  <2>2. result[p] # "completed" => EndsWith(p) = {}
    BY DEF SessionInv, Chained
  <2> QED
    BY <2>1, <2>2, FS_EmptySet, FS_Singleton
<1>4. \A i \in DOMAIN history :
        LET before == IF i = 1 THEN <<>> ELSE history[i - 1] IN
        \/ history[i] = <<>>
        \/ \E p \in Prompts : history[i] = Append(before, p) /\ result[p] = "completed"
  <2>1. \A i \in 1..Len(history) :
          \/ history[i] = <<>>
          \/ \E p \in Prompts :
               history[i] = Append(StateAt(i - 1), p) /\ result[p] = "completed"
    BY DEF SessionInv, Chained
  <2> QED
    BY <1>1, <1>2, <2>1
<1>5. \A p \in Prompts :
        result[p] = "completed" <=>
          Cardinality({i \in DOMAIN history :
                         history[i] # <<>> /\ history[i][Len(history[i])] = p}) = 1
  BY <1>3 DEF EndsWith
<1> QED
  BY <1>1, <1>4, <1>5 DEF TurnsAreChained

\* conversation.py Session and RunHandle over SQLiteSessionStore.save, of any
\* handles and prompts: a turn is completed if and only if it is saved, once,
\* after everything that was saved before it.
THEOREM TurnsStayChained ==
  SessionSpec => []TurnsAreChained
<1>1. SessionInit => SessionInv
  BY SessionStarts
<1>2. SessionInv /\ [SessionNext]_sessionVars => SessionInv'
  <2> SUFFICES ASSUME SessionInv, [SessionNext]_sessionVars PROVE SessionInv'
    OBVIOUS
  <2>1. CASE UNCHANGED sessionVars
    <3>1. SessionTypes'
      BY <2>1 DEF sessionVars, SessionInv, SessionTypes
    <3>2. Snapshots'
      BY <2>1 DEF sessionVars, SessionInv, Snapshots, StateAt
    <3>3. RunsApart'
      BY <2>1 DEF sessionVars, SessionInv, RunsApart, Running
    <3>4. Chained'
      BY <2>1 DEF sessionVars, SessionInv, Chained, EndsWith, StateAt
    <3> QED
      BY <3>1, <3>2, <3>3, <3>4 DEF SessionInv
  <2>2. ASSUME NEW h \in Handles, Open(h) \/ Reset(h) \/ CancelRun(h) PROVE SessionInv'
    BY <2>2, OpenKeeps, ResetKeeps, CancelRunKeeps
  <2>3. ASSUME NEW h \in Handles, AgentEnds(h) PROVE SessionInv'
    BY <2>3, SavedKeeps, UnsavedKeeps DEF AgentEnds
  <2>4. ASSUME NEW h \in Handles, AgentBreaks(h) \/ Withdrawn(h) PROVE SessionInv'
    BY <2>4, UnsavedKeeps DEF AgentBreaks, Withdrawn
  <2>5. ASSUME NEW h \in Handles, NEW p \in Prompts, Start(h, p) PROVE SessionInv'
    BY <2>5, StartKeeps
  <2> QED
    BY <2>1, <2>2, <2>3, <2>4, <2>5 DEF SessionNext
<1>3. SessionInv => TurnsAreChained
  BY ChainFollows
<1> QED
  BY <1>1, <1>2, <1>3, PTL DEF SessionSpec

-----------------------------------------------------------------------------
(* PolicyStore *)

\* What is promised of a delegation, from the moment its identities are stored.
Backed(g) ==
  /\ scopes[g.grantor] # Absent /\ scopes[g.delegate] # Absent
  /\ g.by # System => \A s \in Scopes : Allows(g.scopes, s) => Allows(scopes[g.grantor], s)

Entries(kind, d) == {e \in audit : e[1] = kind /\ e[2] = d}

PolicyTypes ==
  /\ scopes \in [Identities -> Grants \cup {Absent}]
  /\ delegated \in [Delegations -> Puts \cup {Absent}]
  /\ putting \in [Processes -> Puts \cup {Absent}]
  /\ revoked \subseteq Delegations

\* The delegation a client is still to insert is as good as one that is stored.
PutsBacked ==
  /\ \A d \in Delegations : delegated[d] # Absent => Backed(delegated[d])
  /\ \A c \in Processes : putting[c] # Absent => Backed(putting[c])

AuditTells ==
  \A d \in Delegations :
    /\ Entries("delegated", d) =
         IF delegated[d] = Absent THEN {} ELSE {<<"delegated", d, delegated[d].by>>}
    /\ d \notin revoked => Entries("revoked", d) = {}
    /\ d \in revoked => \E by : Entries("revoked", d) = {<<"revoked", d, by>>}

PolicyInv == PolicyTypes /\ PutsBacked /\ AuditTells

\* Who may grant every scope of a set is allowed what the set allows.
LEMMA ScopesCover ==
  ASSUME NEW held, NEW s, \A x \in s : Allows(held, x), NEW y, Allows(s, y)
  PROVE  Allows(held, y)
<1>1. PICK x \in s : Covers(x, y)
  BY DEF Allows
<1>2. PICK g \in held : Covers(g, x)
  BY DEF Allows
<1>3. Covers(g, y)
  BY <1>1, <1>2 DEF Covers
<1> QED
  BY <1>3 DEF Allows

\* An identity that is stored stays as it is, and so does what it backs.
LEMMA BackedStays ==
  ASSUME PolicyTypes, scopes' \in [Identities -> Grants \cup {Absent}],
         \A i \in Identities : scopes[i] # Absent => scopes'[i] = scopes[i],
         NEW g \in Puts, Backed(g)
  PROVE  Backed(g)'
<1>1. g.grantor \in Identities /\ g.delegate \in Identities
  BY DEF Puts
<1> QED
  BY <1>1 DEF Backed

\* Entries about identities are about no delegation.
LEMMA IdentitiesAudited ==
  ASSUME NEW more, \A e \in more : \E i, by : e = <<"identity", i, by>>,
         audit' = audit \cup more, AuditTells, UNCHANGED <<delegated, revoked>>
  PROVE  AuditTells'
<1>1. \A e \in more : e[1] = "identity"
  OBVIOUS
<1>2. ASSUME NEW d \in Delegations, NEW kind \in {"delegated", "revoked"}
      PROVE  Entries(kind, d)' = Entries(kind, d)
  BY <1>1 DEF Entries
<1> QED
  BY <1>2 DEF AuditTells

LEMMA PolicyStarts ==
  ASSUME AbsentIsApart, PolicyInit
  PROVE  PolicyInv
<1>1. PolicyTypes
  BY DEF PolicyInit, PolicyTypes
<1>2. PutsBacked
  BY DEF PolicyInit, PutsBacked
<1>3. AuditTells
  BY DEF PolicyInit, AuditTells, Entries
<1> QED
  BY <1>1, <1>2, <1>3 DEF PolicyInv

\* put_identity.
LEMMA PutIdentityKeeps ==
  ASSUME PolicyInv, NEW i \in Identities, NEW s \in Grants, NEW by, PutIdentity(i, s, by)
  PROVE  PolicyInv'
<1>1. /\ scopes' = [scopes EXCEPT ![i] = s] /\ scopes[i] \in {Absent, s}
      /\ UNCHANGED <<delegated, revoked, putting>>
  BY DEF PutIdentity, Compatible
<1>2. PolicyTypes'
  BY <1>1 DEF PolicyInv, PolicyTypes
<1>3. \A j \in Identities : scopes[j] # Absent => scopes'[j] = scopes[j]
  BY <1>1 DEF PolicyInv, PolicyTypes
<1>4. PutsBacked'
  <2>1. \A g \in Puts : Backed(g) => Backed(g)'
    BY <1>2, <1>3, BackedStays DEF PolicyInv, PolicyTypes
  <2> QED
    BY <1>1, <2>1 DEF PolicyInv, PolicyTypes, PutsBacked
<1>5. AuditTells'
  <2>1. PICK more : more = IF scopes[i] = s THEN {} ELSE {<<"identity", i, by>>}
    OBVIOUS
  <2>2. audit' = audit \cup more
    BY <2>1 DEF PutIdentity
  <2>3. \A e \in more : \E k, b : e = <<"identity", k, b>>
    BY <2>1
  <2> QED
    BY <1>1, <2>2, <2>3, IdentitiesAudited DEF PolicyInv
<1> QED
  BY <1>2, <1>4, <1>5 DEF PolicyInv

\* put_delegation as far as its identities: what it is going to insert is backed
\* by them.
LEMMA BeginPutKeeps ==
  ASSUME AbsentIsApart, PolicyInv, NEW c \in Processes, NEW d \in Delegations,
         NEW g \in Identities, NEW to \in Identities, NEW claimed \in Grants, NEW held \in Grants,
         NEW s \in Grants, NEW by \in {g, System}, BeginPut(c, d, g, claimed, to, held, s, by)
  PROVE  PolicyInv'
<1> DEFINE fits == Compatible(to, held) /\ (to = g => held = claimed)
           put == IF fits THEN {g, to} ELSE {g}
           made == [id |-> d, grantor |-> g, delegate |-> to, scopes |-> s, by |-> by]
<1>1. /\ MayGrant(by, claimed, s) /\ scopes[g] \in {Absent, claimed}
      /\ scopes' = [i \in Identities |->
                      IF i = g THEN claimed ELSE IF i \in put THEN held ELSE scopes[i]]
      /\ audit' = audit \cup {<<"identity", i, by>> : i \in {j \in put : scopes[j] = Absent}}
      /\ putting' = IF fits THEN [putting EXCEPT ![c] = made] ELSE putting
      /\ UNCHANGED <<delegated, revoked>>
  BY DEF BeginPut, Compatible
<1>2. made \in Puts /\ g \in Identities /\ to \in Identities
  BY DEF Puts
<1>3. scopes' \in [Identities -> Grants \cup {Absent}]
  BY <1>1 DEF PolicyInv, PolicyTypes
<1>4. \A j \in Identities : scopes[j] # Absent => scopes'[j] = scopes[j]
  <2>1. ASSUME NEW j \in Identities, scopes[j] # Absent, j # g, j \in put
        PROVE  scopes[j] = held
    <3>1. j = to /\ fits
      BY <2>1
    <3> QED
      BY <2>1, <3>1 DEF Compatible
  <2> QED
    BY <1>1, <2>1
<1>5. PolicyTypes'
  <2>1. putting' \in [Processes -> Puts \cup {Absent}]
    <3>1. CASE fits
      BY <1>1, <1>2, <3>1 DEF PolicyInv, PolicyTypes
    <3>2. CASE ~fits
      BY <1>1, <3>2 DEF PolicyInv, PolicyTypes
    <3> QED
      BY <3>1, <3>2
  <2> QED
    BY <1>1, <1>3, <2>1 DEF PolicyInv, PolicyTypes
<1>6. fits => Backed(made)'
  <2> SUFFICES ASSUME fits PROVE Backed(made)'
    OBVIOUS
  <2>1. scopes'[g] = claimed /\ scopes'[to] \in {claimed, held}
    BY <1>1, <1>2
  <2>2. made.grantor = g /\ made.delegate = to /\ made.scopes = s /\ made.by = by
    OBVIOUS
  <2>3. claimed # Absent /\ held # Absent
    BY DEF AbsentIsApart
  <2>4. by # System => \A y \in Scopes : Allows(s, y) => Allows(claimed, y)
    <3>1. by # System => \A x \in s : Allows(claimed, x)
      BY <1>1 DEF MayGrant
    <3> QED
      BY <3>1, ScopesCover
  <2> QED
    BY <2>1, <2>2, <2>3, <2>4 DEF Backed
<1>7. PutsBacked'
  <2>1. \A x \in Puts : Backed(x) => Backed(x)'
    BY <1>3, <1>4, BackedStays DEF PolicyInv
  <2>2. \A k \in Delegations : delegated'[k] # Absent => Backed(delegated[k])'
    BY <1>1, <2>1 DEF PolicyInv, PolicyTypes, PutsBacked
  <2>3. \A k \in Processes : putting'[k] # Absent => Backed(putting[k])'
    <3>1. \A k \in Processes : putting[k] # Absent => Backed(putting[k])
      BY DEF PolicyInv, PutsBacked
    <3>2. ASSUME NEW k \in Processes, putting'[k] = putting[k], putting[k] # Absent
          PROVE  Backed(putting[k])'
      <4>1. PICK x \in Puts : x = putting[k]
        BY <3>2 DEF PolicyInv, PolicyTypes
      <4>2. Backed(x)'
        BY <2>1, <3>1, <3>2, <4>1
      <4> QED
        BY <3>2, <4>1, <4>2 DEF Backed
    <3>3. ASSUME NEW k \in Processes, putting'[k] = made, fits
          PROVE  Backed(putting[k])'
      <4>1. PICK x : x = made
        OBVIOUS
      <4>2. Backed(x)'
        BY <1>6, <3>3, <4>1
      <4> QED
        BY <3>3, <4>1, <4>2 DEF Backed
    <3>4. \A k \in Processes : putting'[k] = putting[k] \/ (putting'[k] = made /\ fits)
      BY <1>1 DEF PolicyInv, PolicyTypes
    <3> QED
      BY <3>2, <3>3, <3>4
  <2> QED
    BY <2>2, <2>3 DEF PutsBacked
<1>8. AuditTells'
  <2>1. \A e \in {<<"identity", i, by>> : i \in {j \in put : scopes[j] = Absent}} :
          \E k, b : e = <<"identity", k, b>>
    OBVIOUS
  <2> QED
    BY <1>1, <2>1, IdentitiesAudited DEF PolicyInv
<1> QED
  BY <1>5, <1>7, <1>8 DEF PolicyInv

\* put_delegation inserts what it has begun, if the id is free.
LEMMA EndPutKeeps ==
  ASSUME AbsentIsApart, PolicyInv, NEW c \in Processes, EndPut(c)
  PROVE  PolicyInv'
<1>1. PICK p \in Puts : p = putting[c] /\ Backed(p)
  BY DEF EndPut, PolicyInv, PolicyTypes, PutsBacked
<1>2. /\ putting' = [putting EXCEPT ![c] = Absent] /\ UNCHANGED <<scopes, revoked>>
      /\ IF delegated[p.id] = Absent
         THEN /\ delegated' = [delegated EXCEPT ![p.id] = p]
              /\ audit' = audit \cup {<<"delegated", p.id, p.by>>}
         ELSE UNCHANGED <<delegated, audit>>
  BY <1>1 DEF EndPut
<1>3. p.id \in Delegations /\ p # Absent
  BY <1>1 DEF Puts, AbsentIsApart
<1>4. PolicyTypes'
  BY <1>2, <1>3 DEF PolicyInv, PolicyTypes
<1>5. PutsBacked'
  <2>1. \A x : Backed(x)' <=> Backed(x)
    BY <1>2 DEF Backed
  <2>2. \A d \in Delegations : delegated'[d] = delegated[d] \/ delegated'[d] = p
    BY <1>2, <1>3 DEF PolicyInv, PolicyTypes
  <2>3. \A k \in Processes : putting'[k] = putting[k] \/ putting'[k] = Absent
    BY <1>2 DEF PolicyInv, PolicyTypes
  <2>4. ASSUME NEW d \in Delegations, delegated'[d] # Absent PROVE Backed(delegated[d])'
    <3>1. PICK x : x = delegated'[d]
      OBVIOUS
    <3>2. Backed(x)
      BY <1>1, <2>2, <2>4, <3>1 DEF PolicyInv, PutsBacked
    <3> QED
      BY <2>1, <3>1, <3>2 DEF Backed
  <2>5. ASSUME NEW k \in Processes, putting'[k] # Absent PROVE Backed(putting[k])'
    <3>1. PICK x : x = putting'[k]
      OBVIOUS
    <3>2. Backed(x)
      BY <2>3, <2>5, <3>1 DEF PolicyInv, PutsBacked
    <3> QED
      BY <2>1, <3>1, <3>2 DEF Backed
  <2> QED
    BY <2>4, <2>5 DEF PutsBacked
<1>6. AuditTells'
  <2>1. CASE delegated[p.id] # Absent
    BY <1>2, <2>1 DEF PolicyInv, AuditTells, Entries
  <2>2. CASE delegated[p.id] = Absent
    <3>1. /\ delegated' = [delegated EXCEPT ![p.id] = p] /\ UNCHANGED revoked
          /\ audit' = audit \cup {<<"delegated", p.id, p.by>>}
      BY <1>2, <2>2
    <3>2. \A d \in Delegations : Entries("revoked", d)' = Entries("revoked", d)
      BY <3>1 DEF Entries
    <3>3. \A d \in Delegations \ {p.id} :
            /\ Entries("delegated", d)' = Entries("delegated", d)
            /\ delegated'[d] = delegated[d]
      BY <1>3, <3>1 DEF Entries, PolicyInv, PolicyTypes
    <3>4. Entries("delegated", p.id)' = {<<"delegated", p.id, p.by>>}
      <4>1. Entries("delegated", p.id) = {}
        BY <1>3, <2>2 DEF PolicyInv, AuditTells
      <4> QED
        BY <3>1, <4>1 DEF Entries
    <3>5. delegated'[p.id] = p
      BY <1>3, <3>1 DEF PolicyInv, PolicyTypes
    <3>6. ASSUME NEW d \in Delegations
          PROVE  Entries("delegated", d)' =
                   IF delegated'[d] = Absent THEN {}
                   ELSE {<<"delegated", d, delegated'[d].by>>}
      <4>1. CASE d = p.id
        BY <1>3, <3>4, <3>5, <4>1
      <4>2. CASE d # p.id
        BY <3>3, <4>2 DEF PolicyInv, AuditTells
      <4> QED
        BY <4>1, <4>2
    <3> QED
      BY <3>1, <3>2, <3>6 DEF PolicyInv, AuditTells
  <2> QED
    BY <2>1, <2>2
<1> QED
  BY <1>4, <1>5, <1>6 DEF PolicyInv

\* A client that stops between the two transactions of put_delegation.
LEMMA StopKeeps ==
  ASSUME PolicyInv, NEW c \in Processes, Stop(c)
  PROVE  PolicyInv'
<1>1. /\ putting' = [putting EXCEPT ![c] = Absent]
      /\ UNCHANGED <<scopes, delegated, revoked, audit>>
  BY DEF Stop
<1>2. PolicyTypes'
  BY <1>1 DEF PolicyInv, PolicyTypes
<1>3. AuditTells'
  BY <1>1 DEF PolicyInv, AuditTells, Entries
<1>4. PutsBacked'
  <2>1. \A k \in Processes : putting'[k] \in {putting[k], Absent}
    BY <1>1 DEF PolicyInv, PolicyTypes
  <2> QED
    BY <1>1, <2>1 DEF PolicyInv, PutsBacked, Backed
<1> QED
  BY <1>2, <1>3, <1>4 DEF PolicyInv

\* revoke_delegation: the first actor is the one the audit names.
LEMMA RevokeKeeps ==
  ASSUME PolicyInv, NEW d \in Delegations, NEW by, Revoke(d, by)
  PROVE  PolicyInv'
<1>1. /\ revoked' = revoked \cup {d} /\ UNCHANGED <<scopes, delegated, putting>>
      /\ audit' = audit \cup IF d \in revoked THEN {} ELSE {<<"revoked", d, by>>}
  BY DEF Revoke
<1>2. PolicyTypes'
  BY <1>1 DEF PolicyInv, PolicyTypes
<1>3. PutsBacked'
  BY <1>1 DEF PolicyInv, PutsBacked, Backed
<1>4. AuditTells'
  <2>1. CASE d \in revoked
    BY <1>1, <2>1 DEF PolicyInv, AuditTells, Entries
  <2>2. CASE d \notin revoked
    <3>1. audit' = audit \cup {<<"revoked", d, by>>}
      BY <1>1, <2>2
    <3>2. \A k \in Delegations : Entries("delegated", k)' = Entries("delegated", k)
      BY <3>1 DEF Entries
    <3>3. \A k \in Delegations \ {d} : Entries("revoked", k)' = Entries("revoked", k)
      BY <3>1 DEF Entries
    <3>4. Entries("revoked", d)' = {<<"revoked", d, by>>}
      <4>1. Entries("revoked", d) = {}
        BY <2>2 DEF PolicyInv, AuditTells
      <4> QED
        BY <3>1, <4>1 DEF Entries
    <3> QED
      BY <1>1, <3>2, <3>3, <3>4 DEF PolicyInv, AuditTells
  <2> QED
    BY <2>1, <2>2
<1> QED
  BY <1>2, <1>3, <1>4 DEF PolicyInv

\* What the run checks follows: one entry is one.
LEMMA AuthorityFollows ==
  ASSUME PolicyInv
  PROVE  AuthorityWithinGrantor
<1>1. ASSUME NEW d \in Delegations
      PROVE  Cardinality({e \in audit : e[1] = "revoked" /\ e[2] = d})
               = IF d \in revoked THEN 1 ELSE 0
  <2>1. {e \in audit : e[1] = "revoked" /\ e[2] = d} = Entries("revoked", d)
    BY DEF Entries
  <2>2. d \notin revoked => Entries("revoked", d) = {}
    BY DEF PolicyInv, AuditTells
  <2>3. d \in revoked => \E e : Entries("revoked", d) = {e}
    BY DEF PolicyInv, AuditTells
  <2> QED
    BY <2>1, <2>2, <2>3, FS_EmptySet, FS_Singleton
<1>2. ASSUME NEW d \in Delegations, delegated[d] # Absent
      PROVE  /\ Backed(delegated[d])
             /\ {e \in audit : e[1] = "delegated" /\ e[2] = d}
                  = {<<"delegated", d, delegated[d].by>>}
  BY <1>2 DEF PolicyInv, PutsBacked, AuditTells, Entries
<1> QED
  BY <1>1, <1>2 DEF AuthorityWithinGrantor, Backed

\* coordination_policy.py put_identity, put_delegation and revoke_delegation, of
\* any clients, identities and scope sets, stopped anywhere between their
\* transactions: a delegation is backed by stored identities, it allows nothing
\* its grantor may not, and the audit names one actor for what was done.
THEOREM AuthorityIsWithinGrantor ==
  ASSUME AbsentIsApart PROVE PolicySpec => []AuthorityWithinGrantor
<1>1. PolicyInit => PolicyInv
  BY PolicyStarts
<1>2. PolicyInv /\ [PolicyNext]_policyVars => PolicyInv'
  <2> SUFFICES ASSUME PolicyInv, [PolicyNext]_policyVars PROVE PolicyInv'
    OBVIOUS
  <2>1. CASE UNCHANGED policyVars
    BY <2>1 DEF policyVars, PolicyInv, PolicyTypes, PutsBacked, Backed, AuditTells, Entries
  <2>2. ASSUME NEW i \in Identities, NEW s \in Grants, PutIdentity(i, s, System)
        PROVE  PolicyInv'
    BY <2>2, PutIdentityKeeps
  <2>3. ASSUME NEW c \in Processes, NEW d \in Delegations, NEW g \in Identities,
               NEW to \in Identities, NEW claimed \in Grants, NEW held \in Grants,
               NEW s \in Grants, NEW by \in {g, System},
               BeginPut(c, d, g, claimed, to, held, s, by)
        PROVE  PolicyInv'
    BY <2>3, BeginPutKeeps
  <2>4. ASSUME NEW c \in Processes, EndPut(c) \/ Stop(c) PROVE PolicyInv'
    BY <2>4, EndPutKeeps, StopKeeps
  <2>5. ASSUME NEW d \in Delegations, NEW by, Revoke(d, by) PROVE PolicyInv'
    BY <2>5, RevokeKeeps
  <2> QED
    BY <2>1, <2>2, <2>3, <2>4, <2>5 DEF PolicyNext
<1>3. PolicyInv => AuthorityWithinGrantor
  BY AuthorityFollows
<1> QED
  BY <1>1, <1>2, <1>3, PTL DEF PolicySpec

(***************************************************************************)
(* Mailbox                                                                 *)
(***************************************************************************)

MailKinds == {"handoff", "claim", "recovered", "released", "ack"}
MailCalls == [pc : {"free", "ask", "select", "claim one", "claim"},
              todo : SUBSET MessageIds,
              held : SUBSET (MessageIds \X (1 .. MaxAttempts))]

\* The events that end attempt n of message m.
Endings(m, n) ==
  {e \in mailEvents : e[2] = m /\ e[3] = n /\ e[1] \in {"recovered", "released"}}

\* Attempt n of m has ended, once; it has not ended.
EndedOnce(m, n) == \E k \in {"recovered", "released"} : Endings(m, n) = {<<k, m, n>>}
Unended(m, n) == Endings(m, n) = {}

\* The row of m, its events and what was returned for it tell one history.
MessageFits(m) ==
  /\ status[m] = "none" <=> payload[m] = NoPayload
  /\ status[m] = "none" => attempts[m] = 0
  /\ status[m] = "leased" => attempts[m] > 0
  /\ repliedTo[m] \subseteq {attempts[m]}
  /\ repliedTo[m] # {} => status[m] = "acknowledged"
  /\ payload[m] # NoPayload => <<"handoff", m, 0>> \in mailEvents
  /\ \A n \in Nat \ {0} : <<"claim", m, n>> \in mailEvents <=> n <= attempts[m]
  /\ <<"ack", m, 0>> \in mailEvents <=> status[m] = "acknowledged"
  /\ \A n \in Nat \ {0} :
       /\ n < attempts[m] => EndedOnce(m, n)
       /\ n = attempts[m] =>
            IF status[m] = "pending" THEN EndedOnce(m, n) ELSE Unended(m, n)
       /\ n > attempts[m] => Unended(m, n)

MailInv ==
  /\ MailTypeOK
  /\ mailEvents \subseteq MailKinds \X MessageIds \X Nat
  /\ host \in [Hosts -> MailCalls]
  /\ repliedTo \in [MessageIds -> SUBSET Nat]
  /\ \A m \in MessageIds : MessageFits(m)

LEMMA MailStart == MailInit => MailInv
<1> SUFFICES ASSUME MailInit PROVE MailInv
  OBVIOUS
<1>1. MailTypeOK
  BY AttemptsAreCounted DEF MailInit, MailTypeOK
<1>2. host \in [Hosts -> MailCalls]
  BY DEF MailInit, MailCalls, Free
<1>3. ASSUME NEW m \in MessageIds PROVE MessageFits(m)
  BY DEF MailInit, MessageFits, EndedOnce, Unended, Endings
<1> QED BY <1>1, <1>2, <1>3 DEF MailInit, MailInv

\* A host's own call goes on, or ends.
LEMMA HostMoves ==
  ASSUME host \in [Hosts -> MailCalls], NEW h \in Hosts, NEW v \in MailCalls,
         SetHost(h, v) \/ Mirrored(h, v)
  PROVE  host' \in [Hosts -> MailCalls]
<1>1. Free \in MailCalls
  BY DEF Free, MailCalls
<1> QED BY <1>1 DEF SetHost, Mirrored

\* The events of other messages leave what m's say.
LEMMA OtherMessage ==
  ASSUME NEW m, MessageFits(m), mailEvents \subseteq mailEvents',
         payload'[m] = payload[m], status'[m] = status[m],
         attempts'[m] = attempts[m], repliedTo'[m] = repliedTo[m],
         \A e \in mailEvents' \ mailEvents : e[2] # m
  PROVE  MessageFits(m)'
<1>1. \A k, n : <<k, m, n>> \in mailEvents' <=> <<k, m, n>> \in mailEvents
  OBVIOUS
<1>2. \A n : Endings(m, n)' = Endings(m, n)
  BY DEF Endings
<1>3. \A n : (EndedOnce(m, n)' <=> EndedOnce(m, n)) /\ (Unended(m, n)' <=> Unended(m, n))
  BY <1>2 DEF EndedOnce, Unended
<1> QED BY <1>1, <1>3 DEF MessageFits

LEMMA SendRowKeeps ==
  ASSUME MailInv, NEW m \in MessageIds, NEW p \in Contents, SendRow(m, p),
         UNCHANGED <<attempts, expired, repliedTo>>
  PROVE  /\ MailTypeOK' /\ mailEvents' \subseteq MailKinds \X MessageIds \X Nat
         /\ \A k \in MessageIds : MessageFits(k)'
<1>1. CASE payload[m] = p /\ UNCHANGED <<payload, status, mailEvents>>
  <2>1. ASSUME NEW k \in MessageIds PROVE MessageFits(k)'
    BY <1>1, OtherMessage DEF MailInv
  <2> QED BY <1>1, <2>1 DEF MailInv, MailTypeOK
<1>2. CASE /\ payload[m] = NoPayload
           /\ payload' = [payload EXCEPT ![m] = p]
           /\ status' = [status EXCEPT ![m] = "pending"]
           /\ mailEvents' = mailEvents \cup {<<"handoff", m, 0>>}
  <2>1. MailTypeOK' /\ mailEvents' \subseteq MailKinds \X MessageIds \X Nat
    BY <1>2 DEF MailInv, MailTypeOK, MailKinds
  <2>2. MessageFits(m)'
    <3>1. /\ status[m] = "none" /\ attempts[m] = 0 /\ attempts'[m] = 0
          /\ status'[m] = "pending" /\ payload'[m] = p /\ p # NoPayload
          /\ repliedTo[m] = {} /\ repliedTo'[m] = {}
      BY <1>2, NoPayloadIsNone DEF MailInv, MailTypeOK, MessageFits
    <3>2. ASSUME NEW n \in Nat \ {0} PROVE Unended(m, n) /\ <<"claim", m, n>> \notin mailEvents
      <4>1. MessageFits(m) /\ n > attempts[m] /\ ~(n <= attempts[m])
        BY <3>1 DEF MailInv
      <4> QED BY <4>1 DEF MessageFits
    <3>3. \A n \in Nat \ {0} : Unended(m, n)'
      <4>1. \A n : Endings(m, n)' = Endings(m, n)
        BY <1>2 DEF Endings
      <4> QED BY <3>2, <4>1 DEF Unended
    <3>4. \A n \in Nat \ {0} : <<"claim", m, n>> \notin mailEvents'
      BY <1>2, <3>2
    <3>5. <<"ack", m, 0>> \notin mailEvents'
      BY <1>2, <3>1 DEF MailInv, MessageFits
    <3> QED BY <1>2, <3>1, <3>3, <3>4, <3>5 DEF MessageFits
  <2>3. ASSUME NEW k \in MessageIds, k # m PROVE MessageFits(k)'
    <3>1. payload'[k] = payload[k] /\ status'[k] = status[k]
      BY <1>2, <2>3 DEF MailInv, MailTypeOK
    <3>2. \A e \in mailEvents' \ mailEvents : e[2] # k
      BY <1>2, <2>3
    <3> QED BY <1>2, <3>1, <3>2, OtherMessage DEF MailInv
  <2> QED BY <2>1, <2>2, <2>3
<1> QED BY <1>1, <1>2 DEF SendRow

LEMMA SendKeeps ==
  ASSUME MailInv, NEW h \in Hosts, NEW m \in MessageIds, NEW p \in Contents,
         Send(h, m, p)
  PROVE  MailInv'
<1>1. Free \in MailCalls
  BY DEF Free, MailCalls
<1>2. SendRow(m, p) /\ Mirrored(h, Free) /\ UNCHANGED <<attempts, expired, repliedTo>>
  BY DEF Send
<1>3. host' \in [Hosts -> MailCalls]
  BY <1>1, <1>2, HostMoves DEF MailInv
<1> QED BY <1>2, <1>3, SendRowKeeps DEF MailInv

LEMMA HandoffKeeps ==
  ASSUME MailInv, NEW h \in Hosts, NEW m \in MessageIds, NEW p \in Contents,
         Handoff(h, m, p)
  PROVE  MailInv'
<1>1. PICK v : v = IF status[m] = "acknowledged" THEN Free
                   ELSE [Free EXCEPT !.pc = "ask", !.todo = {m}]
  OBVIOUS
<1>2. v \in MailCalls
  BY <1>1 DEF Free, MailCalls
<1>3. SendRow(m, p) /\ Mirrored(h, v) /\ UNCHANGED <<attempts, expired, repliedTo>>
  BY <1>1 DEF Handoff
<1>4. host' \in [Hosts -> MailCalls]
  BY <1>2, <1>3, HostMoves DEF MailInv
<1> QED BY <1>3, <1>4, SendRowKeeps DEF MailInv

\* A step that leaves the rows and the outbox alone.
LEMMA RowsStay ==
  ASSUME MailInv, UNCHANGED <<row, mailEvents, repliedTo>>,
         host' \in [Hosts -> MailCalls]
  PROVE  MailInv'
<1>1. ASSUME NEW m \in MessageIds PROVE MessageFits(m)'
  BY OtherMessage DEF MailInv, row
<1> QED BY <1>1 DEF MailInv, MailTypeOK, row

\* A step records of m that its attempt n has ended as k, and nothing else.
Ended(m, n, k) ==
  /\ <<k, m, n>> \in mailEvents' /\ mailEvents \subseteq mailEvents'
  /\ \A e \in mailEvents' : e[2] = m => e \in mailEvents \/ e = <<k, m, n>>

LEMMA AttemptEnds ==
  ASSUME NEW m \in MessageIds, MessageFits(m), status[m] = "leased",
         NEW a \in Nat \ {0}, a = attempts[m],
         NEW k \in {"recovered", "released"}, Ended(m, a, k)
  PROVE  /\ \A n \in Nat \ {0} : n < a => EndedOnce(m, n)'
         /\ EndedOnce(m, a)'
         /\ \A n \in Nat \ {0} : n > a => Unended(m, n)'
<1>1. \A n \in Nat \ {0} : n # a => Endings(m, n)' = Endings(m, n)
  BY DEF Ended, Endings
<1>2. Endings(m, a) = {}
  BY DEF MessageFits, Unended
<1>3. Endings(m, a)' = {<<k, m, a>>}
  BY <1>2 DEF Ended, Endings
<1>4. \A n \in Nat \ {0} : n < a => EndedOnce(m, n)'
  BY <1>1 DEF MessageFits, EndedOnce
<1>5. \A n \in Nat \ {0} : n > a => Unended(m, n)'
  BY <1>1 DEF MessageFits, Unended
<1> QED BY <1>3, <1>4, <1>5 DEF EndedOnce

LEMMA RecoverExpiredKeeps ==
  ASSUME MailInv, NEW h \in Hosts, RecoverExpired(h)
  PROVE  MailInv'
<1> DEFINE lost == {m \in MessageIds : Lost(m)}
<1>1. PICK v : v = [host[h] EXCEPT
                      !.pc = IF host[h].pc = "ask" THEN "claim one" ELSE "select"]
  OBVIOUS
<1>2. v \in MailCalls
  BY <1>1 DEF MailInv, MailCalls
<1>3. /\ status' = [m \in MessageIds |-> IF m \in lost THEN "pending" ELSE status[m]]
      /\ expired' = [m \in MessageIds |-> IF m \in lost THEN FALSE ELSE expired[m]]
      /\ mailEvents' = mailEvents \cup Recoveries(lost)
      /\ Mirrored(h, v)
      /\ UNCHANGED <<payload, attempts, repliedTo>>
  BY <1>1 DEF RecoverExpired
<1>4. host' \in [Hosts -> MailCalls]
  BY <1>2, <1>3, HostMoves DEF MailInv
<1>5. MailTypeOK'
  BY <1>3 DEF MailInv, MailTypeOK
<1>6. mailEvents' \subseteq MailKinds \X MessageIds \X Nat
  <2>1. Recoveries(lost) \subseteq MailKinds \X MessageIds \X Nat
    <3>1. \A m \in lost : attempts[m] \in Nat
      BY DEF MailInv, MailTypeOK
    <3> QED BY <3>1 DEF Recoveries, MailKinds
  <2> QED BY <1>3, <2>1 DEF MailInv
<1>7. ASSUME NEW m \in MessageIds PROVE MessageFits(m)'
  <2>1. CASE m \in lost
    <3>1. PICK a : a = attempts[m]
      OBVIOUS
    <3>2. /\ status[m] = "leased" /\ status'[m] = "pending"
          /\ a \in Nat \ {0} /\ attempts'[m] = a
          /\ repliedTo[m] = {} /\ repliedTo'[m] = {} /\ payload[m] # NoPayload
          /\ payload'[m] = payload[m] /\ MessageFits(m)
      BY <1>3, <2>1, <3>1 DEF MailInv, MailTypeOK, MessageFits, Lost
    <3> DEFINE new == <<"recovered", m, a>>
    <3>3. new \in mailEvents' /\ mailEvents \subseteq mailEvents'
          /\ \A e \in mailEvents' : e[2] = m => e \in mailEvents \/ e = new
      BY <1>3, <2>1, <3>1 DEF Recoveries
    <3>4. Ended(m, a, "recovered")
      BY <3>3 DEF Ended
    <3>5. /\ \A n \in Nat \ {0} : n < a => EndedOnce(m, n)'
          /\ EndedOnce(m, a)'
          /\ \A n \in Nat \ {0} : n > a => Unended(m, n)'
      BY <3>1, <3>2, <3>4, AttemptEnds
    <3>6. /\ \A n \in Nat \ {0} : <<"claim", m, n>> \in mailEvents' <=> n <= a
          /\ <<"ack", m, 0>> \notin mailEvents'
          /\ <<"handoff", m, 0>> \in mailEvents'
      BY <3>1, <3>2, <3>3 DEF MessageFits
    <3> QED BY <3>2, <3>5, <3>6 DEF MessageFits
  <2>2. CASE m \notin lost
    <3>1. status'[m] = status[m]
      BY <1>3, <2>2
    <3>2. \A e \in mailEvents' \ mailEvents : e[2] # m
      BY <1>3, <2>2 DEF Recoveries
    <3> QED BY <1>3, <3>1, <3>2, OtherMessage DEF MailInv
  <2> QED BY <2>1, <2>2
<1> QED BY <1>3, <1>4, <1>5, <1>6, <1>7 DEF MailInv

LEMMA SelectKeeps ==
  ASSUME MailInv, NEW h \in Hosts, Select(h)
  PROVE  MailInv'
<1>1. PICK S : /\ S \subseteq MessageIds
               /\ SetHost(h, [host[h] EXCEPT !.pc = "claim", !.todo = S])
  BY DEF Select
<1>2. PICK v : v = [host[h] EXCEPT !.pc = "claim", !.todo = S]
  OBVIOUS
<1>3. v \in MailCalls
  BY <1>1, <1>2 DEF MailInv, MailCalls
<1>4. host' \in [Hosts -> MailCalls]
  BY <1>1, <1>2, <1>3, HostMoves DEF MailInv
<1> QED BY <1>4, RowsStay DEF Select

\* A claim begins the next attempt of a pending message.
LEMMA ClaimMessageKeeps ==
  ASSUME MailInv, NEW h \in Hosts, NEW m \in MessageIds, Claimable(m),
         ClaimMessage(h, m), UNCHANGED repliedTo, host' \in [Hosts -> MailCalls]
  PROVE  MailInv'
<1>1. PICK a : a = attempts[m]
  OBVIOUS
<1>2. /\ a \in Nat /\ a + 1 \in Nat \ {0} /\ a + 1 <= MaxAttempts
      /\ status' = [status EXCEPT ![m] = "leased"]
      /\ attempts' = [attempts EXCEPT ![m] = a + 1]
      /\ expired' = [expired EXCEPT ![m] = FALSE]
      /\ mailEvents' = mailEvents \cup {<<"claim", m, a + 1>>}
      /\ UNCHANGED <<payload, repliedTo>>
  BY <1>1, AttemptsAreCounted DEF ClaimMessage, MailInv, MailTypeOK
<1>3. MailTypeOK'
  BY <1>2, AttemptsAreCounted DEF MailInv, MailTypeOK
<1>4. mailEvents' \subseteq MailKinds \X MessageIds \X Nat
  BY <1>2 DEF MailInv, MailKinds
<1>5. ASSUME NEW k \in MessageIds, k # m PROVE MessageFits(k)'
  <2>1. status'[k] = status[k] /\ attempts'[k] = attempts[k]
    BY <1>2, <1>5 DEF MailInv, MailTypeOK
  <2>2. \A e \in mailEvents' \ mailEvents : e[2] # k
    BY <1>2, <1>5
  <2> QED BY <1>2, <2>1, <2>2, OtherMessage DEF MailInv
<1>6. MessageFits(m)'
  <2>1. /\ status[m] = "pending" /\ status'[m] = "leased"
        /\ attempts'[m] = a + 1 /\ MessageFits(m)
        /\ repliedTo'[m] = {} /\ payload'[m] = payload[m] /\ payload[m] # NoPayload
    BY <1>2 DEF MailInv, MailTypeOK, MessageFits, Claimable
  <2>2. \A n \in Nat \ {0} : Endings(m, n)' = Endings(m, n)
    BY <1>2 DEF Endings
  <2>3. ASSUME NEW n \in Nat \ {0}
        PROVE  /\ n < a + 1 => EndedOnce(m, n)'
               /\ n >= a + 1 => Unended(m, n)'
    <3>1. n < a + 1 => EndedOnce(m, n)
      BY <1>1, <1>2, <2>1 DEF MessageFits
    <3>2. n >= a + 1 => Unended(m, n)
      BY <1>1, <1>2, <2>1 DEF MessageFits
    <3> QED BY <2>2, <3>1, <3>2 DEF EndedOnce, Unended
  <2>4. /\ \A n \in Nat \ {0} : <<"claim", m, n>> \in mailEvents' <=> n <= a + 1
        /\ <<"ack", m, 0>> \notin mailEvents'
        /\ <<"handoff", m, 0>> \in mailEvents'
    BY <1>1, <1>2, <2>1 DEF MessageFits
  <2> QED BY <1>2, <2>1, <2>3, <2>4 DEF MessageFits
<1> QED BY <1>2, <1>3, <1>4, <1>5, <1>6 DEF MailInv

LEMMA ClaimKeeps ==
  ASSUME MailInv, NEW h \in Hosts, Claim(h)
  PROVE  MailInv'
<1>1. PICK c : c = host[h]
  OBVIOUS
<1>2. c \in MailCalls
  BY <1>1 DEF MailInv
<1> DEFINE left(m) == c.todo \ {m}
           taken(m) == [c EXCEPT !.todo = left(m),
                                 !.held = @ \cup {<<m, attempts[m] + 1>>}]
<1>3. PICK m \in c.todo :
           \/ /\ Claimable(m) /\ ClaimMessage(h, m)
              /\ SetHost(h, taken(m)) \/ Mirrored(h, taken(m))
           \/ /\ SetHost(h, [c EXCEPT !.todo = left(m)])
              /\ UNCHANGED <<row, mailEvents, faults>>
  BY <1>1 DEF Claim
<1>4. m \in MessageIds /\ left(m) \subseteq MessageIds
  BY <1>2, <1>3 DEF MailCalls
<1>5. CASE /\ Claimable(m) /\ ClaimMessage(h, m)
           /\ SetHost(h, taken(m)) \/ Mirrored(h, taken(m))
  <2>1. attempts[m] + 1 \in 1 .. MaxAttempts
    BY <1>4, <1>5, AttemptsAreCounted DEF ClaimMessage, MailInv, MailTypeOK
  <2>2. PICK S : S = c.held \cup {<<m, attempts[m] + 1>>}
    OBVIOUS
  <2>3. S \subseteq MessageIds \X (1 .. MaxAttempts)
    <3>1. c.held \subseteq MessageIds \X (1 .. MaxAttempts)
      BY <1>2 DEF MailCalls
    <3>2. <<m, attempts[m] + 1>> \in MessageIds \X (1 .. MaxAttempts)
      BY <1>4, <2>1
    <3> QED BY <2>2, <3>1, <3>2
  <2>4. taken(m) = [c EXCEPT !.todo = left(m), !.held = S]
    BY <2>2
  <2>5. taken(m) \in MailCalls
    BY <1>2, <1>4, <2>3, <2>4 DEF MailCalls
  <2>6. host' \in [Hosts -> MailCalls]
    BY <1>5, <2>5, HostMoves DEF MailInv
  <2> QED BY <1>4, <1>5, <2>6, ClaimMessageKeeps DEF Claim
<1>6. CASE /\ SetHost(h, [c EXCEPT !.todo = left(m)])
           /\ UNCHANGED <<row, mailEvents, faults>>
  <2>1. PICK v : v = [c EXCEPT !.todo = left(m)]
    OBVIOUS
  <2>2. v \in MailCalls
    BY <1>2, <1>4, <2>1 DEF MailCalls
  <2>3. host' \in [Hosts -> MailCalls]
    BY <1>6, <2>1, <2>2, HostMoves DEF MailInv
  <2> QED BY <1>6, <2>3, RowsStay DEF Claim
<1> QED BY <1>3, <1>5, <1>6

LEMMA FreeHost ==
  ASSUME MailInv, NEW h \in Hosts, SetHost(h, Free)
  PROVE  host' \in [Hosts -> MailCalls]
<1>1. Free \in MailCalls
  BY DEF Free, MailCalls
<1> QED BY <1>1, HostMoves DEF MailInv

LEMMA HeldLess ==
  ASSUME MailInv, NEW h \in Hosts, NEW m, NEW n, SetHost(h, Without(h, m, n))
  PROVE  host' \in [Hosts -> MailCalls]
<1>1. PICK v : v = Without(h, m, n)
  OBVIOUS
<1>2. v \in MailCalls
  BY <1>1 DEF Without, Free, MailInv, MailCalls
<1> QED BY <1>1, <1>2, HostMoves DEF MailInv

\* An owned message ends its attempt acknowledged ...
LEMMA AcknowledgeKeeps ==
  ASSUME MailInv, NEW h \in Hosts, NEW m \in MessageIds, NEW n \in 1 .. MaxAttempts,
         Acknowledge(h, m, n)
  PROVE  MailInv'
<1>1. host' \in [Hosts -> MailCalls]
  BY HeldLess DEF Acknowledge
<1>2. CASE ~Owns(m, n)
  BY <1>1, <1>2, RowsStay DEF Acknowledge, row
<1>3. CASE Owns(m, n)
  <2>1. /\ status' = [status EXCEPT ![m] = "acknowledged"]
        /\ expired' = [expired EXCEPT ![m] = FALSE]
        /\ mailEvents' = mailEvents \cup {<<"ack", m, 0>>}
        /\ \/ repliedTo' = [repliedTo EXCEPT ![m] = @ \cup {n}]
           \/ repliedTo' = repliedTo
        /\ UNCHANGED <<payload, attempts>>
    BY <1>3 DEF Acknowledge
  <2>2. n \in Nat \ {0} /\ status[m] = "leased" /\ attempts[m] = n
    BY <1>3, AttemptsAreCounted DEF Owns
  <2>3. MailTypeOK' /\ mailEvents' \subseteq MailKinds \X MessageIds \X Nat
        /\ repliedTo' \in [MessageIds -> SUBSET Nat]
    BY <2>1, <2>2 DEF MailInv, MailTypeOK, MailKinds
  <2>4. ASSUME NEW k \in MessageIds, k # m PROVE MessageFits(k)'
    <3>1. status'[k] = status[k] /\ repliedTo'[k] = repliedTo[k]
      BY <2>1, <2>4 DEF MailInv, MailTypeOK
    <3>2. \A e \in mailEvents' \ mailEvents : e[2] # k
      BY <2>1, <2>4
    <3> QED BY <2>1, <3>1, <3>2, OtherMessage DEF MailInv
  <2>5. MessageFits(m)'
    <3>1. /\ MessageFits(m) /\ repliedTo[m] = {} /\ status'[m] = "acknowledged"
          /\ attempts'[m] = n /\ repliedTo'[m] \subseteq {n}
          /\ payload'[m] = payload[m] /\ payload[m] # NoPayload
      BY <2>1, <2>2 DEF MailInv, MailTypeOK, MessageFits
    <3>2. \A k \in Nat \ {0} : Endings(m, k)' = Endings(m, k)
      BY <2>1 DEF Endings
    <3>3. \A k \in Nat \ {0} :
            /\ k < n => EndedOnce(m, k)'
            /\ k >= n => Unended(m, k)'
      <4>1. ASSUME NEW k \in Nat \ {0}
            PROVE  (k < n => EndedOnce(m, k)) /\ (k >= n => Unended(m, k))
        BY <2>2, <3>1 DEF MessageFits
      <4> QED BY <3>2, <4>1 DEF EndedOnce, Unended
    <3>4. /\ \A k \in Nat \ {0} : <<"claim", m, k>> \in mailEvents' <=> k <= n
          /\ <<"ack", m, 0>> \in mailEvents'
          /\ <<"handoff", m, 0>> \in mailEvents'
      BY <2>1, <2>2, <3>1 DEF MessageFits
    <3> QED BY <2>2, <3>1, <3>3, <3>4 DEF MessageFits
  <2> QED BY <1>1, <2>3, <2>4, <2>5 DEF MailInv
<1> QED BY <1>2, <1>3

\* ... or released.
LEMMA ReleaseKeeps ==
  ASSUME MailInv, NEW h \in Hosts, NEW m \in MessageIds, NEW n \in 1 .. MaxAttempts,
         Release(h, m, n)
  PROVE  MailInv'
<1>1. host' \in [Hosts -> MailCalls]
  BY HeldLess DEF Release
<1>2. CASE ~Owns(m, n)
  BY <1>1, <1>2, RowsStay DEF Release, row
<1>3. CASE Owns(m, n)
  <2>1. /\ status' = [status EXCEPT ![m] = "pending"]
        /\ mailEvents' = mailEvents \cup {<<"released", m, n>>}
        /\ UNCHANGED <<payload, attempts, expired, repliedTo>>
    BY <1>3 DEF Release
  <2>2. n \in Nat \ {0} /\ status[m] = "leased" /\ attempts[m] = n
    BY <1>3, AttemptsAreCounted DEF Owns
  <2>3. MailTypeOK' /\ mailEvents' \subseteq MailKinds \X MessageIds \X Nat
    BY <2>1, <2>2 DEF MailInv, MailTypeOK, MailKinds
  <2>4. ASSUME NEW k \in MessageIds, k # m PROVE MessageFits(k)'
    <3>1. status'[k] = status[k]
      BY <2>1, <2>4 DEF MailInv, MailTypeOK
    <3>2. \A e \in mailEvents' \ mailEvents : e[2] # k
      BY <2>1, <2>4
    <3> QED BY <2>1, <3>1, <3>2, OtherMessage DEF MailInv
  <2>5. MessageFits(m)'
    <3>1. /\ MessageFits(m) /\ repliedTo'[m] = {} /\ status'[m] = "pending"
          /\ attempts'[m] = n /\ payload'[m] = payload[m] /\ payload[m] # NoPayload
      BY <2>1, <2>2 DEF MailInv, MailTypeOK, MessageFits
    <3>2. Ended(m, n, "released")
      BY <2>1 DEF Ended
    <3>3. /\ \A k \in Nat \ {0} : k < n => EndedOnce(m, k)'
          /\ EndedOnce(m, n)'
          /\ \A k \in Nat \ {0} : k > n => Unended(m, k)'
      BY <2>2, <3>1, <3>2, AttemptEnds
    <3>4. /\ \A k \in Nat \ {0} : <<"claim", m, k>> \in mailEvents' <=> k <= n
          /\ <<"ack", m, 0>> \notin mailEvents'
          /\ <<"handoff", m, 0>> \in mailEvents'
      BY <2>1, <2>2, <3>1 DEF MessageFits
    <3> QED BY <2>2, <3>1, <3>3, <3>4 DEF MessageFits
  <2> QED BY <1>1, <2>1, <2>3, <2>4, <2>5 DEF MailInv
<1> QED BY <1>2, <1>3

LEMMA MailExpireKeeps ==
  ASSUME MailInv, NEW m \in MessageIds, Expire(m)
  PROVE  MailInv'
<1>1. ASSUME NEW k \in MessageIds PROVE MessageFits(k)'
  BY OtherMessage DEF MailInv, Expire
<1> QED BY <1>1 DEF MailInv, MailTypeOK, Expire

LEMMA MailStep == MailInv /\ [MailNext]_mailVars => MailInv'
<1> SUFFICES ASSUME MailInv, [MailNext]_mailVars PROVE MailInv'
  OBVIOUS
<1>1. CASE UNCHANGED mailVars
  BY <1>1, RowsStay DEF mailVars, row, MailInv
<1>2. ASSUME NEW h \in Hosts, Returned(h) PROVE MailInv'
  BY <1>2, FreeHost, RowsStay DEF Returned
<1>3. ASSUME NEW h \in Hosts, Crash(h) PROVE MailInv'
  BY <1>3, FreeHost, RowsStay DEF Crash
<1>4. CASE MailNext
  BY <1>2, <1>3, <1>4, SendKeeps, HandoffKeeps, RecoverExpiredKeeps, SelectKeeps,
     ClaimKeeps, AcknowledgeKeeps, ReleaseKeeps, MailExpireKeeps DEF MailNext
<1> QED BY <1>1, <1>4

LEMMA OutboxTells == MailInv => OutboxTellsDeliveries
<1> SUFFICES ASSUME MailInv PROVE OutboxTellsDeliveries
  OBVIOUS
<1>1. ASSUME NEW m \in MessageIds PROVE Reconstructed(m) \subseteq mailEvents
  <2>1. attempts[m] \in Nat /\ MessageFits(m)
    BY AttemptsAreCounted DEF MailInv, MailTypeOK
  <2> QED BY <2>1 DEF Reconstructed, MessageFits
<1>2. ASSUME NEW m \in MessageIds
      PROVE  {n \in 1 .. MaxAttempts : <<"claim", m, n>> \in mailEvents} = 1 .. attempts[m]
  <2>1. attempts[m] \in 0 .. MaxAttempts /\ MessageFits(m)
    BY DEF MailInv, MailTypeOK
  <2> QED BY <2>1, AttemptsAreCounted DEF MessageFits
<1>3. ASSUME NEW m \in MessageIds, NEW n \in 1 .. attempts[m]
      PROVE  Cardinality({e \in mailEvents : e[2] = m /\ e[3] = n
                            /\ e[1] \in {"recovered", "released"}})
               = IF n < attempts[m] \/ status[m] = "pending" THEN 1 ELSE 0
  <2>1. attempts[m] \in Nat /\ n \in Nat \ {0} /\ MessageFits(m)
    BY AttemptsAreCounted DEF MailInv, MailTypeOK
  <2>2. CASE n < attempts[m] \/ status[m] = "pending"
    <3>1. EndedOnce(m, n)
      BY <2>1, <2>2 DEF MessageFits
    <3>2. Cardinality(Endings(m, n)) = 1
      BY <3>1, FS_Singleton DEF EndedOnce
    <3> QED BY <2>2, <3>2 DEF Endings
  <2>3. CASE ~(n < attempts[m] \/ status[m] = "pending")
    <3>1. Endings(m, n) = {}
      BY <2>1, <2>3 DEF MessageFits, Unended
    <3>2. Cardinality(Endings(m, n)) = 0
      BY <3>1, FS_EmptySet
    <3> QED BY <2>3, <3>2 DEF Endings
  <2> QED BY <2>2, <2>3
<1>4. ASSUME NEW m \in MessageIds
      PROVE  <<"ack", m, 0>> \in mailEvents <=> status[m] = "acknowledged"
  BY DEF MailInv, MessageFits
<1>5. \A m \in MessageIds : attempts[m] \in Nat
  BY AttemptsAreCounted DEF MailInv, MailTypeOK
<1> QED BY <1>1, <1>2, <1>3, <1>4, <1>5 DEF OutboxTellsDeliveries

\* A message is answered once, by its last attempt, and the outbox tells how
\* each of its attempts ended, whichever hosts stop and whichever mirror calls
\* raise after the commit (orchestration.py Mailbox, AgentOrchestrator.handoff).
THEOREM DeliveriesAreTold == MailSpec => []DeliveriesTold
<1>1. MailInv => AnsweredOnce
  BY DEF MailInv, AnsweredOnce, MessageFits
<1>2. MailInv => DeliveriesTold
  BY <1>1, OutboxTells DEF DeliveriesTold
<1> QED BY <1>2, MailStart, MailStep, PTL DEF MailSpec

(***************************************************************************)
(* ToolReplay                                                              *)
(***************************************************************************)

Verdicts == [node : Nat, op : {"substitute", "refuse", "re-execute", "fail"}]
BeforeIntent == {"substitute", "refuse", "re-execute"}
AfterIntent == {"mirror", "reject", "execute", "executed"}
Executions == [call : ReplayCalls, class : Classes, after : Nat]

ReplayTypeOK ==
  /\ DOMAIN source \subseteq Nat \ {NoNode}
  /\ \A n \in DOMAIN source : source[n] \in Nodes
  /\ tool \in [class : Classes, observability : BOOLEAN]
  /\ setup \in [mode : {"strict", "best effort", "reroute"},
                external : BOOLEAN, downgrade : BOOLEAN]
  /\ decisions \in [ReplayCalls -> Seq(Verdicts)]
  /\ intents \subseteq ReplayCalls
  /\ ended \in [ReplayCalls -> {"open", "substituted", "refused", "executed"}]
  /\ running \in [ReplayCalls -> {"idle"} \cup BeforeIntent \cup AfterIntent]
  /\ live \subseteq Executions
  /\ stops \in Nat

\* Some decision is for recording n.
IsUsed(n) == \E c \in ReplayCalls : \E k \in 1 .. Len(decisions[c]) : decisions[c][k].node = n

\* Every decision follows the rules, for a recording there is or for none.
DecisionsFollow ==
  \A c \in ReplayCalls : \A k \in 1 .. Len(decisions[c]) :
    /\ decisions[c][k].node \in DOMAIN source \cup {NoNode}
    /\ decisions[c][k].op = Operation(decisions[c][k].node)

UsedOnce ==
  \A c, d \in ReplayCalls : \A k \in 1 .. Len(decisions[c]) : \A l \in 1 .. Len(decisions[d]) :
    /\ decisions[c][k].node # NoNode
    /\ decisions[c][k].node = decisions[d][l].node
    => c = d /\ k = l

UsedInOrder ==
  \A n \in DOMAIN source : IsUsed(n) => \A m \in Matches({}) : m < n => IsUsed(m)

HasResult(c) == source[Decision(c).node].end = "result"

\* Where a call is, by its decisions and its intent: it executes the tool at
\* most once, and it substitutes what has a result.
ReplayCallFits(c) ==
  /\ running[c] \in BeforeIntent =>
       c \notin intents /\ decisions[c] # <<>> /\ Decision(c).op = running[c]
  /\ running[c] \in AfterIntent => c \in intents /\ decisions[c] # <<>>
  /\ running[c] = "mirror" => HasResult(c)
  /\ running[c] = "execute" => Decision(c).op = "re-execute"
  /\ ended[c] = "substituted" => c \in intents /\ decisions[c] # <<>> /\ HasResult(c)
  /\ running[c] = "execute" \/ c \notin intents => \A e \in live : e.call # c

LiveFits(e) ==
  /\ decisions[e.call] # <<>>
  /\ Decision(e.call).op = "re-execute"

ReplayInv ==
  /\ ReplayTypeOK /\ DecisionsFollow /\ UsedOnce /\ UsedInOrder
  /\ \A n \in consumed : IsUsed(n)
  /\ \A c \in ReplayCalls : ReplayCallFits(c)
  /\ \A e \in live : LiveFits(e)
  /\ \A e, f \in live : e.call = f.call => e = f

LEMMA LeastNumber ==
  ASSUME NEW S \in SUBSET Nat, S # {}
  PROVE  \E m \in S : \A n \in S : m <= n
<1>1. PICK R : R = OpToRel(<, Nat)
  OBVIOUS
<1>2. IsWellFoundedOn(R, Nat)
  BY <1>1, NatLessThanWellFounded
<1>3. PICK m \in S : \A n \in S : ~ (<<n, m>> \in R)
  BY <1>2, WFMin
<1>4. \A n \in S : ~ (n < m)
  BY <1>1, <1>3 DEF OpToRel
<1> QED BY <1>4

\* What lookup finds is the first match.
LEMMA LookupIsFirst ==
  ASSUME DOMAIN source \subseteq Nat \ {NoNode}, NEW used
  PROVE  \/ Matches(used) = {} /\ Lookup(used) = NoNode
         \/ /\ Lookup(used) \in Matches(used) /\ Lookup(used) # NoNode
            /\ \A k \in Matches(used) : Lookup(used) <= k
<1>1. CASE Matches(used) = {}
  BY <1>1 DEF Lookup
<1>2. CASE Matches(used) # {}
  <2>1. Matches(used) \in SUBSET Nat /\ NoNode \notin Matches(used)
    BY DEF Matches
  <2>2. \E n \in Matches(used) : \A k \in Matches(used) : n <= k
    BY <1>2, <2>1, LeastNumber
  <2>3. Lookup(used) = CHOOSE n \in Matches(used) : \A k \in Matches(used) : n <= k
    BY <1>2 DEF Lookup
  <2> QED BY <2>1, <2>2, <2>3
<1> QED BY <1>1, <1>2

LEMMA RestoredIsUsed ==
  ASSUME ReplayTypeOK, \A n \in consumed : IsUsed(n), NEW n
  PROVE  n \in Restored <=> IsUsed(n)
<1>1. ASSUME NEW c \in ReplayCalls PROVE DOMAIN decisions[c] = 1 .. Len(decisions[c])
  <2>1. decisions[c] \in Seq(Verdicts)
    BY DEF ReplayTypeOK
  <2> QED BY <2>1
<1>2. n \in Restored <=>
        n \in consumed \/ \E c \in ReplayCalls : \E k \in DOMAIN decisions[c] : decisions[c][k].node = n
  BY DEF Restored
<1> QED BY <1>1, <1>2 DEF IsUsed

\* Only a class that may be executed live is.
LEMMA LiveIsAllowed ==
  ASSUME ReplayTypeOK, NEW n \in DOMAIN source \cup {NoNode},
         Operation(n) = "re-execute"
  PROVE  /\ setup.mode # "strict"
         /\ tool.class = ExternalWrite \/ (n # NoNode /\ source[n].class = ExternalWrite)
              => setup.external \/ tool.observability
<1>1. tool.class \in Classes /\ (n # NoNode => source[n].class \in Classes)
  BY DEF ReplayTypeOK, Nodes
<1>2. setup.mode # "strict"
  BY DEF Operation, PresentOperation, AbsentOperation
<1>3. Effective(n) # ExternalWrite \/ setup.external
  <2> SUFFICES ASSUME Effective(n) = ExternalWrite, ~setup.external PROVE FALSE
    OBVIOUS
  <2>1. setup.mode \in {"best effort", "reroute"}
    BY <1>2 DEF ReplayTypeOK
  <2>2. CASE n = NoNode
    <3>1. AbsentOperation(Effective(n)) = "refuse"
      BY <1>2 DEF AbsentOperation
    <3> QED BY <2>2, <3>1 DEF Operation
  <2>3. CASE n # NoNode
    <3>1. PresentOperation(Effective(n)) \in {"refuse", "substitute"}
      BY <2>1 DEF PresentOperation
    <3> QED BY <2>3, <3>1 DEF Operation
  <2> QED BY <2>2, <2>3
<1>4. ASSUME tool.class = ExternalWrite \/ (n # NoNode /\ source[n].class = ExternalWrite),
             ~tool.observability
      PROVE  Effective(n) = ExternalWrite
  BY <1>1, <1>4 DEF Effective, Stricter, ExternalWrite, Classes
<1> QED BY <1>2, <1>3, <1>4

LEMMA ReplayStart == ReplayInit => ReplayInv
<1> SUFFICES ASSUME ReplayInit PROVE ReplayInv
  OBVIOUS
<1>1. DOMAIN source \subseteq Nat \ {NoNode} /\ \A n \in DOMAIN source : source[n] \in Nodes
  <2>1. PICK k \in 0 .. MaxSource : source \in [1 .. k -> Nodes]
    BY DEF ReplayInit
  <2> QED BY <2>1 DEF NoNode
<1>2. \A c \in ReplayCalls : decisions[c] = <<>> /\ Len(decisions[c]) = 0
  BY DEF ReplayInit
<1>3. ReplayTypeOK
  <2>1. <<>> \in Seq(Verdicts)
    OBVIOUS
  <2>2. decisions \in [ReplayCalls -> Seq(Verdicts)]
    BY <2>1 DEF ReplayInit
  <2> QED BY <1>1, <2>2 DEF ReplayInit, ReplayTypeOK
<1>4. DecisionsFollow /\ UsedOnce /\ UsedInOrder
  BY <1>2 DEF DecisionsFollow, UsedOnce, UsedInOrder, IsUsed
<1>5. \A c \in ReplayCalls : ReplayCallFits(c)
  BY DEF ReplayInit, ReplayCallFits, BeforeIntent, AfterIntent
<1> QED BY <1>3, <1>4, <1>5 DEF ReplayInit, ReplayInv

LEMMA OperationsStay ==
  ASSUME UNCHANGED <<source, tool, setup>>
  PROVE  \A n : Operation(n)' = Operation(n)
BY DEF Operation, PresentOperation, AbsentOperation, Effective

\* What is decided stays so while nothing is decided.
LEMMA DecisionsStay ==
  ASSUME ReplayInv, UNCHANGED <<source, tool, setup, decisions>>
  PROVE  /\ DecisionsFollow' /\ UsedOnce' /\ UsedInOrder'
         /\ \A n : IsUsed(n)' <=> IsUsed(n)
         /\ \A c : Decision(c)' = Decision(c) /\ (HasResult(c)' <=> HasResult(c))
<1>1. \A n : Operation(n)' = Operation(n)
  BY OperationsStay
<1>2. \A n : IsUsed(n)' <=> IsUsed(n)
  BY DEF IsUsed
<1>3. Matches({})' = Matches({})
  BY DEF Matches
<1>4. DecisionsFollow'
  BY <1>1 DEF ReplayInv, DecisionsFollow
<1>5. UsedOnce'
  BY DEF ReplayInv, UsedOnce
<1>6. UsedInOrder'
  BY <1>2, <1>3 DEF ReplayInv, UsedInOrder
<1>7. \A c : Decision(c)' = Decision(c) /\ (HasResult(c)' <=> HasResult(c))
  BY DEF Decision, HasResult
<1> QED BY <1>2, <1>4, <1>5, <1>6, <1>7

\* One call moves on without a decision.
LEMMA ReplayMoves ==
  ASSUME ReplayInv, UNCHANGED <<source, tool, setup, decisions, consumed, stops>>,
         NEW c \in ReplayCalls, NEW w \in {"idle"} \cup BeforeIntent \cup AfterIntent,
         Goto(c, w), ReplayCallFits(c)',
         intents' \in {intents, intents \cup {c}},
         ended' \in [ReplayCalls -> {"open", "substituted", "refused", "executed"}],
         \A d \in ReplayCalls : d # c => ended'[d] = ended[d],
         live' \subseteq Executions, \A e \in live' : e \in live \/ e.call = c,
         \A e \in live' : LiveFits(e)',
         \A e, f \in live' : e.call = f.call => e = f
  PROVE  ReplayInv'
<1>1. ReplayTypeOK'
  BY DEF ReplayInv, ReplayTypeOK, Goto
<1>2. ASSUME NEW d \in ReplayCalls PROVE ReplayCallFits(d)'
  <2>1. CASE d = c
    BY <2>1
  <2>2. CASE d # c
    <3>1. running'[d] = running[d] /\ ended'[d] = ended[d] /\ ReplayCallFits(d)
          /\ (d \in intents' <=> d \in intents) /\ decisions' = decisions
          /\ \A e \in live' : e.call = d => e \in live
      BY <2>2 DEF ReplayInv, ReplayTypeOK, Goto
    <3> QED BY <3>1, DecisionsStay DEF ReplayCallFits
  <2> QED BY <2>1, <2>2
<1> QED BY <1>1, <1>2, DecisionsStay DEF ReplayInv

LEMMA RefusedKeeps ==
  ASSUME ReplayInv, NEW c \in ReplayCalls,
         consumed' = Restored, UNCHANGED <<decisions, running>>,
         UNCHANGED <<source, tool, setup, intents, ended, live, stops>>
  PROVE  ReplayInv'
<1>1. \A n \in consumed' : IsUsed(n)
  BY RestoredIsUsed DEF ReplayInv
<1>2. ASSUME NEW d \in ReplayCalls PROVE ReplayCallFits(d)'
  <2>1. ReplayCallFits(d)
    BY DEF ReplayInv
  <2> QED BY <2>1, DecisionsStay DEF ReplayCallFits
<1>3. \A e \in live' : LiveFits(e)'
  BY DecisionsStay DEF ReplayInv, LiveFits
<1> QED BY <1>1, <1>2, <1>3, DecisionsStay DEF ReplayInv, ReplayTypeOK

\* The first recording that is not used is, or none is left, and one more
\* decision says so.
LEMMA DecidedKeeps ==
  ASSUME ReplayInv, NEW c \in ReplayCalls, running[c] = "idle", c \notin intents,
         NEW n, n = Lookup(Restored),
         consumed' = Restored \cup ({n} \ {NoNode}),
         decisions' = [decisions EXCEPT ![c] = Append(@, [node |-> n, op |-> Operation(n)])],
         Goto(c, IF Operation(n) = "fail" THEN "idle" ELSE Operation(n)),
         UNCHANGED <<source, tool, setup, intents, ended, live, stops>>
  PROVE  ReplayInv'
<1>1. PICK r, old : r = [node |-> n, op |-> Operation(n)] /\ old = Len(decisions[c])
  OBVIOUS
<1>2. n \in DOMAIN source \cup {NoNode} /\ n \in Nat
  <2>1. DOMAIN source \subseteq Nat \ {NoNode}
    BY DEF ReplayInv, ReplayTypeOK
  <2>2. n = NoNode \/ n \in Matches(Restored)
    BY <2>1, LookupIsFirst
  <2> QED BY <2>1, <2>2 DEF Matches, NoNode
<1>3. Operation(n) \in {"substitute", "refuse", "re-execute", "fail"}
  BY DEF Operation, PresentOperation, AbsentOperation
<1>4. r \in Verdicts /\ r.node = n /\ r.op = Operation(n)
  BY <1>1, <1>2, <1>3 DEF Verdicts
<1>5. decisions[c] \in Seq(Verdicts) /\ old \in Nat
  <2>1. decisions[c] \in Seq(Verdicts)
    BY DEF ReplayInv, ReplayTypeOK
  <2> QED BY <1>1, <2>1
<1>6. /\ Append(decisions[c], r) \in Seq(Verdicts)
      /\ Len(Append(decisions[c], r)) = old + 1
      /\ Append(decisions[c], r)[old + 1] = r
      /\ \A k \in 1 .. old : Append(decisions[c], r)[k] = decisions[c][k]
  BY <1>1, <1>4, <1>5
<1>7. /\ decisions' \in [ReplayCalls -> Seq(Verdicts)]
      /\ decisions'[c] = Append(decisions[c], r)
      /\ \A d \in ReplayCalls : d # c => decisions'[d] = decisions[d]
  BY <1>1, <1>6 DEF ReplayInv, ReplayTypeOK
<1>8. /\ decisions'[c] # <<>> /\ Len(decisions'[c]) = old + 1
      /\ decisions'[c][old + 1] = r /\ Decision(c)' = r
  BY <1>5, <1>6, <1>7 DEF Decision
<1>9. ASSUME NEW d \in ReplayCalls, NEW k \in 1 .. Len(decisions'[d])
      PROVE  \/ d = c /\ k = old + 1 /\ decisions'[d][k] = r
             \/ k \in 1 .. Len(decisions[d]) /\ decisions'[d][k] = decisions[d][k]
  <2>1. CASE d = c
    <3>1. k \in 1 .. old + 1
      BY <1>8, <2>1
    <3>2. CASE k = old + 1
      BY <1>8, <2>1, <3>2
    <3>3. CASE k \in 1 .. old
      BY <1>1, <1>6, <1>7, <2>1, <3>3
    <3> QED BY <1>5, <3>1, <3>2, <3>3
  <2>2. CASE d # c
    BY <1>7, <2>2
  <2> QED BY <2>1, <2>2
<1>10. ASSUME NEW d \in ReplayCalls, NEW k \in 1 .. Len(decisions[d])
       PROVE  k \in 1 .. Len(decisions'[d]) /\ decisions'[d][k] = decisions[d][k]
  <2>1. CASE d = c
    BY <1>1, <1>5, <1>6, <1>7, <2>1
  <2>2. CASE d # c
    BY <1>7, <2>2
  <2> QED BY <2>1, <2>2
<1>11. \A m : IsUsed(m)' <=> IsUsed(m) \/ m = n
  <2>1. ASSUME NEW m, IsUsed(m) PROVE IsUsed(m)'
    BY <1>10, <2>1 DEF IsUsed
  <2>2. IsUsed(n)'
    <3>1. old + 1 \in 1 .. Len(decisions'[c])
      BY <1>5, <1>8
    <3> QED BY <1>4, <1>8, <3>1 DEF IsUsed
  <2>3. ASSUME NEW m, IsUsed(m)' PROVE IsUsed(m) \/ m = n
    BY <1>4, <1>9, <2>3 DEF IsUsed
  <2> QED BY <2>1, <2>2, <2>3
<1>12. \A m : Operation(m)' = Operation(m)
  BY OperationsStay
<1>13. n # NoNode => ~IsUsed(n) /\ \A m \in Matches({}) : m < n => IsUsed(m)
  <2>1. ASSUME n # NoNode PROVE n \in Matches(Restored) /\ \A m \in Matches(Restored) : n <= m
    BY <2>1, LookupIsFirst DEF ReplayInv, ReplayTypeOK
  <2>2. \A m : m \in Restored <=> IsUsed(m)
    BY RestoredIsUsed DEF ReplayInv
  <2>3. \A m \in Matches({}) : m \in Nat /\ (m \in Restored \/ m \in Matches(Restored))
    BY DEF Matches, ReplayInv, ReplayTypeOK
  <2> QED BY <1>2, <2>1, <2>2, <2>3 DEF Matches
<1>14. DecisionsFollow'
  BY <1>2, <1>4, <1>9, <1>12 DEF ReplayInv, DecisionsFollow
<1>15. UsedOnce'
  <2> SUFFICES ASSUME NEW d \in ReplayCalls, NEW e \in ReplayCalls,
                      NEW k \in 1 .. Len(decisions'[d]), NEW l \in 1 .. Len(decisions'[e]),
                      decisions'[d][k].node # NoNode,
                      decisions'[d][k].node = decisions'[e][l].node
               PROVE  d = e /\ k = l
    BY DEF UsedOnce
  <2>1. CASE ~(d = c /\ k = old + 1) /\ ~(e = c /\ l = old + 1)
    BY <1>9, <2>1 DEF ReplayInv, UsedOnce
  <2>2. CASE d = c /\ k = old + 1
    BY <1>4, <1>8, <1>9, <1>13, <2>2 DEF IsUsed
  <2>3. CASE e = c /\ l = old + 1
    BY <1>4, <1>8, <1>9, <1>13, <2>3 DEF IsUsed
  <2> QED BY <2>1, <2>2, <2>3
<1>16. UsedInOrder'
  <2>1. Matches({})' = Matches({})
    BY DEF Matches
  <2>2. ASSUME NEW m \in DOMAIN source, IsUsed(m)', NEW k \in Matches({}), k < m
        PROVE  IsUsed(k)'
    BY <1>11, <1>13, <2>2 DEF ReplayInv, UsedInOrder, ReplayTypeOK
  <2> QED BY <2>1, <2>2 DEF UsedInOrder
<1>17. \A m \in consumed' : IsUsed(m)'
  BY <1>11, RestoredIsUsed DEF ReplayInv
<1>18. ASSUME NEW d \in ReplayCalls, d # c
       PROVE Decision(d)' = Decision(d) /\ (HasResult(d)' <=> HasResult(d))
  BY <1>7, <1>18 DEF Decision, HasResult
<1>19. ASSUME NEW d \in ReplayCalls PROVE ReplayCallFits(d)'
  <2>1. CASE d = c
    <3>1. ReplayCallFits(c)
      BY DEF ReplayInv
    <3>2. running'[c] = IF Operation(n) = "fail" THEN "idle" ELSE Operation(n)
      BY DEF Goto, ReplayInv, ReplayTypeOK
    <3> QED BY <1>3, <1>4, <1>8, <2>1, <3>1, <3>2
            DEF ReplayCallFits, BeforeIntent, AfterIntent
  <2>2. CASE d # c
    <3>1. ReplayCallFits(d) /\ running'[d] = running[d] /\ decisions'[d] = decisions[d]
      BY <1>7, <2>2 DEF ReplayInv, Goto, ReplayTypeOK
    <3> QED BY <1>18, <2>2, <3>1 DEF ReplayCallFits
  <2> QED BY <2>1, <2>2
<1>20. ASSUME NEW e \in live' PROVE LiveFits(e)'
  <2>1. e \in live /\ e.call \in ReplayCalls /\ LiveFits(e) /\ e.call # c
    BY DEF ReplayInv, ReplayTypeOK, Executions, ReplayCallFits
  <2> QED BY <1>7, <1>18, <2>1 DEF LiveFits
<1>21. ReplayTypeOK'
  <2>1. running' \in [ReplayCalls -> {"idle"} \cup BeforeIntent \cup AfterIntent]
    BY <1>3 DEF Goto, ReplayInv, ReplayTypeOK, BeforeIntent
  <2> QED BY <1>7, <2>1 DEF ReplayInv, ReplayTypeOK
<1> QED BY <1>14, <1>15, <1>16, <1>17, <1>19, <1>20, <1>21 DEF ReplayInv

LEMMA DecideKeeps ==
  ASSUME ReplayInv, NEW c \in ReplayCalls, Decide(c)
  PROVE  ReplayInv'
<1>1. PICK n : n = Lookup(Restored)
  OBVIOUS
<1>2. CASE DowngradeRefused(n)
  BY <1>1, <1>2, RefusedKeeps DEF Decide
<1>3. CASE ~DowngradeRefused(n)
  BY <1>1, <1>3, DecidedKeeps DEF Decide
<1> QED BY <1>2, <1>3

LEMMA IntendKeeps ==
  ASSUME ReplayInv, NEW c \in ReplayCalls, Intend(c)
  PROVE  ReplayInv'
<1> DEFINE bare == running[c] = "substitute" /\ source[Decision(c).node].end # "result"
<1>1. /\ running[c] \in BeforeIntent
      /\ UNCHANGED <<source, tool, setup, decisions, ended, consumed, live, stops>>
      /\ ReplayCallFits(c)
  BY DEF Intend, BeforeIntent, ReplayInv
<1>2. \A e \in live' : LiveFits(e)'
  BY <1>1, DecisionsStay DEF ReplayInv, LiveFits
<1>3. CASE bare
  <2>1. Goto(c, "idle") /\ UNCHANGED intents
    BY <1>3 DEF Intend
  <2>2. running'[c] = "idle"
    BY <2>1 DEF Goto, ReplayInv, ReplayTypeOK
  <2>3. ReplayCallFits(c)'
    BY <1>1, <2>1, <2>2, DecisionsStay DEF ReplayCallFits, BeforeIntent, AfterIntent
  <2> QED BY <1>1, <1>2, <2>1, <2>3, ReplayMoves DEF ReplayInv, ReplayTypeOK
<1>4. CASE ~bare
  <2>1. PICK w : w = CASE running[c] = "substitute" -> "mirror"
                       [] running[c] = "refuse" -> "reject"
                       [] OTHER -> "execute"
    OBVIOUS
  <2>2. Goto(c, w) /\ intents' = intents \cup {c}
    BY <1>4, <2>1 DEF Intend
  <2>3. /\ w \in {"mirror", "reject", "execute"}
        /\ w = "mirror" => running[c] = "substitute"
        /\ w = "execute" => running[c] = "re-execute"
    BY <1>1, <2>1 DEF BeforeIntent
  <2>4. running'[c] = w
    BY <2>2 DEF Goto, ReplayInv, ReplayTypeOK
  <2>5. ReplayCallFits(c)'
    BY <1>1, <1>4, <2>2, <2>3, <2>4, DecisionsStay
       DEF ReplayCallFits, BeforeIntent, AfterIntent, HasResult
  <2>6. w \in {"idle"} \cup BeforeIntent \cup AfterIntent
    BY <2>3 DEF AfterIntent
  <2> QED BY <1>1, <1>2, <2>2, <2>5, <2>6, ReplayMoves DEF ReplayInv, ReplayTypeOK
<1> QED BY <1>3, <1>4

LEMMA ExecuteLiveKeeps ==
  ASSUME ReplayInv, NEW c \in ReplayCalls, ExecuteLive(c)
  PROVE  ReplayInv'
<1>1. PICK e : e = [call |-> c, class |-> Effective(Decision(c).node), after |-> stops]
  OBVIOUS
<1>2. /\ running[c] = "execute" /\ ReplayCallFits(c) /\ Goto(c, "executed")
      /\ live' = live \cup {e}
      /\ UNCHANGED <<source, tool, setup, decisions, intents, ended, consumed, stops>>
  BY <1>1 DEF ExecuteLive, ReplayInv, tape
<1>3. /\ c \in intents /\ decisions[c] # <<>> /\ Decision(c).op = "re-execute"
      /\ \A f \in live : f.call # c
  BY <1>2 DEF ReplayCallFits, AfterIntent
<1>4. PICK n : n = Decision(c).node
  OBVIOUS
<1>5. n \in DOMAIN source \cup {NoNode}
  <2>1. decisions[c] \in Seq(Verdicts)
    BY DEF ReplayInv, ReplayTypeOK
  <2>2. Len(decisions[c]) \in 1 .. Len(decisions[c])
    BY <1>3, <2>1
  <2> QED BY <1>4, <2>2 DEF ReplayInv, DecisionsFollow, Decision
<1>6. e \in Executions /\ e.call = c
  <2>1. tool.class \in Classes /\ (n # NoNode => source[n].class \in Classes)
    BY <1>5 DEF ReplayInv, ReplayTypeOK, Nodes
  <2>2. Effective(n) \in Classes
    BY <2>1 DEF Effective, Stricter, ReadOnly, Classes
  <2>3. stops \in Nat
    BY DEF ReplayInv, ReplayTypeOK
  <2> QED BY <1>1, <1>4, <2>2, <2>3 DEF Executions
<1>7. ASSUME NEW f \in live' PROVE LiveFits(f)'
  BY <1>2, <1>3, <1>6, DecisionsStay DEF ReplayInv, LiveFits
<1>8. running'[c] = "executed"
  BY <1>2 DEF Goto, ReplayInv, ReplayTypeOK
<1>9. ReplayCallFits(c)'
  BY <1>2, <1>3, <1>8, DecisionsStay DEF ReplayCallFits, BeforeIntent, AfterIntent
<1> QED BY <1>2, <1>3, <1>6, <1>7, <1>9, ReplayMoves
        DEF ReplayInv, ReplayTypeOK, AfterIntent

LEMMA ConcludeKeeps ==
  ASSUME ReplayInv, NEW c \in ReplayCalls, Conclude(c)
  PROVE  ReplayInv'
<1>1. PICK w : w = CASE running[c] = "mirror" -> "substituted"
                     [] running[c] = "reject" -> "refused"
                     [] OTHER -> "executed"
  OBVIOUS
<1>2. /\ running[c] \in {"mirror", "reject", "executed"} /\ ReplayCallFits(c)
      /\ ended' = [ended EXCEPT ![c] = w] /\ Goto(c, "idle")
      /\ UNCHANGED <<source, tool, setup, decisions, intents, consumed, live, stops>>
  BY <1>1 DEF Conclude, ReplayInv
<1>3. /\ w \in {"substituted", "refused", "executed"}
      /\ w = "substituted" => running[c] = "mirror"
  BY <1>1
<1>4. running'[c] = "idle" /\ ended'[c] = w
      /\ ended' \in [ReplayCalls -> {"open", "substituted", "refused", "executed"}]
      /\ \A d \in ReplayCalls : d # c => ended'[d] = ended[d]
  BY <1>2, <1>3 DEF Goto, ReplayInv, ReplayTypeOK
<1>5. ReplayCallFits(c)'
  BY <1>2, <1>3, <1>4, DecisionsStay DEF ReplayCallFits, BeforeIntent, AfterIntent
<1>6. \A e \in live' : LiveFits(e)'
  BY <1>2, DecisionsStay DEF ReplayInv, LiveFits
<1> QED BY <1>2, <1>4, <1>5, <1>6, ReplayMoves DEF ReplayInv, ReplayTypeOK

LEMMA StopReplayKeeps ==
  ASSUME ReplayInv, StopReplay
  PROVE  ReplayInv'
<1>1. /\ running' = [c \in ReplayCalls |-> "idle"] /\ consumed' = {} /\ stops' = stops + 1
      /\ UNCHANGED <<source, tool, setup, decisions, intents, ended, live>>
  BY DEF StopReplay, tape
<1>2. ASSUME NEW c \in ReplayCalls PROVE ReplayCallFits(c)'
  <2>1. ReplayCallFits(c) /\ running'[c] = "idle"
    BY <1>1 DEF ReplayInv
  <2> QED BY <1>1, <2>1, DecisionsStay DEF ReplayCallFits, BeforeIntent, AfterIntent
<1>3. \A e \in live' : LiveFits(e)'
  BY <1>1, DecisionsStay DEF ReplayInv, LiveFits
<1>4. ReplayTypeOK'
  <2>1. ReplayTypeOK
    BY DEF ReplayInv
  <2>2. running' \in [ReplayCalls -> {"idle"} \cup BeforeIntent \cup AfterIntent]
    BY <1>1
  <2>3. stops' \in Nat
    <3>1. stops \in Nat
      BY <2>1 DEF ReplayTypeOK
    <3> QED BY <1>1, <3>1
  <2> QED BY <1>1, <2>1, <2>2, <2>3 DEF ReplayTypeOK
<1> QED BY <1>1, <1>2, <1>3, <1>4, DecisionsStay DEF ReplayInv

LEMMA ReplayStep == ReplayInv /\ [ReplayNext]_replayVars => ReplayInv'
<1> SUFFICES ASSUME ReplayInv, [ReplayNext]_replayVars PROVE ReplayInv'
  OBVIOUS
<1>1. CASE UNCHANGED replayVars
  <2>1. UNCHANGED <<source, tool, setup, decisions, intents, ended, consumed,
                    running, live, stops>>
    BY <1>1 DEF replayVars, tape
  <2>2. ASSUME NEW c \in ReplayCalls PROVE ReplayCallFits(c)'
    <3>1. ReplayCallFits(c)
      BY DEF ReplayInv
    <3> QED BY <2>1, <3>1, DecisionsStay DEF ReplayCallFits
  <2>3. \A e \in live' : LiveFits(e)'
    BY <2>1, DecisionsStay DEF ReplayInv, LiveFits
  <2> QED BY <2>1, <2>2, <2>3, DecisionsStay DEF ReplayInv, ReplayTypeOK
<1>2. CASE ReplayNext
  BY <1>2, DecideKeeps, IntendKeeps, ExecuteLiveKeeps, ConcludeKeeps,
     StopReplayKeeps DEF ReplayNext
<1> QED BY <1>1, <1>2

LEMMA ReplayConcludes == ReplayInv => ReplaySound
<1> SUFFICES ASSUME ReplayInv PROVE ReplaySound
  OBVIOUS
<1>1. ASSUME NEW c \in ReplayCalls
      PROVE  /\ DOMAIN decisions[c] = 1 .. Len(decisions[c])
             /\ decisions[c] # <<>> => Len(decisions[c]) \in 1 .. Len(decisions[c])
  <2>1. decisions[c] \in Seq(Verdicts)
    BY DEF ReplayInv, ReplayTypeOK
  <2> QED BY <2>1
<1>2. ASSUME NEW e \in live
      PROVE  /\ setup.mode # "strict"
             /\ LET n == Decision(e.call).node IN
                tool.class = ExternalWrite \/ (n # NoNode /\ source[n].class = ExternalWrite)
                   => setup.external \/ tool.observability
  <2>1. e.call \in ReplayCalls /\ decisions[e.call] # <<>> /\ Decision(e.call).op = "re-execute"
    BY DEF ReplayInv, ReplayTypeOK, Executions, LiveFits
  <2>2. PICK n : n = Decision(e.call).node
    OBVIOUS
  <2>3. n \in DOMAIN source \cup {NoNode} /\ Operation(n) = "re-execute"
    BY <1>1, <2>1, <2>2 DEF ReplayInv, DecisionsFollow, Decision
  <2> QED BY <2>2, <2>3, LiveIsAllowed DEF ReplayInv
<1>3. ReplayTouchesOnlyAllowed
  <2>1. \A e, f \in live : e.call = f.call => e = f
    BY DEF ReplayInv
  <2>2. setup.mode = "strict" => live = {}
    BY <1>2
  <2> QED BY <1>2, <2>1, <2>2 DEF ReplayTouchesOnlyAllowed
<1>4. \A d : d \in AllDecisions <=>
        \E c \in ReplayCalls : \E k \in 1 .. Len(decisions[c]) : d = <<c, k>>
  BY <1>1 DEF AllDecisions
<1>5. \A d, e \in AllDecisions : d # e /\ NodeOf(d) # NoNode => NodeOf(d) # NodeOf(e)
  BY <1>4 DEF ReplayInv, UsedOnce, NodeOf
<1>6. \A n : IsUsed(n) <=> n \in {NodeOf(d) : d \in AllDecisions}
  <2>1. \A c \in ReplayCalls : \A k \in 1 .. Len(decisions[c]) :
          <<c, k>> \in AllDecisions /\ NodeOf(<<c, k>>) = decisions[c][k].node
    BY <1>4 DEF NodeOf
  <2>2. ASSUME NEW n, IsUsed(n) PROVE n \in {NodeOf(d) : d \in AllDecisions}
    <3>1. PICK c \in ReplayCalls : \E k \in 1 .. Len(decisions[c]) : decisions[c][k].node = n
      BY <2>2 DEF IsUsed
    <3>2. PICK k \in 1 .. Len(decisions[c]) : decisions[c][k].node = n
      BY <3>1
    <3>3. <<c, k>> \in AllDecisions /\ NodeOf(<<c, k>>) = n
      BY <2>1, <3>2
    <3> QED BY <3>3
  <2>3. ASSUME NEW d \in AllDecisions PROVE IsUsed(NodeOf(d))
    <3>1. PICK c \in ReplayCalls : \E k \in 1 .. Len(decisions[c]) : d = <<c, k>>
      BY <1>4
    <3>2. PICK k \in 1 .. Len(decisions[c]) : d = <<c, k>>
      BY <3>1
    <3>3. decisions[c][k].node = NodeOf(d)
      BY <2>1, <3>2
    <3> QED BY <3>3 DEF IsUsed
  <2> QED BY <2>2, <2>3
<1>7. \A n : IsUsed(n) => n \in DOMAIN source \cup {NoNode}
  BY DEF ReplayInv, DecisionsFollow, IsUsed
<1>8. \A n \in {NodeOf(d) : d \in AllDecisions} \ {NoNode} :
        \A m \in Matches({}) : m < n => m \in {NodeOf(d) : d \in AllDecisions} \ {NoNode}
  BY <1>6, <1>7 DEF ReplayInv, UsedInOrder, ReplayTypeOK, Matches
<1>9. \A c \in ReplayCalls : ended[c] = "substituted" => source[Decision(c).node].end = "result"
  BY DEF ReplayInv, ReplayCallFits, HasResult
<1> QED BY <1>3, <1>5, <1>8, <1>9 DEF ReplaySound, ConsumedOnceInOrder

\* A replay takes each recording once and in order and touches the live world
\* only as it may, each call at most once, however often the target is reopened
\* (replay_tools.py ToolReplayer.decide, tool_harness.py ToolHarness.call).
THEOREM ReplayIsSound == ReplaySpec => []ReplaySound
BY ReplayStart, ReplayStep, ReplayConcludes, PTL DEF ReplaySpec

-----------------------------------------------------------------------------
(***************************************************************************)
(* One reply of a stream.  The induction keeps what the sink was shown     *)
(* equal to what the attempt accumulated while it runs, and nothing shown  *)
(* before an attempt that may be repeated.                                 *)
(***************************************************************************)
AccType ==
  [text : 0 .. MaxPieces, calls : [Indexes -> {Missing} \cup ToolUse],
   finish : {Missing} \cup Finishes, usage : 0 .. 1]
ShownType == [text : Nat, pieces : [Indexes -> Nat]]

StreamTypes ==
  /\ adapter \in Streaming \cup SingleShot
  /\ plan \in [Indexes -> {Missing} \cup 0 .. MaxPieces]
  /\ acc \in AccType
  /\ shown \in ShownType
  /\ visible \in BOOLEAN
  /\ attempt \in 1 .. StreamAttempts
  /\ reply \in {Missing} \cup ReplyType

\* The pieces an accumulator has of a call, and the sink.
PiecesOf(calls, c) == IF calls[c] = Missing THEN 0 ELSE calls[c].pieces
Planned(c) == IF plan[c] = Missing THEN 0 ELSE plan[c]

\* What was shown is what was accumulated, as long as the attempt runs.
ShownIsHeard ==
  Answering =>
    /\ shown.text = acc.text
    /\ \A c \in Indexes : shown.pieces[c] = PiecesOf(acc.calls, c)

\* Nothing was shown of an attempt without a visible event, nor of those before.
InvisibleIsUnshown ==
  ~visible => shown.text = 0 /\ \A c \in Indexes : shown.pieces[c] = 0

\* Only what the model means is heard, and no piece of it twice.
HeardIsPlanned ==
  /\ \A c \in Indexes : acc.calls[c] # Missing => plan[c] # Missing
  /\ \A c \in Indexes : shown.pieces[c] <= Planned(c)

\* An error, and nothing else, says what went wrong.
ErrorsAreDetailed == ~Answering => (reply.stop = "error" <=> reply.detail # Missing)

\* The text of a reply is what was shown.
TextIsShown ==
  ~Answering /\ adapter \in Streaming =>
    /\ reply.stop # "error" => reply.text = shown.text
    /\ adapter = "chat_stream" => reply.text \in {shown.text, shown.text + 1}

StreamInv ==
  /\ StreamTypes /\ ShownIsHeard /\ InvisibleIsUnshown /\ HeardIsPlanned
  /\ ErrorsAreDetailed /\ TextIsShown /\ CallsAreWhole /\ CutIsNoSuccess

\* What makes a reply a good one, in the state of the attempt it ends.
GoodReply(r) ==
  /\ r \in ReplyType
  /\ r.stop = "error" <=> r.detail # Missing
  /\ adapter \in Streaming =>
       /\ r.stop # "error" => r.text = shown.text
       /\ adapter = "chat_stream" => r.text \in {shown.text, shown.text + 1}
  /\ \A c \in Heard(r.calls) :
       /\ r.calls[c].name
       /\ r.calls[c].pieces \in {0, plan[c]}
       /\ r.stop = "error" =>
            acc.finish = "content_filter" \/ adapter \in {"chat", "anthropic"}
  /\ adapter = "chat_stream" /\ r.stop # "error" =>
       acc.finish # Missing \/ Heard(r.calls) # {}

NoCalls == [c \in Indexes |-> Missing]

\* An attempt that ends with a good reply keeps the invariant.
LEMMA DoneKeepsStream ==
  ASSUME StreamInv, NEW r, GoodReply(r), Done(r)
  PROVE  StreamInv'
<1>1. reply' = r /\ reply' # Missing
  BY MissingIsNone DEF GoodReply, Done
<1>2. UNCHANGED <<adapter, plan, acc, shown, visible, attempt>>
  BY DEF Done
<1>3. StreamTypes'
  BY <1>1, <1>2 DEF StreamInv, StreamTypes, GoodReply
<1>4. ~Answering'
  BY <1>1 DEF Answering
<1>5. ShownIsHeard' /\ InvisibleIsUnshown' /\ HeardIsPlanned'
  BY <1>2, <1>4 DEF StreamInv, ShownIsHeard, InvisibleIsUnshown, HeardIsPlanned, Planned
<1>6. ErrorsAreDetailed' /\ TextIsShown'
  BY <1>1, <1>2 DEF ErrorsAreDetailed, TextIsShown, GoodReply
<1>7. CallsAreWhole'
  BY <1>1, <1>2 DEF CallsAreWhole, GoodReply, Heard
<1>8. CutIsNoSuccess'
  BY <1>1, <1>2 DEF CutIsNoSuccess, GoodReply, Heard
<1> QED
  BY <1>3, <1>5, <1>6, <1>7, <1>8 DEF StreamInv

\* Success and failure as records.
LEMMA SuccessIs ==
  ASSUME NEW s \in {"end_turn", "max_tokens", "tool_use"}, NEW t \in Nat,
         NEW cs \in [Indexes -> {Missing} \cup ToolUse], NEW u \in Nat
  PROVE  /\ Success(s, t, cs, u) \in ReplyType
         /\ Success(s, t, cs, u).stop # "error"
         /\ Success(s, t, cs, u).detail = Missing
         /\ Success(s, t, cs, u).text = t
         /\ Success(s, t, cs, u).calls = cs
BY DEF Success, ReplyType

LEMMA FailureIs ==
  ASSUME NEW d \in Details, NEW t \in Nat,
         NEW cs \in [Indexes -> {Missing} \cup ToolUse], NEW u \in Nat
  PROVE  /\ Failure(d, t, cs, u) \in ReplyType
         /\ Failure(d, t, cs, u).stop = "error"
         /\ Failure(d, t, cs, u).detail # Missing
         /\ Failure(d, t, cs, u).text = t
         /\ Failure(d, t, cs, u).calls = cs
BY MissingIsNone DEF Failure, ReplyType

LEMMA NothingHeard ==
  /\ Fresh.calls = NoCalls /\ NoCalls \in [Indexes -> {Missing} \cup ToolUse]
  /\ Heard(Fresh.calls) = {}
BY DEF Fresh, NoCalls, Heard

\* A failure that asks for nothing is good where it keeps the text it may owe.
LEMMA EmptyFailureIsGood ==
  ASSUME NEW d \in Details, NEW t \in Nat, NEW u \in Nat,
         adapter = "chat_stream" => t \in {shown.text, shown.text + 1}
  PROVE  GoodReply(Failure(d, t, Fresh.calls, u))
<1>1. /\ Failure(d, t, Fresh.calls, u) \in ReplyType
      /\ Failure(d, t, Fresh.calls, u).stop = "error"
      /\ Failure(d, t, Fresh.calls, u).detail # Missing
      /\ Failure(d, t, Fresh.calls, u).text = t
      /\ Failure(d, t, Fresh.calls, u).calls = Fresh.calls
  BY NothingHeard, FailureIs
<1> QED
  BY <1>1, NothingHeard DEF GoodReply

\* The terminal reply of a failed stream is a good one.
LEMMA PartialIsGood ==
  ASSUME StreamInv, Answering, NEW d \in Details
  PROVE  GoodReply(Partial(d))
<1>1. acc.text \in Nat /\ acc.usage \in Nat /\ shown.text = acc.text
  BY StreamBounds DEF StreamInv, StreamTypes, AccType, ShownIsHeard
<1> QED
  BY <1>1, EmptyFailureIsGood DEF Partial

-----------------------------------------------------------------------------
(* Streams *)

\* A chunk that is consumed, and what it adds is shown with it.
LEMMA ConsumedKeepsStream ==
  ASSUME StreamInv, Answering, NEW newAcc \in AccType, NEW newShown \in ShownType,
         Consumed(newAcc, newShown), newShown.text = newAcc.text,
         \A c \in Indexes : newShown.pieces[c] = PiecesOf(newAcc.calls, c),
         \A c \in Indexes : newAcc.calls[c] # Missing => plan[c] # Missing,
         \A c \in Indexes : newShown.pieces[c] <= Planned(c)
  PROVE  StreamInv'
<1>1. /\ acc' = newAcc /\ shown' = newShown
      /\ visible' = (visible \/ newShown # shown)
      /\ UNCHANGED <<adapter, plan, attempt, reply>>
  BY DEF Consumed
<1>2. StreamTypes'
  BY <1>1 DEF StreamInv, StreamTypes
<1>3. ShownIsHeard'
  BY <1>1 DEF ShownIsHeard, PiecesOf
<1>4. InvisibleIsUnshown'
  <2>1. ASSUME ~visible'
        PROVE  ~visible /\ shown' = shown
    BY <1>1, <2>1
  <2> QED
    BY <2>1 DEF StreamInv, InvisibleIsUnshown
<1>5. HeardIsPlanned'
  BY <1>1 DEF HeardIsPlanned, Planned
<1>6. Answering'
  BY <1>1 DEF Answering
<1>7. ErrorsAreDetailed' /\ TextIsShown' /\ CallsAreWhole' /\ CutIsNoSuccess'
  BY <1>6 DEF ErrorsAreDetailed, TextIsShown, CallsAreWhole, CutIsNoSuccess
<1> QED
  BY <1>2, <1>3, <1>4, <1>5, <1>7 DEF StreamInv

LEMMA TextDeltaKeepsStream ==
  ASSUME StreamInv, TextDelta
  PROVE  StreamInv'
<1> DEFINE newAcc == [acc EXCEPT !.text = @ + 1]
           newShown == [shown EXCEPT !.text = @ + 1]
<1>1. Consumed(newAcc, newShown) /\ Answering /\ acc.text < MaxPieces
  BY DEF TextDelta
<1>2. acc \in AccType /\ shown \in ShownType
  BY DEF StreamInv, StreamTypes
<1>3. newAcc \in AccType /\ newAcc.calls = acc.calls /\ newAcc.text = acc.text + 1
  BY <1>1, <1>2, StreamBounds DEF AccType
<1>4. /\ newShown \in ShownType /\ newShown.pieces = shown.pieces
      /\ newShown.text = shown.text + 1
  BY <1>2 DEF ShownType
<1>5. newShown.text = newAcc.text
  BY <1>1, <1>3, <1>4 DEF StreamInv, ShownIsHeard
<1>6. \A c \in Indexes : newShown.pieces[c] = PiecesOf(newAcc.calls, c)
  BY <1>1, <1>3, <1>4 DEF StreamInv, ShownIsHeard, PiecesOf
<1>7. /\ \A c \in Indexes : newAcc.calls[c] # Missing => plan[c] # Missing
      /\ \A c \in Indexes : newShown.pieces[c] <= Planned(c)
  BY <1>3, <1>4 DEF StreamInv, HeardIsPlanned
<1> HIDE DEF newAcc, newShown
<1> QED
  BY <1>1, <1>3, <1>4, <1>5, <1>6, <1>7, ConsumedKeepsStream

LEMMA CallDeltaKeepsStream ==
  ASSUME StreamInv, NEW c \in Indexes, CallDelta(c)
  PROVE  StreamInv'
<1> DEFINE heard == IF acc.calls[c] = Missing THEN NoCall ELSE acc.calls[c]
           named == [acc EXCEPT !.calls[c] = [heard EXCEPT !.name = TRUE]]
           more == [acc EXCEPT !.calls[c] = [heard EXCEPT !.pieces = @ + 1]]
           shownMore == [shown EXCEPT !.pieces[c] = @ + 1]
<1>1. acc \in AccType /\ shown \in ShownType
  BY DEF StreamInv, StreamTypes
<1>2. heard \in ToolUse /\ heard.pieces = PiecesOf(acc.calls, c)
  BY <1>1 DEF AccType, NoCall, ToolUse, PiecesOf
<1>3. Answering /\ plan[c] # Missing
  BY DEF CallDelta
<1>4. /\ shown.text = acc.text
      /\ \A k \in Indexes : shown.pieces[k] = PiecesOf(acc.calls, k)
  BY <1>3 DEF StreamInv, ShownIsHeard
<1>5. CASE Consumed(named, shown)
  <2> DEFINE use == [heard EXCEPT !.name = TRUE]
  <2>1. use \in ToolUse /\ use.pieces = heard.pieces /\ use # Missing
    BY <1>2, MissingIsNone DEF ToolUse
  <2> HIDE DEF use, heard
  <2>2. /\ named \in AccType /\ named.text = acc.text
        /\ named.calls = [acc.calls EXCEPT ![c] = use]
    BY <1>1, <2>1 DEF AccType, use
  <2>3. \A k \in Indexes : named.calls[k] = IF k = c THEN use ELSE acc.calls[k]
    BY <1>1, <2>2 DEF AccType
  <2> HIDE DEF named
  <2>4. \A k \in Indexes : shown.pieces[k] = PiecesOf(named.calls, k)
    BY <1>2, <1>4, <2>1, <2>3 DEF PiecesOf
  <2>5. \A k \in Indexes : named.calls[k] # Missing => plan[k] # Missing
    BY <1>3, <2>3 DEF StreamInv, HeardIsPlanned
  <2>6. \A k \in Indexes : shown.pieces[k] <= Planned(k)
    BY DEF StreamInv, HeardIsPlanned
  <2> QED
    BY <1>1, <1>3, <1>4, <1>5, <2>2, <2>4, <2>5, <2>6, ConsumedKeepsStream
<1>6. CASE heard.pieces < plan[c] /\ Consumed(more, shownMore)
  <2> DEFINE use == [heard EXCEPT !.pieces = @ + 1]
  <2>1. use \in ToolUse /\ use.pieces = heard.pieces + 1 /\ use # Missing
    BY <1>2, MissingIsNone DEF ToolUse
  <2>7. heard.pieces \in Nat /\ plan[c] \in Nat /\ heard.pieces < plan[c]
    BY <1>2, <1>3, <1>6 DEF StreamInv, StreamTypes, ToolUse
  <2> HIDE DEF use, heard
  <2>2. /\ more \in AccType /\ more.text = acc.text
        /\ more.calls = [acc.calls EXCEPT ![c] = use]
    BY <1>1, <2>1 DEF AccType, use
  <2>3. \A k \in Indexes : more.calls[k] = IF k = c THEN use ELSE acc.calls[k]
    BY <1>1, <2>2 DEF AccType
  <2> HIDE DEF more
  <2>4. /\ shownMore \in ShownType /\ shownMore.text = shown.text
        /\ \A k \in Indexes : shownMore.pieces[k] =
             IF k = c THEN shown.pieces[k] + 1 ELSE shown.pieces[k]
    BY <1>1 DEF ShownType
  <2> HIDE DEF shownMore
  <2>5. \A k \in Indexes : shownMore.pieces[k] = PiecesOf(more.calls, k)
    BY <1>2, <1>4, <2>1, <2>3, <2>4 DEF PiecesOf
  <2>6. \A k \in Indexes : more.calls[k] # Missing => plan[k] # Missing
    BY <1>3, <2>3 DEF StreamInv, HeardIsPlanned
  <2>8. \A k \in Indexes : shownMore.pieces[k] <= Planned(k)
    <3>1. TAKE k \in Indexes
    <3>2. CASE k = c
      <4>1. shownMore.pieces[c] = heard.pieces + 1
        BY <1>2, <1>4, <2>4
      <4>2. Planned(c) = plan[c]
        BY <1>3 DEF Planned
      <4> QED
        BY <2>7, <3>2, <4>1, <4>2
    <3>3. CASE k # c
      BY <2>4, <3>3 DEF StreamInv, HeardIsPlanned
    <3> QED
      BY <3>2, <3>3
  <2> QED
    BY <1>3, <1>4, <1>6, <2>2, <2>4, <2>5, <2>6, <2>8, ConsumedKeepsStream
<1> QED
  BY <1>5, <1>6 DEF CallDelta

\* A chunk that only says how the stream ends or what it cost.
LEMMA QuietKeepsStream ==
  ASSUME StreamInv, Answering, NEW newAcc \in AccType, newAcc.text = acc.text,
         newAcc.calls = acc.calls, Consumed(newAcc, shown)
  PROVE  StreamInv'
<1>1. /\ shown \in ShownType /\ shown.text = newAcc.text
      /\ \A c \in Indexes : shown.pieces[c] = PiecesOf(newAcc.calls, c)
  BY DEF StreamInv, StreamTypes, ShownIsHeard, PiecesOf
<1>2. /\ \A c \in Indexes : newAcc.calls[c] # Missing => plan[c] # Missing
      /\ \A c \in Indexes : shown.pieces[c] <= Planned(c)
  BY DEF StreamInv, HeardIsPlanned
<1> QED
  BY <1>1, <1>2, ConsumedKeepsStream

LEMMA UsageChunkKeepsStream ==
  ASSUME StreamInv, UsageChunk
  PROVE  StreamInv'
<1>1. acc \in AccType
  BY DEF StreamInv, StreamTypes
<1>2. /\ [acc EXCEPT !.usage = @ + 1] \in AccType
      /\ [acc EXCEPT !.usage = @ + 1].text = acc.text
      /\ [acc EXCEPT !.usage = @ + 1].calls = acc.calls
  BY <1>1 DEF AccType, UsageChunk
<1> QED
  BY <1>2, QuietKeepsStream DEF UsageChunk

LEMMA FinishChunkKeepsStream ==
  ASSUME StreamInv, FinishChunk
  PROVE  StreamInv'
<1>1. acc \in AccType /\ Answering
  BY DEF StreamInv, StreamTypes, FinishChunk
<1>2. PICK f \in Finishes : IF acc.finish \in {Missing, f}
                            THEN Consumed([acc EXCEPT !.finish = f], shown)
                            ELSE Done(Partial("provider"))
  BY DEF FinishChunk
<1>3. CASE acc.finish \in {Missing, f}
  <2>1. /\ [acc EXCEPT !.finish = f] \in AccType
        /\ [acc EXCEPT !.finish = f].text = acc.text
        /\ [acc EXCEPT !.finish = f].calls = acc.calls
    BY <1>1 DEF AccType
  <2> QED
    BY <1>1, <1>2, <1>3, <2>1, QuietKeepsStream
<1>4. CASE acc.finish \notin {Missing, f}
  <2>1. GoodReply(Partial("provider"))
    BY <1>1, PartialIsGood DEF Details
  <2> QED
    BY <1>2, <1>4, <2>1, DoneKeepsStream
<1> QED
  BY <1>3, <1>4

\* The text of a chunk that was spoiled is kept, though it was never shown.
LEMMA SpoiledChunkKeepsStream ==
  ASSUME StreamInv, SpoiledChunk
  PROVE  StreamInv'
<1> DEFINE r == Failure("provider", acc.text + 1, Fresh.calls, acc.usage)
<1>1. /\ adapter = "chat_stream" /\ Answering /\ acc.text < MaxPieces
      /\ acc' = [acc EXCEPT !.text = @ + 1] /\ reply' = r
      /\ UNCHANGED <<adapter, plan, shown, visible, attempt>>
  BY DEF SpoiledChunk
<1>2. /\ acc \in AccType /\ acc.text \in Nat /\ acc.usage \in Nat
      /\ shown.text = acc.text
  BY <1>1, StreamBounds DEF StreamInv, StreamTypes, AccType, ShownIsHeard
<1>3. /\ r \in ReplyType /\ r.stop = "error" /\ r.detail # Missing
      /\ r.text = acc.text + 1 /\ r.calls = Fresh.calls
  BY <1>2, FailureIs, NothingHeard DEF Details
<1> HIDE DEF r
<1>4. reply' # Missing /\ ~Answering'
  BY <1>1, <1>3, MissingIsNone DEF Answering
<1>5. acc' \in AccType /\ acc'.calls = acc.calls
  BY <1>1, <1>2, StreamBounds DEF AccType
<1>6. StreamTypes'
  BY <1>1, <1>3, <1>5 DEF StreamInv, StreamTypes
<1>7. ShownIsHeard' /\ InvisibleIsUnshown' /\ HeardIsPlanned'
  BY <1>1, <1>4, <1>5
     DEF StreamInv, ShownIsHeard, InvisibleIsUnshown, HeardIsPlanned, Planned
<1>8. ErrorsAreDetailed' /\ TextIsShown'
  BY <1>1, <1>2, <1>3 DEF ErrorsAreDetailed, TextIsShown
<1>9. CallsAreWhole' /\ CutIsNoSuccess'
  BY <1>1, <1>3, NothingHeard DEF CallsAreWhole, CutIsNoSuccess, Heard
<1> QED
  BY <1>6, <1>7, <1>8, <1>9 DEF StreamInv

\* What _make_reply makes of calls that have their name and all or nothing of
\* their arguments.
LEMMA MakeReplyIsGood ==
  ASSUME NEW t \in Nat, NEW cs \in [Indexes -> {Missing} \cup ToolUse],
         NEW f \in {Missing} \cup Finishes, NEW u \in Nat,
         \A c \in Heard(cs) : cs[c].name /\ cs[c].pieces \in {0, plan[c]},
         adapter \in Streaming => t = shown.text,
         f = acc.finish \/ adapter = "chat",
         StreamInv, Answering
  PROVE  GoodReply(MakeReply(t, cs, f, u))
<1> DEFINE r == MakeReply(t, cs, f, u)
<1>f. Missing \notin Finishes
  BY MissingIsNone
<1>s. Streaming = {"chat_stream", "responses"}
  BY DEF Streaming
<1>1. CASE f = "content_filter"
  <2>1. r = Failure("provider", t, cs, u)
    BY <1>1, <1>f DEF MakeReply, Finishes
  <2>2. /\ r \in ReplyType /\ r.stop = "error" /\ r.detail # Missing
        /\ r.text = t /\ r.calls = cs
    BY <2>1, FailureIs DEF Details
  <2> QED
    BY <1>1, <1>s, <2>2 DEF GoodReply
<1>2. CASE f # "content_filter" /\ (f = "tool_calls" \/ Heard(cs) # {})
  <2>1. r = Success("tool_use", t, cs, u)
    BY <1>2, <1>f DEF MakeReply, Finishes
  <2>2. /\ r \in ReplyType /\ r.stop # "error" /\ r.detail = Missing
        /\ r.text = t /\ r.calls = cs
    BY <2>1, SuccessIs
  <2>3. adapter = "chat_stream" => acc.finish # Missing \/ Heard(cs) # {}
    <3>1. f = "tool_calls" => f # Missing
      BY <1>f DEF Finishes
    <3> QED
      BY <1>2, <3>1
  <2>4. GoodReply(r)
    <3> HIDE DEF r
    <3> QED
      BY <1>s, <2>2, <2>3 DEF GoodReply
  <2> QED
    BY <2>4 DEF r
<1>3. CASE f = "length" /\ Heard(cs) = {}
  <2>1. r = Success("max_tokens", t, cs, u)
    <3>1. ~(f # "content_filter" /\ (f = "tool_calls" \/ Heard(cs) # {}))
      BY <1>3
    <3>2. f # "content_filter" /\ f # "stop" /\ f \notin {"other", Missing}
      BY <1>3, <1>f DEF Finishes
    <3> HIDE DEF r
    <3> QED
      BY <1>3, <3>1, <3>2 DEF MakeReply, r
  <2>2. /\ r \in ReplyType /\ r.stop # "error" /\ r.detail = Missing
        /\ r.text = t /\ r.calls = cs
    BY <2>1, SuccessIs
  <2> QED
    BY <1>3, <1>f, <1>s, <2>2 DEF GoodReply, Finishes
<1>4. CASE f = "stop" /\ Heard(cs) = {}
  <2>1. r = Success("end_turn", t, cs, u)
    BY <1>4, <1>f DEF MakeReply, Finishes
  <2>2. /\ r \in ReplyType /\ r.stop # "error" /\ r.detail = Missing
        /\ r.text = t /\ r.calls = cs
    BY <2>1, SuccessIs
  <2> QED
    BY <1>4, <1>f, <1>s, <2>2 DEF GoodReply, Finishes
<1>5. CASE f \in {"other", Missing} /\ Heard(cs) = {}
  <2>1. r = Partial("provider")
    BY <1>5, <1>f DEF MakeReply, Finishes
  <2> QED
    BY <2>1, PartialIsGood DEF Details
<1> QED
  BY <1>1, <1>2, <1>3, <1>4, <1>5 DEF Finishes

LEMMA EndOfChatKeepsStream ==
  ASSUME StreamInv, EndOfChat
  PROVE  StreamInv'
<1>1. adapter = "chat_stream" /\ Answering
  BY DEF EndOfChat
<1>2. /\ acc \in AccType /\ acc.text \in Nat /\ acc.usage \in Nat
      /\ shown.text = acc.text
  BY <1>1, StreamBounds DEF StreamInv, StreamTypes, AccType, ShownIsHeard
<1>3. CASE \E c \in Heard(acc.calls) : ~acc.calls[c].name \/ ~Parses(acc.calls, c)
  <2>1. Done(Partial("provider"))
    BY <1>3 DEF EndOfChat
  <2> QED
    BY <1>1, <2>1, PartialIsGood, DoneKeepsStream DEF Details
<1>4. CASE ~\E c \in Heard(acc.calls) : ~acc.calls[c].name \/ ~Parses(acc.calls, c)
  <2>1. Done(MakeReply(acc.text, acc.calls, acc.finish, acc.usage))
    BY <1>4 DEF EndOfChat
  <2>2. /\ acc.calls \in [Indexes -> {Missing} \cup ToolUse]
        /\ acc.finish \in {Missing} \cup Finishes
    BY <1>2 DEF AccType
  <2>3. \A c \in Heard(acc.calls) :
          acc.calls[c].name /\ acc.calls[c].pieces \in {0, plan[c]}
    BY <1>4 DEF Parses
  <2>4. GoodReply(MakeReply(acc.text, acc.calls, acc.finish, acc.usage))
    BY <1>1, <1>2, <2>2, <2>3, MakeReplyIsGood
  <2> QED
    BY <2>1, <2>4, DoneKeepsStream
<1> QED
  BY <1>3, <1>4

\* A success of a Responses stream.
LEMMA ResponseIsGood ==
  ASSUME StreamInv, adapter = "responses", Answering,
         NEW s \in {"end_turn", "max_tokens"},
         NEW cs \in [Indexes -> {Missing} \cup ToolUse],
         \A c \in Heard(cs) : cs[c].name /\ cs[c].pieces = plan[c]
  PROVE  GoodReply(Success(IF Heard(cs) # {} THEN "tool_use" ELSE s, acc.text, cs, 1))
<1> DEFINE stop == IF Heard(cs) # {} THEN "tool_use" ELSE s
           r == Success(stop, acc.text, cs, 1)
<1>1. stop \in {"end_turn", "max_tokens", "tool_use"}
  OBVIOUS
<1>2. acc.text \in Nat /\ shown.text = acc.text
  BY StreamBounds DEF StreamInv, StreamTypes, AccType, ShownIsHeard
<1> HIDE DEF stop
<1>3. /\ r \in ReplyType /\ r.stop # "error" /\ r.detail = Missing
      /\ r.text = acc.text /\ r.calls = cs
  BY <1>1, <1>2, SuccessIs
<1>4. GoodReply(r)
  <2> HIDE DEF r
  <2> QED
    BY <1>2, <1>3 DEF GoodReply
<1> QED
  BY <1>4 DEF stop

LEMMA EndOfResponsesKeepsStream ==
  ASSUME StreamInv, EndOfResponses
  PROVE  StreamInv'
<1>1. adapter = "responses" /\ Answering
  BY DEF EndOfResponses
<1>2. /\ plan \in [Indexes -> {Missing} \cup 0 .. MaxPieces]
      /\ acc.calls \in [Indexes -> {Missing} \cup ToolUse]
  BY DEF StreamInv, StreamTypes, AccType
<1>3. /\ Meant \in [Indexes -> {Missing} \cup ToolUse]
      /\ MeantSoFar \in [Indexes -> {Missing} \cup ToolUse]
  <2>1. \A c \in Indexes : plan[c] # Missing => [name |-> TRUE, pieces |-> plan[c]] \in ToolUse
    BY <1>2, StreamBounds DEF ToolUse
  <2>2. \A c \in Indexes : acc.calls[c] # Missing =>
          [name |-> TRUE, pieces |-> acc.calls[c].pieces] \in ToolUse
    BY <1>2 DEF ToolUse
  <2> QED
    BY <2>1, <2>2 DEF Meant, MeantSoFar
<1>4. \A c \in Heard(Meant) : Meant[c].name /\ Meant[c].pieces = plan[c]
  BY DEF Heard, Meant
<1>5. \A c \in Heard(MeantSoFar) : MeantSoFar[c].name
  BY DEF Heard, MeantSoFar
<1>6. GoodReply(Failure("provider", 0, Fresh.calls, 0))
  BY <1>1, EmptyFailureIsGood DEF Details
<1>7. CASE Done(Success(IF Heard(Meant) # {} THEN "tool_use" ELSE "end_turn",
                        acc.text, Meant, 1))
  BY <1>1, <1>3, <1>4, <1>7, ResponseIsGood, DoneKeepsStream
<1>8. CASE /\ \A c \in Heard(MeantSoFar) : MeantSoFar[c].pieces = plan[c]
           /\ Done(Success(IF Heard(MeantSoFar) # {} THEN "tool_use" ELSE "max_tokens",
                           acc.text, MeantSoFar, 1))
  BY <1>1, <1>3, <1>5, <1>8, ResponseIsGood, DoneKeepsStream
<1>9. CASE Done(Failure("provider", 0, Fresh.calls, 0))
  BY <1>6, <1>9, DoneKeepsStream
<1> QED
  BY <1>7, <1>8, <1>9 DEF EndOfResponses

LEMMA StreamFailsKeepsStream ==
  ASSUME StreamInv, StreamFails
  PROVE  StreamInv'
<1>1. Answering
  BY DEF StreamFails
<1>2. PICK d \in Details : Done(IF adapter = "chat_stream" THEN Partial(d)
                                ELSE Failure(d, 0, Fresh.calls, 0))
  BY DEF StreamFails
<1>3. CASE adapter = "chat_stream"
  BY <1>1, <1>2, <1>3, PartialIsGood, DoneKeepsStream
<1>4. CASE adapter # "chat_stream"
  BY <1>2, <1>4, EmptyFailureIsGood, DoneKeepsStream
<1> QED
  BY <1>3, <1>4

-----------------------------------------------------------------------------
(* Single answers *)

LEMMA GoodCallsAre ==
  ASSUME StreamInv, NEW body \in Bodies
  PROVE  /\ GoodCalls(body) \in [Indexes -> {Missing} \cup ToolUse]
         /\ \A c \in Heard(GoodCalls(body)) :
              GoodCalls(body)[c].name /\ GoodCalls(body)[c].pieces = plan[c]
<1>1. plan \in [Indexes -> {Missing} \cup 0 .. MaxPieces]
  BY DEF StreamInv, StreamTypes
<1>2. \A c \in Indexes : body[c] = "good" => plan[c] # Missing
  BY MissingIsNone DEF Bodies
<1>3. \A c \in Indexes : body[c] = "good" => [name |-> TRUE, pieces |-> plan[c]] \in ToolUse
  BY <1>1, <1>2, StreamBounds DEF ToolUse
<1> QED
  BY <1>3 DEF GoodCalls, Heard

\* A reply to a call that does not stream, with calls that are good ones.
LEMMA SingleSuccessIsGood ==
  ASSUME adapter \in SingleShot, NEW s \in {"end_turn", "max_tokens", "tool_use"},
         NEW t \in Nat, NEW cs \in [Indexes -> {Missing} \cup ToolUse],
         \A c \in Heard(cs) : cs[c].name /\ cs[c].pieces = plan[c]
  PROVE  GoodReply(Success(s, t, cs, 1))
<1> DEFINE r == Success(s, t, cs, 1)
<1>1. /\ r \in ReplyType /\ r.stop # "error" /\ r.detail = Missing
      /\ r.text = t /\ r.calls = cs
  BY SuccessIs
<1>2. adapter \notin Streaming /\ adapter # "chat_stream"
  BY DEF SingleShot, Streaming
<1> HIDE DEF r
<1>3. GoodReply(r)
  BY <1>1, <1>2 DEF GoodReply
<1> QED
  BY <1>3 DEF r

LEMMA SingleFailureIsGood ==
  ASSUME adapter \in SingleShot, NEW d \in Details, NEW t \in Nat, NEW u \in Nat,
         NEW cs \in [Indexes -> {Missing} \cup ToolUse],
         \A c \in Heard(cs) : cs[c].name /\ cs[c].pieces = plan[c],
         Heard(cs) # {} => adapter \in {"chat", "anthropic"}
  PROVE  GoodReply(Failure(d, t, cs, u))
<1> DEFINE r == Failure(d, t, cs, u)
<1>1. /\ r \in ReplyType /\ r.stop = "error" /\ r.detail # Missing
      /\ r.text = t /\ r.calls = cs
  BY FailureIs
<1>2. adapter \notin Streaming /\ adapter # "chat_stream"
  BY DEF SingleShot, Streaming
<1> HIDE DEF r
<1>3. GoodReply(r)
  BY <1>1, <1>2 DEF GoodReply
<1> QED
  BY <1>3 DEF r

LEMMA OllamaReplyIsGood ==
  ASSUME StreamInv, adapter = "ollama", NEW t \in Nat, NEW body \in Bodies,
         NEW f \in Finishes \cup {Missing}
  PROVE  GoodReply(OllamaReply(t, body, f))
<1>1. adapter \in SingleShot
  BY DEF SingleShot
<1>2. /\ Fresh.calls \in [Indexes -> {Missing} \cup ToolUse]
      /\ Heard(Fresh.calls) = {}
  BY NothingHeard
<1>3. CASE Heard(body) # {}
  BY <1>1, <1>3, GoodCallsAre, SingleSuccessIsGood DEF OllamaReply
<1>4. CASE Heard(body) = {} /\ f \in {"stop", Missing}
  <2>1. OllamaReply(t, body, f) = Success("end_turn", t, Fresh.calls, 1)
    BY <1>4, MissingIsNone DEF OllamaReply, Finishes
  <2> QED
    BY <1>1, <1>2, <2>1, SingleSuccessIsGood
<1>5. CASE Heard(body) = {} /\ f = "length"
  <2>1. OllamaReply(t, body, f) = Success("max_tokens", t, Fresh.calls, 1)
    BY <1>5, MissingIsNone DEF OllamaReply, Finishes
  <2> QED
    BY <1>1, <1>2, <2>1, SingleSuccessIsGood
<1>6. CASE Heard(body) = {} /\ f \notin {"stop", "length", Missing}
  <2>1. OllamaReply(t, body, f) = Failure("provider", t, Fresh.calls, 1)
    BY <1>6 DEF OllamaReply
  <2> QED
    BY <1>1, <1>2, <2>1, SingleFailureIsGood DEF Details
<1> QED
  BY <1>3, <1>4, <1>5, <1>6

LEMMA AnthropicReplyIsGood ==
  ASSUME StreamInv, adapter = "anthropic", NEW t \in Nat, NEW body \in Bodies,
         NEW f \in Finishes \cup {Missing}
  PROVE  GoodReply(AnthropicReply(t, body, f))
<1>1. adapter \in SingleShot
  BY DEF SingleShot
<1>2. CASE f = "stop"
  BY <1>1, <1>2, GoodCallsAre, SingleSuccessIsGood DEF AnthropicReply
<1>3. CASE f = "length"
  BY <1>1, <1>3, GoodCallsAre, SingleSuccessIsGood DEF AnthropicReply
<1>4. CASE f = "tool_calls"
  BY <1>1, <1>4, GoodCallsAre, SingleSuccessIsGood DEF AnthropicReply
<1>5. CASE f \notin {"stop", "length", "tool_calls"}
  <2>1. AnthropicReply(t, body, f) = Failure("provider", t, GoodCalls(body), 1)
    BY <1>5 DEF AnthropicReply
  <2> QED
    BY <1>1, <2>1, GoodCallsAre, SingleFailureIsGood DEF Details
<1> QED
  BY <1>2, <1>3, <1>4, <1>5

LEMMA WholeReplyIsGood ==
  ASSUME StreamInv, Answering, adapter \in SingleShot, NEW t \in Nat,
         NEW body \in Bodies, NEW f \in Finishes \cup {Missing}
  PROVE  GoodReply(WholeReply(t, body, f))
<1>1. GoodReply(Failure("provider", 0, Fresh.calls, 0))
  BY EmptyFailureIsGood DEF SingleShot, Details
<1>2. CASE Malformed(body)
  <2>1. WholeReply(t, body, f) = Failure("provider", 0, Fresh.calls, 0)
    BY <1>2 DEF WholeReply
  <2> QED
    BY <1>1, <2>1
<1>3. CASE ~Malformed(body) /\ adapter = "chat" /\ f \in {"other", Missing} /\ Heard(body) = {}
  <2>1. WholeReply(t, body, f) = Failure("provider", 0, Fresh.calls, 0)
    BY <1>3 DEF WholeReply
  <2> QED
    BY <1>1, <2>1
<1>4. CASE ~Malformed(body) /\ adapter = "chat" /\ ~(f \in {"other", Missing} /\ Heard(body) = {})
  <2>1. WholeReply(t, body, f) = MakeReply(t, GoodCalls(body), f, 1)
    BY <1>4 DEF WholeReply
  <2>2. adapter \notin Streaming
    BY <1>4 DEF Streaming
  <2>3. GoodReply(MakeReply(t, GoodCalls(body), f, 1))
    BY <1>4, <2>2, GoodCallsAre, MakeReplyIsGood
  <2> QED
    BY <2>1, <2>3
<1>5. CASE ~Malformed(body) /\ adapter = "anthropic"
  <2>1. WholeReply(t, body, f) = AnthropicReply(t, body, f)
    BY <1>5 DEF WholeReply
  <2> QED
    BY <1>5, <2>1, AnthropicReplyIsGood
<1>6. CASE ~Malformed(body) /\ adapter = "ollama"
  <2>1. WholeReply(t, body, f) = OllamaReply(t, body, f)
    BY <1>6 DEF WholeReply
  <2> QED
    BY <1>6, <2>1, OllamaReplyIsGood
<1> QED
  BY <1>2, <1>3, <1>4, <1>5, <1>6 DEF SingleShot

LEMMA AnswerKeepsStream ==
  ASSUME StreamInv, Answer
  PROVE  StreamInv'
<1>1. adapter \in SingleShot /\ Answering
  BY DEF Answer
<1>2. ASSUME NEW t \in 0 .. MaxPieces, NEW body \in Bodies,
             NEW f \in Finishes \cup {Missing}, Done(WholeReply(t, body, f))
      PROVE  StreamInv'
  <2>1. t \in Nat
    BY StreamBounds
  <2> QED
    BY <1>1, <1>2, <2>1, WholeReplyIsGood, DoneKeepsStream
<1>3. ASSUME NEW d \in Details, Done(Failure(d, 0, Fresh.calls, 0))
      PROVE  StreamInv'
  <2>1. GoodReply(Failure(d, 0, Fresh.calls, 0))
    BY <1>1, EmptyFailureIsGood DEF SingleShot
  <2> QED
    BY <1>3, <2>1, DoneKeepsStream
<1> QED
  BY <1>2, <1>3 DEF Answer

-----------------------------------------------------------------------------
\* An attempt is repeated where nothing was shown of it, and the next one
\* starts as the first did.
LEMMA DecideKeepsStream ==
  ASSUME StreamInv, DecideRetry
  PROVE  StreamInv'
<1>1. ~Answering /\ UNCHANGED <<adapter, plan, shown>>
  BY DEF DecideRetry
<1>2. CASE Retries
  <2>1. /\ attempt' = attempt + 1 /\ acc' = Fresh /\ visible' = FALSE
        /\ reply' = Missing /\ ~visible /\ attempt < StreamAttempts
    BY <1>2 DEF DecideRetry, Retries
  <2>2. /\ Fresh \in AccType /\ Fresh.text = 0
        /\ \A c \in Indexes : Fresh.calls[c] = Missing
    BY StreamBounds DEF Fresh, AccType
  <2>3. StreamTypes'
    <3>1. attempt + 1 \in 1 .. StreamAttempts
      BY <2>1, StreamBounds DEF StreamInv, StreamTypes
    <3> QED
      BY <1>1, <2>1, <2>2, <3>1 DEF StreamInv, StreamTypes
  <2>4. shown.text = 0 /\ \A c \in Indexes : shown.pieces[c] = 0
    BY <2>1 DEF StreamInv, InvisibleIsUnshown
  <2>5. ShownIsHeard' /\ InvisibleIsUnshown'
    BY <1>1, <2>1, <2>2, <2>4 DEF ShownIsHeard, InvisibleIsUnshown, PiecesOf
  <2>6. HeardIsPlanned'
    BY <1>1, <2>1, <2>2 DEF StreamInv, HeardIsPlanned, Planned
  <2>7. Answering'
    BY <2>1 DEF Answering
  <2>8. ErrorsAreDetailed' /\ TextIsShown' /\ CallsAreWhole' /\ CutIsNoSuccess'
    BY <2>7 DEF ErrorsAreDetailed, TextIsShown, CallsAreWhole, CutIsNoSuccess
  <2> QED
    BY <2>3, <2>5, <2>6, <2>8 DEF StreamInv
<1>3. CASE ~Retries
  <2>1. UNCHANGED <<adapter, plan, acc, shown, visible, attempt, reply>>
    BY <1>1, <1>3 DEF DecideRetry
  <2> QED
    BY <2>1 DEF StreamInv, StreamTypes, ShownIsHeard, Answering, PiecesOf,
       InvisibleIsUnshown, HeardIsPlanned, Planned, ErrorsAreDetailed,
       TextIsShown, CallsAreWhole, CutIsNoSuccess, Heard
<1> QED
  BY <1>2, <1>3

LEMMA StreamInitHolds == StreamInit => StreamInv
<1> SUFFICES ASSUME StreamInit
             PROVE  StreamInv
  OBVIOUS
<1>1. /\ acc = Fresh /\ shown = [text |-> 0, pieces |-> [c \in Indexes |-> 0]]
      /\ visible = FALSE /\ attempt = 1 /\ reply = Missing
      /\ adapter \in Streaming \cup SingleShot
      /\ plan \in [Indexes -> {Missing} \cup 0 .. MaxPieces]
  BY DEF StreamInit
<1>2. /\ Fresh \in AccType /\ Fresh.text = 0
      /\ \A c \in Indexes : Fresh.calls[c] = Missing
  BY StreamBounds DEF Fresh, AccType
<1>3. shown \in ShownType /\ shown.text = 0 /\ \A c \in Indexes : shown.pieces[c] = 0
  BY <1>1 DEF ShownType
<1>4. StreamTypes
  <2>1. 1 \in 1 .. StreamAttempts
    BY StreamBounds
  <2>2. acc \in AccType
    BY <1>1, <1>2
  <2> QED
    BY <1>1, <1>3, <2>1, <2>2 DEF StreamTypes
<1>5. ShownIsHeard /\ InvisibleIsUnshown
  BY <1>1, <1>2, <1>3 DEF ShownIsHeard, InvisibleIsUnshown, PiecesOf
<1>6. HeardIsPlanned
  BY <1>1, <1>2, <1>3, StreamBounds DEF HeardIsPlanned, Planned
<1>7. ErrorsAreDetailed /\ TextIsShown /\ CallsAreWhole /\ CutIsNoSuccess
  BY <1>1 DEF ErrorsAreDetailed, TextIsShown, CallsAreWhole, CutIsNoSuccess, Answering
<1> QED
  BY <1>4, <1>5, <1>6, <1>7 DEF StreamInv

LEMMA StreamNextKeeps ==
  ASSUME StreamInv, [StreamNext]_streamVars
  PROVE  StreamInv'
<1>1. CASE UNCHANGED streamVars
  BY <1>1 DEF streamVars, StreamInv, StreamTypes, ShownIsHeard, Answering,
     PiecesOf, InvisibleIsUnshown, HeardIsPlanned, Planned, ErrorsAreDetailed,
     TextIsShown, CallsAreWhole, CutIsNoSuccess, Heard
<1>2. CASE StreamNext
  BY <1>2, TextDeltaKeepsStream, CallDeltaKeepsStream, UsageChunkKeepsStream,
     FinishChunkKeepsStream, SpoiledChunkKeepsStream, EndOfChatKeepsStream,
     EndOfResponsesKeepsStream, StreamFailsKeepsStream, AnswerKeepsStream,
     DecideKeepsStream DEF StreamNext
<1> QED
  BY <1>1, <1>2

\* Whatever a provider sends and wherever it stops, one reply comes of it that
\* holds what was shown, no part of a call, and no success of a stream that was
\* cut (adapter stream methods, _ChatStreamAccumulator, call_with_retry).
THEOREM RepliesAreSound == StreamSpec => []RepliesSound
<1>1. StreamInv => RepliesSound
  <2> SUFFICES ASSUME StreamInv
               PROVE  RepliesSound
    OBVIOUS
  <2>1. TypeOK
    <3>1. /\ acc.text \in 0 .. MaxPieces /\ acc.usage \in 0 .. 1
          /\ shown.text \in Nat /\ shown.pieces \in [Indexes -> Nat]
          /\ attempt \in 1 .. StreamAttempts
      BY DEF StreamInv, StreamTypes, AccType, ShownType
    <3>2. ASSUME ~Answering
          PROVE  /\ reply.stop \in {"end_turn", "max_tokens", "tool_use", "error"}
                 /\ reply.detail \in Details \cup {Missing}
      BY <3>2 DEF StreamInv, StreamTypes, ReplyType, Answering
    <3> QED
      BY <3>1, <3>2 DEF StreamInv, ErrorsAreDetailed, TypeOK
  <2>2. ShownOnce
    BY DEF StreamInv, HeardIsPlanned, Planned, TextIsShown, ShownOnce
  <2> QED
    BY <2>1, <2>2 DEF StreamInv, RepliesSound
<1> QED
  BY <1>1, StreamInitHolds, StreamNextKeeps, PTL DEF StreamSpec

-----------------------------------------------------------------------------
(***************************************************************************)
(* The calls of a model.  First what the sums of a ledger and of a         *)
(* sequence are: folds, whose steps are made explicit so that one entry    *)
(* can be added.                                                           *)
(***************************************************************************)

\* A set of numbers that holds 0 and the successor of each of its members is
\* all of them: no number is the least one missing.
LEMMA Successors ==
  ASSUME NEW S \in SUBSET Nat, 0 \in S, \A n \in S : n + 1 \in S
  PROVE  S = Nat
<1> SUFFICES ASSUME Nat \ S # {}
             PROVE  FALSE
  OBVIOUS
<1>1. PICK m \in Nat \ S : \A n \in Nat \ S : m <= n
  BY LeastNumber
<1>2. m # 0 /\ m - 1 \in Nat /\ ~ (m <= m - 1)
  BY <1>1
<1>3. m - 1 \in S
  BY <1>1, <1>2
<1>4. (m - 1) + 1 \in S /\ (m - 1) + 1 = m
  BY <1>1, <1>3
<1> QED
  BY <1>1, <1>4

\* take chooses which element of a set comes first.
Takes(take, T) == \A s \in SUBSET T : s # {} => take[s] \in s

\* The sum of the weights of each set in D, the element taken last on top.
IsFold(w, take, D, g) ==
  g = [s \in D |-> IF s = {} THEN 0 ELSE w[take[s]] + g[s \ {take[s]}]]

IsSumOn(w, take, T, g) == IsFold(w, take, SUBSET T, g)
Weighs(w, T) == w \in [T -> Nat]
AtMost(T, n) == {s \in SUBSET T : Cardinality(s) <= n}

\* What is left when an element is taken.
LEMMA TakenIs ==
  ASSUME NEW T, IsFiniteSet(T), NEW take, Takes(take, T), NEW s \in SUBSET T, s # {}
  PROVE  /\ take[s] \in s /\ take[s] \in T /\ s \ {take[s]} \in SUBSET T
         /\ Cardinality(s) \in Nat /\ Cardinality(s \ {take[s]}) = Cardinality(s) - 1
<1>1. take[s] \in s
  BY DEF Takes
<1>2. IsFiniteSet(s) /\ Cardinality(s) \in Nat
  BY FS_Subset, FS_CardinalityType
<1>3. Cardinality(s \ {take[s]}) = Cardinality(s) - 1
  BY <1>1, <1>2, FS_RemoveElement
<1> QED
  BY <1>1, <1>2, <1>3

\* The sets of one element more are one element away.
LEMMA AtMostSteps ==
  ASSUME NEW T, IsFiniteSet(T), NEW take, Takes(take, T)
  PROVE  /\ AtMost(T, 0) = {{}}
         /\ Cardinality(T) \in Nat /\ AtMost(T, Cardinality(T)) = SUBSET T
         /\ \A n \in Nat :
              /\ AtMost(T, n) \subseteq AtMost(T, n + 1)
              /\ \A s \in AtMost(T, n + 1) : s # {} => s \ {take[s]} \in AtMost(T, n)
<1>1. \A s \in SUBSET T :
        IsFiniteSet(s) /\ Cardinality(s) \in Nat /\ Cardinality(s) <= Cardinality(T)
  BY FS_Subset, FS_CardinalityType
<1>2. AtMost(T, 0) = {{}}
  <2>1. \A s \in SUBSET T : Cardinality(s) <= 0 <=> s = {}
    BY <1>1, FS_EmptySet
  <2> QED
    BY <2>1 DEF AtMost
<1>3. Cardinality(T) \in Nat /\ AtMost(T, Cardinality(T)) = SUBSET T
  BY <1>1, FS_CardinalityType DEF AtMost
<1>4. ASSUME NEW n \in Nat
      PROVE  /\ AtMost(T, n) \subseteq AtMost(T, n + 1)
             /\ \A s \in AtMost(T, n + 1) : s # {} => s \ {take[s]} \in AtMost(T, n)
  <2>1. AtMost(T, n) \subseteq AtMost(T, n + 1)
    BY <1>1 DEF AtMost
  <2>2. ASSUME NEW s \in AtMost(T, n + 1), s # {}
        PROVE  s \ {take[s]} \in AtMost(T, n)
    <3>1. s \in SUBSET T /\ Cardinality(s) <= n + 1
      BY DEF AtMost
    <3>2. /\ take[s] \in s /\ take[s] \in T /\ s \ {take[s]} \in SUBSET T
          /\ Cardinality(s) \in Nat /\ Cardinality(s \ {take[s]}) = Cardinality(s) - 1
      <4>1. s # {} /\ IsFiniteSet(T) /\ Takes(take, T)
        BY <2>2
      <4>2. take[s] \in s
        BY <3>1, <4>1, TakenIs
      <4>3. Cardinality(s) \in Nat
        BY <3>1, <4>1, TakenIs
      <4>4. Cardinality(s \ {take[s]}) = Cardinality(s) - 1
        BY <3>1, <4>1, TakenIs
      <4> QED
        BY <3>1, <4>2, <4>3, <4>4
    <3>3. Cardinality(s \ {take[s]}) <= n
      BY <3>1, <3>2
    <3> QED
      BY <3>2, <3>3 DEF AtMost
  <2> QED
    BY <2>1, <2>2
<1> QED
  BY <1>2, <1>3, <1>4

\* There is a sum: it is extended from the smaller sets to the larger ones.
LEMMA FoldExists ==
  ASSUME NEW T, IsFiniteSet(T), NEW take, Takes(take, T), NEW w
  PROVE  \E g : IsFold(w, take, SUBSET T, g)
<1> DEFINE S == {n \in Nat : \E g : IsFold(w, take, AtMost(T, n), g)}
<1>1. 0 \in S
  <2>1. PICK g : g = [s \in AtMost(T, 0) |-> 0]
    OBVIOUS
  <2>2. IsFold(w, take, AtMost(T, 0), g)
    BY <2>1, AtMostSteps DEF IsFold
  <2> QED
    BY <2>2
<1>2. ASSUME NEW n \in S
      PROVE  n + 1 \in S
  <2>1. n \in Nat
    OBVIOUS
  <2>2. PICK g : IsFold(w, take, AtMost(T, n), g)
    OBVIOUS
  <2>3. PICK h : h = [s \in AtMost(T, n + 1) |->
                        IF s = {} THEN 0 ELSE w[take[s]] + g[s \ {take[s]}]]
    OBVIOUS
  <2>4. AtMost(T, n) \subseteq AtMost(T, n + 1)
    BY <2>1, AtMostSteps
  <2>5. \A s \in AtMost(T, n) : h[s] = g[s]
    BY <2>2, <2>3, <2>4 DEF IsFold
  <2>6. \A s \in AtMost(T, n + 1) : s # {} => h[s \ {take[s]}] = g[s \ {take[s]}]
    BY <2>1, <2>5, AtMostSteps
  <2>7. IsFold(w, take, AtMost(T, n + 1), h)
    BY <2>3, <2>6 DEF IsFold
  <2> QED
    BY <2>1, <2>7
<1>3. S = Nat
  <2> HIDE DEF S
  <2>1. S \in SUBSET Nat
    BY DEF S
  <2> QED
    BY <1>1, <1>2, <2>1, Successors
<1>4. Cardinality(T) \in Nat /\ AtMost(T, Cardinality(T)) = SUBSET T
  BY AtMostSteps
<1>5. PICK n \in S : n = Cardinality(T)
  BY <1>3, <1>4
<1>6. PICK g : IsFold(w, take, AtMost(T, n), g)
  BY <1>5
<1> QED
  BY <1>4, <1>5, <1>6

\* What holds of no elements, and of a set if of the set without the element
\* that is taken, holds of every set.
ClosedUpward(take, T, Q) ==
  /\ Q \in SUBSET SUBSET T
  /\ {} \in Q
  /\ \A s \in SUBSET T : s # {} /\ s \ {take[s]} \in Q => s \in Q

LEMMA SetsByTaking ==
  ASSUME NEW T, IsFiniteSet(T), NEW take, Takes(take, T),
         NEW Q, ClosedUpward(take, T, Q)
  PROVE  Q = SUBSET T
<1>a. /\ Q \in SUBSET SUBSET T /\ {} \in Q
      /\ \A s \in SUBSET T : s # {} /\ s \ {take[s]} \in Q => s \in Q
  BY DEF ClosedUpward
<1> DEFINE S == {n \in Nat : AtMost(T, n) \subseteq Q}
<1>1. 0 \in S
  <2>1. AtMost(T, 0) = {{}}
    BY AtMostSteps
  <2> QED
    BY <1>a, <2>1
<1>2. ASSUME NEW n \in S
      PROVE  n + 1 \in S
  <2>1. n \in Nat /\ AtMost(T, n) \subseteq Q
    OBVIOUS
  <2>2. \A s \in AtMost(T, n + 1) : s # {} => s \ {take[s]} \in Q
    BY <2>1, AtMostSteps
  <2>3. AtMost(T, n + 1) \subseteq SUBSET T
    BY DEF AtMost
  <2>4. AtMost(T, n + 1) \subseteq Q
    BY <1>a, <2>2, <2>3
  <2> QED
    BY <2>1, <2>4
<1>3. S = Nat
  <2> HIDE DEF S
  <2>1. S \in SUBSET Nat
    BY DEF S
  <2> QED
    BY <1>1, <1>2, <2>1, Successors
<1>4. Cardinality(T) \in Nat /\ AtMost(T, Cardinality(T)) = SUBSET T
  BY AtMostSteps
<1>5. Cardinality(T) \in S
  BY <1>3, <1>4
<1> QED
  BY <1>a, <1>4, <1>5

LEMMA FoldOfNothing ==
  ASSUME NEW T, NEW take, NEW w, NEW g, IsSumOn(w, take, T, g)
  PROVE  g[{}] = 0
<1>1. {} \in SUBSET T
  OBVIOUS
<1> QED
  BY <1>1 DEF IsFold, IsSumOn

\* The steps of a sum, and that it is a number.
LEMMA FoldSteps ==
  ASSUME NEW T, IsFiniteSet(T), NEW take, Takes(take, T), NEW w, Weighs(w, T),
         NEW g, IsSumOn(w, take, T, g)
  PROVE  \A s \in SUBSET T :
           /\ g[s] \in Nat
           /\ s # {} => g[s] = w[take[s]] + g[s \ {take[s]}]
<1>1. g[{}] = 0
  BY FoldOfNothing
<1>2. ASSUME NEW s \in SUBSET T, s # {}
      PROVE  g[s] = w[take[s]] + g[s \ {take[s]}]
  BY <1>2 DEF IsFold, IsSumOn
<1> DEFINE Q == {s \in SUBSET T : g[s] \in Nat}
<1>3. {} \in Q
  BY <1>1
<1>4. ASSUME NEW s \in SUBSET T, s # {}, s \ {take[s]} \in Q
      PROVE  s \in Q
  <2>1. take[s] \in T
    BY <1>4, TakenIs
  <2>2. w[take[s]] \in Nat /\ g[s \ {take[s]}] \in Nat
    BY <1>4, <2>1 DEF Weighs
  <2>3. g[s] = w[take[s]] + g[s \ {take[s]}]
    BY <1>2, <1>4
  <2>4. g[s] \in Nat
    BY <2>2, <2>3
  <2> QED
    BY <2>4
<1>5. Q = SUBSET T
  <2> HIDE DEF Q
  <2>1. Q \in SUBSET SUBSET T
    BY DEF Q
  <2>2. ClosedUpward(take, T, Q)
    BY <1>3, <1>4, <2>1 DEF ClosedUpward
  <2> QED
    BY <2>2, SetsByTaking
<1> QED
  BY <1>1, <1>2, <1>5

-----------------------------------------------------------------------------
LedgerType == [Effects -> Nat \cup {Unrecorded}]
Worth(ledger) == [e \in Effects |-> IF ledger[e] = Unrecorded THEN 0 ELSE ledger[e]]
AnyFirst == [s \in SUBSET Effects |-> CHOOSE x \in s : TRUE]

LEMMA AnyFirstTakes == Takes(AnyFirst, Effects)
<1> SUFFICES ASSUME NEW s \in SUBSET Effects, s # {}
             PROVE  AnyFirst[s] \in s
  BY DEF Takes
<1>1. AnyFirst[s] = CHOOSE x \in s : TRUE
  BY DEF AnyFirst
<1> QED
  BY <1>1

\* The amounts of a ledger are the sum of its entries.
LEMMA AmountsFold ==
  ASSUME NEW ledger
  PROVE  \E g : IsSumOn(Worth(ledger), AnyFirst, Effects, g) /\ Amounts(ledger) = g[Effects]
<1> DEFINE it == CHOOSE g : g = [s \in SUBSET Effects |->
                   IF s = {} THEN 0
                   ELSE (IF ledger[CHOOSE x \in s : TRUE] = Unrecorded THEN 0
                         ELSE ledger[CHOOSE x \in s : TRUE])
                        + g[s \ {CHOOSE x \in s : TRUE}]]
<1>1. Amounts(ledger) = it[Effects]
  BY DEF Amounts, MapThenSumSet, MapThenFoldSet
<1>2. PICK h : IsSumOn(Worth(ledger), AnyFirst, Effects, h)
  BY AnyFirstTakes, EffectsAreCounted, FoldExists DEF IsSumOn
<1>3. \A g : (g = [s \in SUBSET Effects |->
                   IF s = {} THEN 0
                   ELSE (IF ledger[CHOOSE x \in s : TRUE] = Unrecorded THEN 0
                         ELSE ledger[CHOOSE x \in s : TRUE])
                        + g[s \ {CHOOSE x \in s : TRUE}]])
             <=> IsSumOn(Worth(ledger), AnyFirst, Effects, g)
  <2>1. TAKE g
  <2>2. ASSUME NEW s \in SUBSET Effects
        PROVE  (IF s = {} THEN 0
                ELSE (IF ledger[CHOOSE x \in s : TRUE] = Unrecorded THEN 0
                      ELSE ledger[CHOOSE x \in s : TRUE])
                     + g[s \ {CHOOSE x \in s : TRUE}])
               = IF s = {} THEN 0
                 ELSE Worth(ledger)[AnyFirst[s]] + g[s \ {AnyFirst[s]}]
    <3>1. AnyFirst[s] = CHOOSE x \in s : TRUE
      BY DEF AnyFirst
    <3>2. s # {} => AnyFirst[s] \in Effects
      BY AnyFirstTakes DEF Takes
    <3>3. s # {} => Worth(ledger)[AnyFirst[s]] =
            IF ledger[AnyFirst[s]] = Unrecorded THEN 0 ELSE ledger[AnyFirst[s]]
      BY <3>2 DEF Worth
    <3> QED
      BY <3>1, <3>3
  <2> QED
    BY <2>2 DEF IsFold, IsSumOn
<1>4. IsSumOn(Worth(ledger), AnyFirst, Effects, it)
  BY <1>2, <1>3
<1> QED
  BY <1>1, <1>4

\* Nothing recorded is nothing spent.
LEMMA AmountsOfNothing == Amounts([e \in Effects |-> Unrecorded]) = 0
<1>1. PICK L : L = [e \in Effects |-> Unrecorded]
  OBVIOUS
<1>2. PICK g : IsSumOn(Worth(L), AnyFirst, Effects, g) /\ Amounts(L) = g[Effects]
  BY AmountsFold
<1>w. PICK w : w = Worth(L)
  OBVIOUS
<1>3. w \in [Effects -> Nat] /\ \A e \in Effects : w[e] = 0
  BY <1>1, <1>w DEF Worth
<1>4. /\ g[{}] = 0
      /\ \A s \in SUBSET Effects : s # {} => g[s] = w[AnyFirst[s]] + g[s \ {AnyFirst[s]}]
  <2>1. IsSumOn(w, AnyFirst, Effects, g) /\ IsFiniteSet(Effects) /\ Weighs(w, Effects)
    BY <1>2, <1>w, <1>3, EffectsAreCounted DEF Weighs
  <2>2. g[{}] = 0
    BY <2>1, FoldOfNothing
  <2>3. \A s \in SUBSET Effects : s # {} => g[s] = w[AnyFirst[s]] + g[s \ {AnyFirst[s]}]
    BY <2>1, AnyFirstTakes, FoldSteps
  <2> QED
    BY <2>2, <2>3
<1> DEFINE Q == {s \in SUBSET Effects : g[s] = 0}
<1>5. {} \in Q
  BY <1>4
<1>6. ASSUME NEW s \in SUBSET Effects, s # {}, s \ {AnyFirst[s]} \in Q
      PROVE  s \in Q
  <2>1. AnyFirst[s] \in Effects
    BY <1>6, AnyFirstTakes DEF Takes
  <2>2. g[s] = w[AnyFirst[s]] + g[s \ {AnyFirst[s]}]
    BY <1>4, <1>6
  <2> QED
    BY <1>3, <1>6, <2>1, <2>2
<1>7. Q = SUBSET Effects
  <2> HIDE DEF Q
  <2>1. Q \in SUBSET SUBSET Effects
    BY DEF Q
  <2>2. ClosedUpward(AnyFirst, Effects, Q)
    BY <1>5, <1>6, <2>1 DEF ClosedUpward
  <2> QED
    BY <2>2, AnyFirstTakes, EffectsAreCounted, SetsByTaking
<1> QED
  BY <1>1, <1>2, <1>7

\* The amounts are a number, and grow by what is recorded.
LEMMA AmountsGrow ==
  ASSUME NEW L \in LedgerType, NEW e \in Effects, L[e] = Unrecorded, NEW amount \in Nat
  PROVE  /\ Amounts(L) \in Nat
         /\ Amounts([L EXCEPT ![e] = amount]) = Amounts(L) + amount
<1>1. PICK M : M = [L EXCEPT ![e] = amount]
  OBVIOUS
<1>2. PICK g : IsSumOn(Worth(L), AnyFirst, Effects, g) /\ Amounts(L) = g[Effects]
  BY AmountsFold
<1>3. PICK h : IsSumOn(Worth(M), AnyFirst, Effects, h) /\ Amounts(M) = h[Effects]
  BY AmountsFold
<1>v. PICK v : v = Worth(L)
  OBVIOUS
<1>w. PICK w : w = Worth(M)
  OBVIOUS
<1>4. v \in [Effects -> Nat] /\ v[e] = 0
  BY <1>v DEF Worth, LedgerType
<1>5. /\ w \in [Effects -> Nat]
      /\ \A x \in Effects : w[x] = IF x = e THEN amount ELSE v[x]
  <2>1. \A x \in Effects : M[x] = IF x = e THEN amount ELSE L[x]
    BY <1>1 DEF LedgerType
  <2>2. amount # Unrecorded
    BY DEF Unrecorded
  <2>3. \A x \in Effects : w[x] = IF M[x] = Unrecorded THEN 0 ELSE M[x]
    BY <1>w DEF Worth
  <2>4. \A x \in Effects : v[x] = IF L[x] = Unrecorded THEN 0 ELSE L[x]
    BY <1>v DEF Worth
  <2>5. \A x \in Effects : w[x] = IF x = e THEN amount ELSE v[x]
    BY <2>1, <2>2, <2>3, <2>4
  <2>6. w = [x \in Effects |-> w[x]]
    BY <1>w DEF Worth
  <2> QED
    BY <1>4, <2>5, <2>6
<1>6. /\ g[{}] = 0 /\ \A s \in SUBSET Effects : g[s] \in Nat
      /\ \A s \in SUBSET Effects : s # {} => g[s] = v[AnyFirst[s]] + g[s \ {AnyFirst[s]}]
  <2>1. IsSumOn(v, AnyFirst, Effects, g) /\ IsFiniteSet(Effects) /\ Weighs(v, Effects)
    BY <1>2, <1>v, <1>4, EffectsAreCounted DEF Weighs
  <2>2. g[{}] = 0
    BY <2>1, FoldOfNothing
  <2>3. ASSUME NEW s \in SUBSET Effects
        PROVE  g[s] \in Nat
    BY <2>1, AnyFirstTakes, FoldSteps
  <2>4. ASSUME NEW s \in SUBSET Effects, s # {}
        PROVE  g[s] = v[AnyFirst[s]] + g[s \ {AnyFirst[s]}]
    BY <2>1, <2>4, AnyFirstTakes, FoldSteps
  <2> QED
    BY <2>2, <2>3, <2>4
<1>7. /\ h[{}] = 0 /\ \A s \in SUBSET Effects : h[s] \in Nat
      /\ \A s \in SUBSET Effects : s # {} => h[s] = w[AnyFirst[s]] + h[s \ {AnyFirst[s]}]
  <2>1. IsSumOn(w, AnyFirst, Effects, h) /\ IsFiniteSet(Effects) /\ Weighs(w, Effects)
    BY <1>3, <1>w, <1>5, EffectsAreCounted DEF Weighs
  <2>2. h[{}] = 0
    BY <2>1, FoldOfNothing
  <2>3. ASSUME NEW s \in SUBSET Effects
        PROVE  h[s] \in Nat
    BY <2>1, AnyFirstTakes, FoldSteps
  <2>4. ASSUME NEW s \in SUBSET Effects, s # {}
        PROVE  h[s] = w[AnyFirst[s]] + h[s \ {AnyFirst[s]}]
    BY <2>1, <2>4, AnyFirstTakes, FoldSteps
  <2> QED
    BY <2>2, <2>3, <2>4
<1> DEFINE Q == {s \in SUBSET Effects : h[s] = IF e \in s THEN g[s] + amount ELSE g[s]}
<1>8. {} \in Q
  BY <1>6, <1>7
<1>9. ASSUME NEW s \in SUBSET Effects, s # {}, s \ {AnyFirst[s]} \in Q
      PROVE  s \in Q
  <2>1. PICK x : x = AnyFirst[s]
    OBVIOUS
  <2>2. x \in s /\ x \in Effects
    BY <1>9, <2>1, AnyFirstTakes DEF Takes
  <2>3. PICK rest : rest = s \ {x}
    OBVIOUS
  <2>4. /\ g[s] = v[x] + g[rest] /\ h[s] = w[x] + h[rest] /\ g[rest] \in Nat
        /\ h[rest] = IF e \in rest THEN g[rest] + amount ELSE g[rest]
    <3>1. g[s] = v[x] + g[rest] /\ h[s] = w[x] + h[rest]
      BY <1>6, <1>7, <1>9, <2>1, <2>3
    <3>2. rest \in SUBSET Effects /\ rest \in Q
      BY <1>9, <2>1, <2>3
    <3> QED
      BY <1>6, <3>1, <3>2
  <2>5. v[x] \in Nat /\ w[x] = IF x = e THEN amount ELSE v[x]
    BY <1>4, <1>5, <2>2
  <2>6. h[s] = IF e \in s THEN g[s] + amount ELSE g[s]
    <3>1. CASE x = e
      <4>1. e \in s /\ e \notin rest /\ v[x] = 0 /\ w[x] = amount
        BY <1>4, <2>2, <2>3, <2>5, <3>1
      <4> QED
        BY <2>4, <4>1
    <3>2. CASE x # e
      <4>1. (e \in s <=> e \in rest) /\ w[x] = v[x]
        BY <2>3, <2>5, <3>2
      <4> QED
        BY <2>4, <2>5, <4>1
    <3> QED
      BY <3>1, <3>2
  <2> QED
    BY <2>6
<1>10. Q = SUBSET Effects
  <2> HIDE DEF Q
  <2>1. Q \in SUBSET SUBSET Effects
    BY DEF Q
  <2>2. ClosedUpward(AnyFirst, Effects, Q)
    BY <1>8, <1>9, <2>1 DEF ClosedUpward
  <2> QED
    BY <2>2, AnyFirstTakes, EffectsAreCounted, SetsByTaking
<1>11. h[Effects] = g[Effects] + amount /\ g[Effects] \in Nat
  BY <1>6, <1>10
<1> QED
  BY <1>1, <1>2, <1>3, <1>11

-----------------------------------------------------------------------------
(* The total of the attempts. *)

LEMMA MaxIs ==
  ASSUME NEW n \in Nat, NEW s \in SUBSET (1 .. n), s # {}
  PROVE  Max(s) \in s /\ \A y \in s : y <= Max(s)
<1> DEFINE Above == {k \in Nat : \A y \in s : y <= k}
<1>1. n \in Above
  OBVIOUS
<1>2. PICK m \in Above : \A k \in Above : m <= k
  <2>1. Above \in SUBSET Nat /\ Above # {}
    BY <1>1
  <2> HIDE DEF Above
  <2> QED
    BY <2>1, LeastNumber
<1>3. m \in s
  <2> SUFFICES ASSUME m \notin s
               PROVE  FALSE
    OBVIOUS
  <2>1. m \in Nat /\ \A y \in s : y <= m /\ y # m /\ y \in Nat /\ y > 0
    OBVIOUS
  <2>2. PICK z : z \in s
    OBVIOUS
  <2>3. m - 1 \in Nat /\ ~(m <= m - 1)
    BY <2>1, <2>2
  <2>4. \A y \in s : y <= m - 1
    BY <2>1
  <2>5. m - 1 \in Above
    BY <2>3, <2>4
  <2> QED
    BY <1>2, <2>3, <2>5
<1>4. \A y \in s : m >= y
  BY <1>2
<1> HIDE DEF Above
<1>5. \E x \in s : \A y \in s : x >= y
  BY <1>3, <1>4
<1>6. Max(s) \in s /\ \A y \in s : Max(s) >= y
  BY <1>5 DEF Max
<1> QED
  BY <1>6

TopFirst(T) == [s \in SUBSET T |-> Max(s)]

LEMMA TopFirstTakes ==
  ASSUME NEW n \in Nat
  PROVE  Takes(TopFirst(1 .. n), 1 .. n)
<1> SUFFICES ASSUME NEW s \in SUBSET (1 .. n), s # {}
             PROVE  TopFirst(1 .. n)[s] \in s
  BY DEF Takes
<1>1. TopFirst(1 .. n)[s] = Max(s)
  BY DEF TopFirst
<1> QED
  BY <1>1, MaxIs

\* The total of a sequence is the sum of its elements.
LEMMA TotalFold ==
  ASSUME NEW u \in Seq(Nat)
  PROVE  \E h : /\ IsSumOn(u, TopFirst(1 .. Len(u)), 1 .. Len(u), h)
                /\ Total(u) = h[1 .. Len(u)]
<1>n. PICK n \in Nat : n = Len(u)
  OBVIOUS
<1>t. PICK T : T = 1 .. n
  OBVIOUS
<1>a. PICK take : take = TopFirst(1 .. n)
  OBVIOUS
<1>1. DOMAIN u = T /\ u \in [T -> Nat]
  BY <1>n, <1>t
<1>2. IsFiniteSet(T)
  BY <1>t, FS_Interval
<1>3. Takes(take, T)
  BY <1>a, <1>t, TopFirstTakes
<1>4. PICK h : IsSumOn(u, take, T, h)
  BY <1>2, <1>3, FoldExists DEF IsSumOn
<1>5. Weighs(u, T)
  BY <1>1 DEF Weighs
<1>6. h[{}] = 0
  BY <1>4, FoldOfNothing
<1>7. ASSUME NEW s \in SUBSET T
      PROVE  h[s] \in Nat
  BY <1>2, <1>3, <1>4, <1>5, FoldSteps
<1>8. ASSUME NEW s \in SUBSET T, s # {}
      PROVE  h[s] = u[take[s]] + h[s \ {take[s]}]
  BY <1>4, <1>8 DEF IsSumOn, IsFold
<1>9. ASSUME NEW s \in SUBSET T
      PROVE  take[s] = Max(s)
  BY <1>a, <1>t DEF TopFirst
<1>10. ASSUME NEW s \in SUBSET T, s # {}
       PROVE  h[s] = h[s \ {Max(s)}] + u[Max(s)]
  <2>1. take[s] \in T /\ s \ {take[s]} \in SUBSET T
    BY <1>3, <1>10 DEF Takes
  <2>2. u[take[s]] \in Nat /\ h[s \ {take[s]}] \in Nat
    BY <1>1, <1>7, <2>1
  <2>3. h[s] = u[take[s]] + h[s \ {take[s]}]
    BY <1>8, <1>10
  <2>4. h[s] = h[s \ {take[s]}] + u[take[s]]
    BY <2>2, <2>3
  <2> QED
    BY <1>9, <2>4
<1> DEFINE Folds(g) == g = [s \in SUBSET T |->
                              IF s = {} THEN 0 ELSE g[s \ {Max(s)}] + u[Max(s)]]
           it == CHOOSE g : Folds(g)
<1>11. Total(u) = it[T]
  BY <1>1 DEF Total, FoldLeft, MapThenFoldSet
<1>12. h = [s \in SUBSET T |-> h[s]]
  BY <1>4 DEF IsSumOn, IsFold
<1>13. Folds(h)
  <2>1. ASSUME NEW s \in SUBSET T
        PROVE  h[s] = IF s = {} THEN 0 ELSE h[s \ {Max(s)}] + u[Max(s)]
    BY <1>6, <1>10
  <2> QED
    BY <1>12, <2>1
<1>14. Folds(it)
  <2> HIDE DEF Folds
  <2> QED
    BY <1>13
<1>15. PICK g : g = it
  OBVIOUS
<1>16. ASSUME NEW s \in SUBSET T
       PROVE  g[s] = IF s = {} THEN 0 ELSE g[s \ {Max(s)}] + u[Max(s)]
  BY <1>14, <1>15
<1> DEFINE Q == {s \in SUBSET T : g[s] = h[s]}
<1>17. {} \in Q
  BY <1>6, <1>16
<1>18. ASSUME NEW s \in SUBSET T, s # {}, s \ {take[s]} \in Q
       PROVE  s \in Q
  <2>1. g[s \ {Max(s)}] = h[s \ {Max(s)}]
    BY <1>9, <1>18
  <2>2. g[s] = g[s \ {Max(s)}] + u[Max(s)]
    BY <1>16, <1>18
  <2>3. h[s] = h[s \ {Max(s)}] + u[Max(s)]
    BY <1>10, <1>18
  <2> QED
    BY <2>1, <2>2, <2>3
<1>19. Q = SUBSET T
  <2> HIDE DEF Q
  <2>1. Q \in SUBSET SUBSET T
    BY DEF Q
  <2> QED
    <3>1. ClosedUpward(take, T, Q)
      BY <1>17, <1>18, <2>1 DEF ClosedUpward
    <3> QED
      BY <1>2, <1>3, <3>1, SetsByTaking
<1>20. g[T] = h[T]
  BY <1>19
<1>21. Total(u) = h[T]
  BY <1>11, <1>15, <1>20
<1> QED
  BY <1>4, <1>21, <1>n, <1>t, <1>a

LEMMA TotalOfNothing == Total(<<>>) = 0
<1>1. <<>> \in Seq(Nat) /\ Len(<<>>) = 0 /\ 1 .. 0 = {}
  OBVIOUS
<1>2. PICK h : /\ IsSumOn(<<>>, TopFirst(1 .. 0), 1 .. 0, h)
               /\ Total(<<>>) = h[1 .. 0]
  BY <1>1, TotalFold
<1>3. h[{}] = 0
  BY <1>2, FoldOfNothing
<1> QED
  BY <1>1, <1>2, <1>3

\* What an attempt adds to the total.
LEMMA TotalAppends ==
  ASSUME NEW u \in Seq(Nat), NEW x \in Nat
  PROVE  Total(Append(u, x)) = Total(u) + x
<1>n. PICK n \in Nat : n = Len(u)
  OBVIOUS
<1>v. PICK v : v = Append(u, x)
  OBVIOUS
<1>1. /\ v \in Seq(Nat) /\ Len(v) = n + 1 /\ v[n + 1] = x
      /\ \A i \in 1 .. n : v[i] = u[i]
  BY <1>n, <1>v
<1>2. PICK h : /\ IsSumOn(u, TopFirst(1 .. n), 1 .. n, h)
               /\ Total(u) = h[1 .. n]
  BY <1>n, TotalFold
<1>3. PICK g : /\ IsSumOn(v, TopFirst(1 .. n + 1), 1 .. n + 1, g)
               /\ Total(v) = g[1 .. n + 1]
  BY <1>1, TotalFold
<1>4. ASSUME NEW w \in Seq(Nat), NEW k \in Nat, Len(w) = k, NEW f,
             IsSumOn(w, TopFirst(1 .. k), 1 .. k, f)
      PROVE  /\ f[{}] = 0
             /\ \A m \in 1 .. k : f[1 .. m] = w[m] + f[1 .. m - 1]
             /\ \A m \in 0 .. k : f[1 .. m] \in Nat
  <2>t. PICK T : T = 1 .. k
    OBVIOUS
  <2>a. PICK take : take = TopFirst(1 .. k)
    OBVIOUS
  <2>1. IsFiniteSet(T) /\ Takes(take, T) /\ Weighs(w, T) /\ IsSumOn(w, take, T, f)
    <3>1. Weighs(w, T)
      BY <1>4, <2>t DEF Weighs
    <3>2. IsFiniteSet(T)
      BY <2>t, FS_Interval
    <3> QED
      BY <1>4, <2>t, <2>a, <3>1, <3>2, TopFirstTakes
  <2>2. f[{}] = 0
    BY <2>1, FoldOfNothing
  <2>3. ASSUME NEW s \in SUBSET T
        PROVE  f[s] \in Nat
    BY <2>1, FoldSteps
  <2>4. ASSUME NEW s \in SUBSET T, s # {}
        PROVE  f[s] = w[take[s]] + f[s \ {take[s]}]
    BY <2>1, <2>4 DEF IsSumOn, IsFold
  <2>5. ASSUME NEW m \in 0 .. k
        PROVE  1 .. m \in SUBSET T
    BY <2>t
  <2>6. ASSUME NEW m \in 1 .. k
        PROVE  f[1 .. m] = w[m] + f[1 .. m - 1]
    <3>1. 1 .. m \in SUBSET T /\ 1 .. m # {} /\ m \in Nat
      <4>1. m \in 0 .. k /\ 1 \in 1 .. m /\ m \in Nat
        OBVIOUS
      <4> QED
        BY <2>5, <4>1
    <3>2. Max(1 .. m) = m
      <4>1. Max(1 .. m) \in 1 .. m /\ \A y \in 1 .. m : y <= Max(1 .. m)
        BY <3>1, MaxIs
      <4>2. m \in 1 .. m
        OBVIOUS
      <4> QED
        BY <4>1, <4>2
    <3>3. take[1 .. m] = Max(1 .. m)
      BY <2>a, <2>t, <3>1 DEF TopFirst
    <3>4. (1 .. m) \ {m} = 1 .. m - 1
      OBVIOUS
    <3> QED
      BY <2>4, <3>1, <3>2, <3>3, <3>4
  <2> QED
    BY <2>2, <2>3, <2>5, <2>6
<1>5. /\ h[{}] = 0
      /\ \A m \in 1 .. n : h[1 .. m] = u[m] + h[1 .. m - 1]
      /\ \A m \in 0 .. n : h[1 .. m] \in Nat
  BY <1>2, <1>4, <1>n
<1>6. /\ g[{}] = 0
      /\ \A m \in 1 .. n + 1 : g[1 .. m] = v[m] + g[1 .. m - 1]
      /\ \A m \in 0 .. n + 1 : g[1 .. m] \in Nat
  <2>1. n + 1 \in Nat
    OBVIOUS
  <2> QED
    BY <1>1, <1>3, <1>4, <2>1
<1> DEFINE S == {m \in Nat : m <= n => g[1 .. m] = h[1 .. m]}
<1>7. 0 \in S
  <2>1. 1 .. 0 = {}
    OBVIOUS
  <2> QED
    BY <1>5, <1>6, <2>1
<1>8. ASSUME NEW m \in S
      PROVE  m + 1 \in S
  <2> SUFFICES ASSUME m + 1 <= n
               PROVE  g[1 .. m + 1] = h[1 .. m + 1]
    OBVIOUS
  <2>1. m \in Nat /\ g[1 .. m] = h[1 .. m]
    OBVIOUS
  <2>2. PICK k \in 1 .. n : k = m + 1
    BY <2>1
  <2>3. k - 1 = m /\ k \in 1 .. n + 1
    BY <2>1, <2>2
  <2>4. h[1 .. k] = u[k] + h[1 .. k - 1]
    BY <1>5
  <2>5. g[1 .. k] = v[k] + g[1 .. k - 1]
    BY <1>6, <2>3
  <2>6. v[k] = u[k]
    BY <1>1
  <2> QED
    BY <2>1, <2>2, <2>3, <2>4, <2>5, <2>6
<1>9. S = Nat
  <2> HIDE DEF S
  <2>1. S \in SUBSET Nat
    BY DEF S
  <2> QED
    BY <1>7, <1>8, <2>1, Successors
<1>10. g[1 .. n] = h[1 .. n]
  BY <1>9
<1>11. g[1 .. n + 1] = x + h[1 .. n]
  <2>1. n + 1 \in 1 .. n + 1 /\ (n + 1) - 1 = n
    OBVIOUS
  <2>2. g[1 .. n + 1] = v[n + 1] + g[1 .. (n + 1) - 1]
    BY <1>6, <2>1
  <2> QED
    BY <1>1, <1>10, <2>1, <2>2
<1>12. h[1 .. n] \in Nat
  BY <1>5
<1> QED
  BY <1>2, <1>3, <1>11, <1>12, <1>v

-----------------------------------------------------------------------------
(* The invariant: what a caller that has submitted its call may rely on, what *)
(* the tape has of an effect, and how the ledger follows it.                  *)

CallerType ==
  [pc : {"idle", "estimate", "guards", "submitted", "waiting"},
   effect : Effects \cup {Unasked}, stream : BOOLEAN, usage : Nat, made : Nat]

ModelTypes ==
  /\ effectIntents \in SUBSET Effects
  /\ llmAttempts \in [Effects -> Seq(Nat)]
  /\ results \in LedgerType
  /\ spent \in LedgerType /\ overrun \in LedgerType
  /\ submitters \in [Effects -> SUBSET ModelCallers]
  /\ calling \in [ModelCallers -> CallerType]

Working(c) == calling[c].pc \in {"submitted", "waiting"}

\* A call that was submitted has been billed what its attempts were, and its
\* effect has no result but an operator's.
WorkFits(c) ==
  LET e == calling[c].effect IN
  /\ c \in submitters[e]
  /\ IF calling[c].stream THEN llmAttempts[e] = <<>>
     ELSE calling[c].usage = Total(llmAttempts[e])
  /\ results[e] # Unrecorded => e \in reconciled

CallersFit ==
  \A c \in ModelCallers :
    /\ calling[c].pc # "idle" => calling[c].effect \in Effects
    /\ calling[c].pc \in {"estimate", "guards"} => calling[c].usage = 0
    /\ Working(c) => WorkFits(c)

EffectFits(e) ==
  /\ e \notin effectIntents =>
       /\ submitters[e] = {} /\ llmAttempts[e] = <<>>
       /\ results[e] = Unrecorded /\ e \notin rejected
  /\ \A c, d \in submitters[e] : c = d
  /\ e \in rejected => submitters[e] = {} /\ results[e] = Unrecorded
  /\ results[e] # Unrecorded /\ e \notin reconciled /\ llmAttempts[e] # <<>>
       => results[e] = Total(llmAttempts[e])

LedgerFits(e) ==
  /\ spent[e] = Unrecorded \/ overrun[e] = Unrecorded
  /\ spent[e] \in {Unrecorded, results[e]} /\ overrun[e] \in {Unrecorded, results[e]}
  /\ e \in answeredFor => results[e] # Unrecorded
  /\ e \in answeredFor /\ results[e] > 0 =>
       spent[e] # Unrecorded \/ overrun[e] # Unrecorded

EffectsFit == \A e \in Effects : EffectFits(e)
LedgersFit == \A e \in Effects : LedgerFits(e)

ModelInv ==
  /\ ModelTypes /\ CallersFit /\ EffectsFit /\ LedgersFit
  /\ Amounts(spent) <= Budget /\ repeated = {}

LEMMA IdleIsCaller == IdleCaller \in CallerType /\ IdleCaller.pc = "idle"
BY DEF IdleCaller, CallerType

\* After a crash every coroutine is gone.
LEMMA CrashedCallersFit ==
  ASSUME Crashes
  PROVE  calling' \in [ModelCallers -> CallerType] /\ CallersFit'
<1>1. calling' = [c \in ModelCallers |-> IdleCaller]
  BY DEF Crashes
<1>2. \A c \in ModelCallers : calling'[c].pc = "idle"
  BY <1>1, IdleIsCaller
<1>3. \A c \in ModelCallers : ~Working(c)'
  BY <1>2 DEF Working
<1> QED
  BY <1>1, <1>2, <1>3, IdleIsCaller DEF CallersFit

\* A caller that changes, where what the others have submitted stays as it is.
LEMMA OneCallerChanges ==
  ASSUME ModelTypes, CallersFit, NEW c \in ModelCallers, NEW v \in CallerType,
         SetCaller(c, v),
         v.pc # "idle" => v.effect \in Effects,
         v.pc \in {"estimate", "guards"} => v.usage = 0,
         v.pc \in {"submitted", "waiting"} =>
           /\ c \in submitters'[v.effect]
           /\ IF v.stream THEN llmAttempts'[v.effect] = <<>>
              ELSE v.usage = Total(llmAttempts'[v.effect])
           /\ results'[v.effect] # Unrecorded => v.effect \in reconciled',
         \A d \in ModelCallers : d # c /\ Working(d) =>
           LET x == calling[d].effect IN
           /\ submitters[x] \subseteq submitters'[x]
           /\ llmAttempts'[x] = llmAttempts[x] /\ results'[x] = results[x]
           /\ x \in reconciled => x \in reconciled'
  PROVE  calling' \in [ModelCallers -> CallerType] /\ CallersFit'
<1>1. calling' = [calling EXCEPT ![c] = v] /\ calling \in [ModelCallers -> CallerType]
  BY DEF SetCaller, ModelTypes
<1>2. calling' \in [ModelCallers -> CallerType]
  BY <1>1
<1>3. \A d \in ModelCallers : calling'[d] = IF d = c THEN v ELSE calling[d]
  BY <1>1
<1>4. ASSUME NEW d \in ModelCallers
      PROVE  /\ calling'[d].pc # "idle" => calling'[d].effect \in Effects
             /\ calling'[d].pc \in {"estimate", "guards"} => calling'[d].usage = 0
             /\ Working(d)' => WorkFits(d)'
  <2>1. CASE d = c
    <3>1. calling'[d] = v
      BY <1>3, <2>1
    <3>2. Working(d)' => v.pc \in {"submitted", "waiting"}
      BY <3>1 DEF Working
    <3>3. Working(d)' => WorkFits(d)'
      BY <2>1, <3>1, <3>2 DEF WorkFits
    <3> QED
      BY <3>1, <3>3
  <2>2. CASE d # c
    <3>1. calling'[d] = calling[d]
      BY <1>3, <2>2
    <3>2. /\ calling[d].pc # "idle" => calling[d].effect \in Effects
          /\ calling[d].pc \in {"estimate", "guards"} => calling[d].usage = 0
          /\ Working(d) => WorkFits(d)
      BY DEF CallersFit
    <3>3. Working(d)' <=> Working(d)
      BY <3>1 DEF Working
    <3>4. Working(d)' => WorkFits(d)'
      <4> SUFFICES ASSUME Working(d)
                   PROVE  WorkFits(d)'
        BY <3>3
      <4>1. PICK x : x = calling[d].effect
        OBVIOUS
      <4>2. /\ submitters[x] \subseteq submitters'[x]
            /\ llmAttempts'[x] = llmAttempts[x] /\ results'[x] = results[x]
            /\ x \in reconciled => x \in reconciled'
        BY <2>2, <4>1
      <4>3. /\ d \in submitters[x]
            /\ IF calling[d].stream THEN llmAttempts[x] = <<>>
               ELSE calling[d].usage = Total(llmAttempts[x])
            /\ results[x] # Unrecorded => x \in reconciled
        BY <3>2, <4>1 DEF WorkFits
      <4> QED
        BY <3>1, <4>1, <4>2, <4>3 DEF WorkFits
    <3> QED
      BY <3>1, <3>2, <3>4
  <2> QED
    BY <2>1, <2>2
<1> QED
  BY <1>2, <1>4 DEF CallersFit

\* A caller that becomes idle, or goes on without a word to the tape.
LEMMA QuietCallerKeeps ==
  ASSUME ModelInv, NEW c \in ModelCallers, NEW v \in CallerType, SetCaller(c, v),
         UNCHANGED <<claimTape, callHistory>>,
         v.pc # "idle" => v.effect \in Effects,
         v.pc \in {"estimate", "guards"} => v.usage = 0,
         v.pc \in {"submitted", "waiting"} =>
           Working(c) /\ v = [calling[c] EXCEPT !.pc = v.pc]
  PROVE  ModelInv'
<1>1. /\ UNCHANGED <<effectIntents, llmAttempts, results, rejected, spent, overrun>>
      /\ UNCHANGED <<reconciled, submitters, repeated, answeredFor>>
  BY DEF claimTape, callHistory
<1>2. ModelTypes /\ CallersFit
  BY DEF ModelInv
<1>3. ASSUME v.pc \in {"submitted", "waiting"}
      PROVE  /\ c \in submitters'[v.effect]
             /\ IF v.stream THEN llmAttempts'[v.effect] = <<>>
                ELSE v.usage = Total(llmAttempts'[v.effect])
             /\ results'[v.effect] # Unrecorded => v.effect \in reconciled'
  <2>1. calling[c] \in CallerType
    BY <1>2 DEF ModelTypes
  <2>2. /\ v.effect = calling[c].effect /\ v.stream = calling[c].stream
        /\ v.usage = calling[c].usage
    BY <1>3, <2>1 DEF CallerType
  <2>3. WorkFits(c)
    BY <1>2, <1>3 DEF CallersFit
  <2> QED
    BY <1>1, <2>2, <2>3 DEF WorkFits
<1>4. calling' \in [ModelCallers -> CallerType] /\ CallersFit'
  BY <1>1, <1>2, <1>3, OneCallerChanges
<1>5. ModelTypes'
  BY <1>1, <1>2, <1>4 DEF ModelTypes
<1>6. EffectsFit' /\ LedgersFit'
  BY <1>1 DEF ModelInv, EffectsFit, EffectFits, LedgersFit, LedgerFits
<1>7. Amounts(spent') <= Budget /\ repeated' = {}
  BY <1>1 DEF ModelInv
<1> QED
  BY <1>4, <1>5, <1>6, <1>7 DEF ModelInv

LEMMA IdleCallerKeeps ==
  ASSUME ModelInv, NEW c \in ModelCallers, SetCaller(c, IdleCaller),
         UNCHANGED <<claimTape, callHistory>>
  PROVE  ModelInv'
BY IdleIsCaller, QuietCallerKeeps

-----------------------------------------------------------------------------
(* The ledger *)

\* What is spent of an effect is spent once, within the budget or over it.
LEMMA SpendIs ==
  ASSUME spent \in LedgerType, overrun \in LedgerType, Amounts(spent) <= Budget,
         NEW e \in Effects, NEW amount \in Nat, Spend(e, amount)
  PROVE  /\ spent' \in LedgerType /\ overrun' \in LedgerType
         /\ Amounts(spent') <= Budget
         /\ \A x \in Effects : x # e => spent'[x] = spent[x] /\ overrun'[x] = overrun[x]
         /\ \/ /\ spent' = spent /\ overrun' = overrun
               /\ amount = 0 \/ spent[e] # Unrecorded \/ overrun[e] # Unrecorded
            \/ /\ spent[e] = Unrecorded /\ overrun[e] = Unrecorded
               /\ \/ spent'[e] = amount /\ overrun'[e] = Unrecorded
                  \/ overrun'[e] = amount /\ spent'[e] = Unrecorded
<1>1. CASE amount = 0 \/ spent[e] # Unrecorded \/ overrun[e] # Unrecorded
  <2>1. spent' = spent /\ overrun' = overrun
    BY <1>1 DEF Spend
  <2> QED
    BY <1>1, <2>1
<1>2. CASE ~(amount = 0 \/ spent[e] # Unrecorded \/ overrun[e] # Unrecorded)
  <2>1. spent[e] = Unrecorded /\ overrun[e] = Unrecorded
    BY <1>2
  <2>2. CASE Overruns(amount)
    <3>1. overrun' = [overrun EXCEPT ![e] = amount] /\ spent' = spent
      BY <1>2, <2>2 DEF Spend
    <3>2. /\ overrun' \in LedgerType /\ overrun'[e] = amount
          /\ \A x \in Effects : x # e => overrun'[x] = overrun[x]
      BY <3>1 DEF LedgerType
    <3> QED
      BY <2>1, <3>1, <3>2
  <2>3. CASE ~Overruns(amount)
    <3>1. spent' = [spent EXCEPT ![e] = amount] /\ overrun' = overrun
      BY <1>2, <2>3 DEF Spend
    <3>2. /\ spent' \in LedgerType /\ spent'[e] = amount
          /\ \A x \in Effects : x # e => spent'[x] = spent[x]
      BY <3>1 DEF LedgerType
    <3>3. Amounts(spent) \in Nat /\ Amounts(spent') = Amounts(spent) + amount
      BY <2>1, <3>1, AmountsGrow
    <3>4. Amounts(spent') <= Budget
      BY <2>3, <3>3, EffectsAreCounted DEF Overruns
    <3> QED
      BY <2>1, <3>1, <3>2, <3>4
  <2> QED
    BY <2>2, <2>3
<1> QED
  BY <1>1, <1>2

\* The spend of a result keeps the ledger in step with the results.
LEMMA SpendKeepsLedger ==
  ASSUME ModelInv, NEW e \in Effects, NEW amount \in Nat, Spend(e, amount),
         results' \in LedgerType, results'[e] = amount,
         results[e] \in {Unrecorded, amount},
         \A x \in Effects : x # e => results'[x] = results[x],
         answeredFor' = answeredFor \/ answeredFor' = answeredFor \cup {e}
  PROVE  /\ spent' \in LedgerType /\ overrun' \in LedgerType
         /\ Amounts(spent') <= Budget /\ LedgersFit'
<1>1. spent \in LedgerType /\ overrun \in LedgerType /\ Amounts(spent) <= Budget
  BY DEF ModelInv, ModelTypes
<1>2. /\ spent' \in LedgerType /\ overrun' \in LedgerType
      /\ Amounts(spent') <= Budget
      /\ \A x \in Effects : x # e => spent'[x] = spent[x] /\ overrun'[x] = overrun[x]
      /\ \/ /\ spent' = spent /\ overrun' = overrun
            /\ amount = 0 \/ spent[e] # Unrecorded \/ overrun[e] # Unrecorded
         \/ /\ spent[e] = Unrecorded /\ overrun[e] = Unrecorded
            /\ \/ spent'[e] = amount /\ overrun'[e] = Unrecorded
               \/ overrun'[e] = amount /\ spent'[e] = Unrecorded
  BY <1>1, SpendIs
<1>3. amount # Unrecorded
  BY DEF Unrecorded
<1>4. ASSUME NEW x \in Effects
      PROVE  LedgerFits(x)'
  <2>1. LedgerFits(x)
    BY DEF ModelInv, LedgersFit
  <2>2. CASE x # e
    <3>1. spent'[x] = spent[x] /\ overrun'[x] = overrun[x] /\ results'[x] = results[x]
      BY <1>2, <2>2
    <3>2. x \in answeredFor' <=> x \in answeredFor
      BY <2>2
    <3> QED
      BY <2>1, <3>1, <3>2 DEF LedgerFits
  <2>3. CASE x = e
    <3>1. CASE spent' = spent /\ overrun' = overrun
      <4>1. amount = 0 \/ spent[e] # Unrecorded \/ overrun[e] # Unrecorded
        BY <1>2, <1>3, <3>1
      <4>2. spent[e] \in {Unrecorded, amount} /\ overrun[e] \in {Unrecorded, amount}
        BY <2>1, <2>3 DEF LedgerFits
      <4> QED
        BY <1>3, <2>1, <2>3, <3>1, <4>1, <4>2 DEF LedgerFits
    <3>2. CASE /\ spent[e] = Unrecorded /\ overrun[e] = Unrecorded
               /\ \/ spent'[e] = amount /\ overrun'[e] = Unrecorded
                  \/ overrun'[e] = amount /\ spent'[e] = Unrecorded
      BY <1>3, <2>3, <3>2 DEF LedgerFits
    <3> QED
      BY <1>2, <3>1, <3>2
  <2> QED
    BY <2>2, <2>3
<1> QED
  BY <1>2, <1>4 DEF LedgersFit

\* A result whose spend is still to come.
LEMMA ResultKeepsLedger ==
  ASSUME ModelInv, NEW e \in Effects, results[e] = Unrecorded,
         \A x \in Effects : x # e => results'[x] = results[x],
         UNCHANGED <<spent, overrun, answeredFor>>
  PROVE  LedgersFit'
<1> SUFFICES ASSUME NEW x \in Effects
             PROVE  LedgerFits(x)'
  BY DEF LedgersFit
<1>1. LedgerFits(x)
  BY DEF ModelInv, LedgersFit
<1> QED
  BY <1>1 DEF LedgerFits

\* A ledger and answers that stay while the results do.
LEMMA LedgerStays ==
  ASSUME ModelInv, UNCHANGED <<results, spent, overrun, answeredFor>>
  PROVE  LedgersFit' /\ Amounts(spent') <= Budget
<1>1. LedgersFit'
  BY DEF ModelInv, LedgersFit, LedgerFits
<1> QED
  BY <1>1 DEF ModelInv

\* Effects whose claims stay.
LEMMA EffectsStay ==
  ASSUME ModelInv,
         UNCHANGED <<effectIntents, llmAttempts, results, rejected, reconciled,
                     submitters>>
  PROVE  EffectsFit'
BY DEF ModelInv, EffectsFit, EffectFits

-----------------------------------------------------------------------------
(* The actions *)

LEMMA BeginKeeps ==
  ASSUME ModelInv, NEW c \in ModelCallers, NEW e \in Effects,
         NEW stream \in BOOLEAN, Begin(c, e, stream)
  PROVE  ModelInv'
<1>1. UNCHANGED <<effectIntents, llmAttempts, results, rejected, reconciled,
                  submitters, repeated, modelFaults>>
  BY DEF Begin
<1>2. ModelTypes /\ CallersFit /\ repeated = {}
  BY DEF ModelInv
<1>3. EffectsFit'
  BY <1>1, EffectsStay
<1>4. CASE /\ results[e] # Unrecorded
           /\ Recovered(e)
           /\ answeredFor' = answeredFor \cup {e}
           /\ UNCHANGED calling
  <2>1. PICK amount : amount = results[e]
    OBVIOUS
  <2>2. amount \in Nat /\ results \in LedgerType
    BY <1>2, <1>4, <2>1 DEF ModelTypes, LedgerType
  <2>3. Spend(e, amount)
    BY <1>4, <2>1 DEF Recovered
  <2>4. results' \in LedgerType /\ results'[e] = amount
    BY <1>1, <2>1, <2>2
  <2>5. /\ spent' \in LedgerType /\ overrun' \in LedgerType
        /\ Amounts(spent') <= Budget /\ LedgersFit'
    BY <1>1, <1>4, <2>1, <2>2, <2>3, <2>4, SpendKeepsLedger
  <2>6. ModelTypes'
    BY <1>1, <1>2, <1>4, <2>4, <2>5 DEF ModelTypes
  <2>7. CallersFit'
    BY <1>1, <1>2, <1>4 DEF CallersFit, Working, WorkFits
  <2> QED
    BY <1>1, <1>2, <1>3, <2>5, <2>6, <2>7 DEF ModelInv
<1>5. CASE /\ results[e] = Unrecorded /\ e \notin effectIntents
           /\ SetCaller(c, [IdleCaller EXCEPT !.pc = "estimate", !.effect = e,
                                              !.stream = stream])
           /\ UNCHANGED <<spent, overrun, answeredFor>>
  <2>1. PICK v : v = [IdleCaller EXCEPT !.pc = "estimate", !.effect = e,
                                        !.stream = stream]
    OBVIOUS
  <2>2. v \in CallerType /\ v.pc = "estimate" /\ v.effect = e /\ v.usage = 0
    BY <2>1 DEF IdleCaller, CallerType
  <2>3. SetCaller(c, v) /\ UNCHANGED <<claimTape, callHistory>>
    BY <1>1, <1>5, <2>1 DEF claimTape, callHistory
  <2> QED
    BY <2>2, <2>3, QuietCallerKeeps
<1> QED
  BY <1>4, <1>5 DEF Begin

\* What a caller before its submission knows.
LEMMA AskingCaller ==
  ASSUME ModelInv, NEW c \in ModelCallers, calling[c].pc \in {"estimate", "guards"}
  PROVE  /\ calling[c] \in CallerType /\ calling[c].effect \in Effects
         /\ calling[c].usage = 0
BY DEF ModelInv, ModelTypes, CallersFit

\* An effect without an intent has no caller that works on it.
LEMMA NobodyWorks ==
  ASSUME ModelInv, NEW e \in Effects, submitters[e] = {},
         NEW d \in ModelCallers, Working(d)
  PROVE  calling[d].effect # e
BY DEF ModelInv, CallersFit, WorkFits

LEMMA RaisesKeeps ==
  ASSUME ModelInv, NEW c \in ModelCallers, Raises(c)
  PROVE  ModelInv'
BY IdleCallerKeeps DEF Raises

LEMMA RecordRejectionKeeps ==
  ASSUME ModelInv, NEW c \in ModelCallers, calling[c].pc \in {"estimate", "guards"},
         calling[c].effect \notin effectIntents, RecordRejection(c)
  PROVE  ModelInv'
<1>e. PICK e : e = calling[c].effect
  OBVIOUS
<1>1. e \in Effects /\ e \notin effectIntents
  BY <1>e, AskingCaller
<1>2. /\ effectIntents' = effectIntents \cup {e}
      /\ UNCHANGED <<llmAttempts, results, spent, overrun>>
      /\ UNCHANGED <<reconciled, submitters, repeated, answeredFor>>
      /\ rejected' = rejected \/ rejected' = rejected \cup {e}
  BY <1>e DEF RecordRejection, callHistory
<1>3. ModelTypes /\ CallersFit /\ repeated = {}
  BY DEF ModelInv
<1>4. ASSUME NEW x \in Effects
      PROVE  EffectFits(x)'
  <2>1. EffectFits(x)
    BY DEF ModelInv, EffectsFit
  <2>2. CASE x # e
    <3>1. /\ x \in effectIntents' <=> x \in effectIntents
          /\ x \in rejected' <=> x \in rejected
      BY <1>2, <2>2
    <3> QED
      BY <1>2, <2>1, <3>1 DEF EffectFits
  <2>3. CASE x = e
    <3>1. submitters[e] = {} /\ results[e] = Unrecorded
      BY <1>1, <2>1, <2>3 DEF EffectFits
    <3>2. e \in effectIntents'
      BY <1>2
    <3> QED
      BY <1>2, <2>1, <2>3, <3>1, <3>2 DEF EffectFits
  <2> QED
    BY <2>2, <2>3
<1>5. EffectsFit'
  BY <1>4 DEF EffectsFit
<1>6. LedgersFit' /\ Amounts(spent') <= Budget
  BY <1>2, LedgerStays
<1>7. calling' \in [ModelCallers -> CallerType] /\ CallersFit'
  <2>1. CASE SetCaller(c, IdleCaller)
    BY <1>2, <1>3, <2>1, IdleIsCaller, OneCallerChanges
  <2>2. CASE Crashes
    BY <2>2, CrashedCallersFit
  <2> QED
    BY <2>1, <2>2 DEF RecordRejection
<1>8. ModelTypes'
  <2>1. effectIntents' \in SUBSET Effects
    BY <1>1, <1>2, <1>3 DEF ModelTypes
  <2> QED
    BY <1>2, <1>3, <1>7, <2>1 DEF ModelTypes
<1> QED
  BY <1>2, <1>3, <1>5, <1>6, <1>7, <1>8 DEF ModelInv

LEMMA CheckBudgetKeeps ==
  ASSUME ModelInv, NEW c \in ModelCallers, CheckBudget(c)
  PROVE  ModelInv'
<1>1. calling[c].pc \in {"estimate", "guards"}
  BY DEF CheckBudget
<1>2. CASE Intended(calling[c].effect) /\ Raises(c)
  BY <1>2, RaisesKeeps
<1>3. CASE ~Intended(calling[c].effect) /\ RecordRejection(c)
  BY <1>1, <1>3, RecordRejectionKeeps DEF Intended
<1>4. CASE /\ SetCaller(c, [calling[c] EXCEPT !.pc = "guards"])
           /\ UNCHANGED <<claimTape, callHistory, modelFaults>>
  <2>1. PICK v : v = [calling[c] EXCEPT !.pc = "guards"]
    OBVIOUS
  <2>2. /\ calling[c] \in CallerType /\ calling[c].effect \in Effects
        /\ calling[c].usage = 0
    BY <1>1, AskingCaller
  <2>3. v \in CallerType /\ v.pc = "guards" /\ v.effect \in Effects /\ v.usage = 0
    BY <2>1, <2>2 DEF CallerType
  <2>4. SetCaller(c, v) /\ UNCHANGED <<claimTape, callHistory>>
    BY <1>4, <2>1
  <2> QED
    BY <2>3, <2>4, QuietCallerKeeps
<1> QED
  BY <1>2, <1>3, <1>4 DEF CheckBudget

LEMMA CheckGuardsKeeps ==
  ASSUME ModelInv, NEW c \in ModelCallers, CheckGuards(c)
  PROVE  ModelInv'
<1>e. PICK e : e = calling[c].effect
  OBVIOUS
<1>1. calling[c].pc \in {"estimate", "guards"}
  BY DEF CheckGuards
<1>2. /\ calling[c] \in CallerType /\ e \in Effects /\ calling[c].usage = 0
  BY <1>e, <1>1, AskingCaller
<1>3. CASE Intended(e) /\ Raises(c)
  BY <1>3, RaisesKeeps
<1>4. CASE ~Intended(e) /\ RecordRejection(c)
  BY <1>e, <1>1, <1>4, RecordRejectionKeeps DEF Intended
<1>5. CASE /\ ~Intended(e)
           /\ effectIntents' = effectIntents \cup {e}
           /\ submitters' = [submitters EXCEPT ![e] = @ \cup {c}]
           /\ SetCaller(c, [calling[c] EXCEPT !.pc = "submitted"])
           /\ UNCHANGED <<llmAttempts, results, rejected, spent, overrun,
                          reconciled, repeated, answeredFor, modelFaults>>
  <2>1. ModelTypes /\ CallersFit /\ repeated = {} /\ EffectFits(e) /\ e \notin effectIntents
    BY <1>2, <1>5 DEF ModelInv, EffectsFit, Intended
  <2>2. /\ submitters[e] = {} /\ llmAttempts[e] = <<>> /\ results[e] = Unrecorded
        /\ e \notin rejected
    BY <2>1 DEF EffectFits
  <2>3. /\ submitters' \in [Effects -> SUBSET ModelCallers] /\ submitters'[e] = {c}
        /\ \A x \in Effects : x # e => submitters'[x] = submitters[x]
    BY <1>2, <1>5, <2>1, <2>2 DEF ModelTypes
  <2>4. ASSUME NEW x \in Effects
        PROVE  EffectFits(x)'
    <3>1. EffectFits(x)
      BY DEF ModelInv, EffectsFit
    <3>2. CASE x # e
      <4>1. (x \in effectIntents' <=> x \in effectIntents) /\ submitters'[x] = submitters[x]
        BY <1>5, <2>3, <3>2
      <4> QED
        BY <1>5, <3>1, <4>1 DEF EffectFits
    <3>3. CASE x = e
      <4>1. e \in effectIntents'
        BY <1>5
      <4> QED
        BY <1>5, <2>2, <2>3, <3>3, <4>1 DEF EffectFits
    <3> QED
      BY <3>2, <3>3
  <2>5. PICK v : v = [calling[c] EXCEPT !.pc = "submitted"]
    OBVIOUS
  <2>6. /\ v \in CallerType /\ v.pc = "submitted" /\ v.effect = e /\ v.usage = 0
        /\ SetCaller(c, v)
    BY <1>e, <1>2, <1>5, <2>5 DEF CallerType
  <2>7. /\ c \in submitters'[v.effect]
        /\ IF v.stream THEN llmAttempts'[v.effect] = <<>>
           ELSE v.usage = Total(llmAttempts'[v.effect])
        /\ results'[v.effect] # Unrecorded => v.effect \in reconciled'
    BY <1>5, <2>2, <2>3, <2>6, TotalOfNothing
  <2>8. ASSUME NEW d \in ModelCallers, d # c, Working(d)
        PROVE  submitters[calling[d].effect] \subseteq submitters'[calling[d].effect]
    <3>1. calling[d].effect \in Effects
      BY <2>1, <2>8 DEF CallersFit, Working
    <3> QED
      BY <2>2, <2>3, <2>8, <3>1, NobodyWorks, <1>2
  <2>9. calling' \in [ModelCallers -> CallerType] /\ CallersFit'
    BY <1>2, <1>5, <2>1, <2>6, <2>7, <2>8, OneCallerChanges
  <2>10. EffectsFit'
    BY <2>4 DEF EffectsFit
  <2>11. LedgersFit' /\ Amounts(spent') <= Budget
    BY <1>5, LedgerStays
  <2>12. effectIntents' \in SUBSET Effects
    BY <1>2, <1>5, <2>1 DEF ModelTypes
  <2>13. ModelTypes'
    BY <1>5, <2>1, <2>3, <2>9, <2>12 DEF ModelTypes
  <2> QED
    BY <1>5, <2>1, <2>9, <2>10, <2>11, <2>13 DEF ModelInv
<1> QED
  BY <1>e, <1>3, <1>4, <1>5 DEF CheckGuards

LEMMA RetryKeeps ==
  ASSUME ModelInv, NEW c \in ModelCallers, Retry(c)
  PROVE  ModelInv'
<1>1. PICK v : v = [calling[c] EXCEPT !.pc = "submitted"]
  OBVIOUS
<1>2. calling[c] \in CallerType /\ calling[c].effect \in Effects /\ Working(c)
  BY DEF ModelInv, ModelTypes, CallersFit, Retry, Working
<1>3. v \in CallerType /\ v.pc = "submitted" /\ v.effect \in Effects
  BY <1>1, <1>2 DEF CallerType
<1>4. v = [calling[c] EXCEPT !.pc = v.pc]
  BY <1>1, <1>3
<1>5. SetCaller(c, v) /\ UNCHANGED <<claimTape, callHistory>>
  BY <1>1 DEF Retry
<1> QED
  BY <1>2, <1>3, <1>4, <1>5, QuietCallerKeeps

LEMMA CancelledKeeps ==
  ASSUME ModelInv, NEW c \in ModelCallers, Cancelled(c)
  PROVE  ModelInv'
BY IdleCallerKeeps DEF Cancelled

LEMMA ModelCrashKeeps ==
  ASSUME ModelInv, ModelCrash
  PROVE  ModelInv'
<1>1. /\ Crashes
      /\ UNCHANGED <<effectIntents, llmAttempts, results, rejected, spent, overrun>>
      /\ UNCHANGED <<reconciled, submitters, repeated, answeredFor>>
  BY DEF ModelCrash, claimTape, callHistory
<1>2. calling' \in [ModelCallers -> CallerType] /\ CallersFit'
  BY <1>1, CrashedCallersFit
<1>3. ModelTypes'
  BY <1>1, <1>2 DEF ModelInv, ModelTypes
<1>4. EffectsFit'
  BY <1>1, EffectsStay
<1>5. LedgersFit' /\ Amounts(spent') <= Budget
  BY <1>1, LedgerStays
<1> QED
  BY <1>1, <1>2, <1>3, <1>4, <1>5 DEF ModelInv

-----------------------------------------------------------------------------
(* Attempts and outcomes *)

\* What a caller that has submitted its call knows.
LEMMA SubmittedCaller ==
  ASSUME ModelInv, NEW c \in ModelCallers, Submitted(c), NEW e, e = calling[c].effect
  PROVE  /\ calling[c] \in CallerType /\ e \in Effects /\ c \in submitters[e]
         /\ e \in effectIntents /\ e \notin rejected
         /\ IF calling[c].stream THEN llmAttempts[e] = <<>>
            ELSE calling[c].usage = Total(llmAttempts[e])
         /\ results[e] # Unrecorded => e \in reconciled
         /\ \A d \in ModelCallers : d # c /\ Working(d) => calling[d].effect # e
<1>1. Working(c)
  BY DEF Submitted, Working
<1>2. calling[c] \in CallerType /\ e \in Effects /\ WorkFits(c)
  BY <1>1 DEF ModelInv, ModelTypes, CallersFit, Working
<1>3. EffectFits(e)
  BY <1>2 DEF ModelInv, EffectsFit
<1>4. \A d \in ModelCallers : Working(d) => d \in submitters[calling[d].effect]
  BY DEF ModelInv, CallersFit, WorkFits
<1> QED
  BY <1>2, <1>3, <1>4 DEF WorkFits, EffectFits

\* The attempt a call has recorded: the tape's total is what it was billed.
LEMMA AttemptIsRecorded ==
  ASSUME ModelInv, NEW c \in ModelCallers, Submitted(c), NEW usage \in Nat,
         RecordAttempt(c, usage), NEW e, e = calling[c].effect
  PROVE  /\ llmAttempts' \in [Effects -> Seq(Nat)]
         /\ \A x \in Effects : x # e => llmAttempts'[x] = llmAttempts[x]
         /\ IF calling[c].stream THEN llmAttempts'[e] = <<>>
            ELSE Total(llmAttempts'[e]) = calling[c].usage + usage
<1>1. /\ calling[c] \in CallerType /\ e \in Effects
      /\ IF calling[c].stream THEN llmAttempts[e] = <<>>
         ELSE calling[c].usage = Total(llmAttempts[e])
  BY SubmittedCaller
<1>2. llmAttempts \in [Effects -> Seq(Nat)]
  BY DEF ModelInv, ModelTypes
<1>3. CASE calling[c].stream
  <2>1. llmAttempts' = llmAttempts
    BY <1>3 DEF RecordAttempt
  <2> QED
    BY <1>1, <1>2, <1>3, <2>1
<1>4. CASE ~calling[c].stream
  <2>1. PICK u : u = llmAttempts[e]
    OBVIOUS
  <2>2. u \in Seq(Nat)
    BY <1>1, <1>2, <2>1
  <2>3. llmAttempts' = [llmAttempts EXCEPT ![e] = Append(u, usage)]
    BY <1>4, <2>1 DEF RecordAttempt
  <2>4. Append(u, usage) \in Seq(Nat) /\ Total(Append(u, usage)) = Total(u) + usage
    BY <2>2, TotalAppends
  <2>5. /\ llmAttempts' \in [Effects -> Seq(Nat)] /\ llmAttempts'[e] = Append(u, usage)
        /\ \A x \in Effects : x # e => llmAttempts'[x] = llmAttempts[x]
    BY <1>1, <1>2, <2>3, <2>4
  <2> QED
    BY <1>1, <1>4, <2>1, <2>4, <2>5
<1> QED
  BY <1>3, <1>4

\* The effects after an attempt that was recorded, with its result or without.
LEMMA AttemptKeepsEffects ==
  ASSUME ModelInv, NEW c \in ModelCallers, Submitted(c), NEW usage \in Nat,
         RecordAttempt(c, usage), NEW e, e = calling[c].effect,
         UNCHANGED <<effectIntents, rejected, reconciled, submitters>>,
         \A x \in Effects : x # e => results'[x] = results[x],
         results'[e] \in {results[e], Billed(c, usage)}
  PROVE  EffectsFit'
<1>1. /\ e \in Effects /\ e \in effectIntents /\ e \notin rejected
      /\ results[e] # Unrecorded => e \in reconciled
  BY SubmittedCaller
<1>2. /\ \A x \in Effects : x # e => llmAttempts'[x] = llmAttempts[x]
      /\ IF calling[c].stream THEN llmAttempts'[e] = <<>>
         ELSE Total(llmAttempts'[e]) = calling[c].usage + usage
  BY AttemptIsRecorded
<1>3. ASSUME NEW x \in Effects
      PROVE  EffectFits(x)'
  <2>1. EffectFits(x)
    BY DEF ModelInv, EffectsFit
  <2>2. CASE x # e
    BY <1>2, <2>1, <2>2 DEF EffectFits
  <2>3. CASE x = e
    <3>1. results'[e] # Unrecorded /\ e \notin reconciled /\ llmAttempts'[e] # <<>>
            => results'[e] = Total(llmAttempts'[e])
      BY <1>1, <1>2 DEF Billed
    <3> QED
      BY <1>1, <2>1, <2>3, <3>1 DEF EffectFits
  <2> QED
    BY <2>2, <2>3
<1> QED
  BY <1>3 DEF EffectsFit

LEMMA AttemptFailsKeeps ==
  ASSUME ModelInv, NEW c \in ModelCallers, NEW usage \in Usages, AttemptFails(c, usage)
  PROVE  ModelInv'
<1>e. PICK e : e = calling[c].effect
  OBVIOUS
<1>1. /\ Submitted(c) /\ RecordAttempt(c, usage) /\ ~calling[c].stream
      /\ repeated' = repeated
      /\ UNCHANGED <<effectIntents, results, rejected, spent, overrun, reconciled,
                     submitters, answeredFor, modelFaults>>
  BY DEF AttemptFails, MayRetry
<1>2. usage \in Nat
  BY EffectsAreCounted
<1>3. /\ calling[c] \in CallerType /\ e \in Effects /\ c \in submitters[e]
      /\ results[e] # Unrecorded => e \in reconciled
      /\ \A d \in ModelCallers : d # c /\ Working(d) => calling[d].effect # e
  BY <1>e, <1>1, SubmittedCaller
<1>4. /\ llmAttempts' \in [Effects -> Seq(Nat)]
      /\ \A x \in Effects : x # e => llmAttempts'[x] = llmAttempts[x]
      /\ Total(llmAttempts'[e]) = calling[c].usage + usage
  BY <1>e, <1>1, <1>2, AttemptIsRecorded
<1>5. ModelTypes /\ CallersFit /\ repeated = {}
  BY DEF ModelInv
<1>6. EffectsFit'
  BY <1>e, <1>1, <1>2, AttemptKeepsEffects
<1>7. LedgersFit' /\ Amounts(spent') <= Budget
  BY <1>1, LedgerStays
<1>8. PICK v : v = [calling[c] EXCEPT !.pc = "waiting", !.made = @ + 1,
                                      !.usage = @ + usage]
  OBVIOUS
<1>9. /\ v \in CallerType /\ v.pc = "waiting" /\ v.effect = e /\ ~v.stream
      /\ v.usage = calling[c].usage + usage
  <2>1. PICK was : was = calling[c]
    OBVIOUS
  <2>2. was.usage + usage \in Nat /\ was.made + 1 \in Nat
    BY <1>2, <1>3, <2>1 DEF CallerType
  <2>3. v = [was EXCEPT !.pc = "waiting", !.made = was.made + 1,
                        !.usage = was.usage + usage]
    BY <1>8, <2>1
  <2> QED
    BY <1>e, <1>1, <1>3, <2>1, <2>2, <2>3 DEF CallerType
<1>10. SetCaller(c, v)
  BY <1>8 DEF AttemptFails
<1>11. ASSUME NEW d \in ModelCallers, d # c, Working(d)
       PROVE  llmAttempts'[calling[d].effect] = llmAttempts[calling[d].effect]
  <2>1. calling[d].effect \in Effects
    BY <1>5, <1>11 DEF CallersFit, Working
  <2> QED
    BY <1>3, <1>4, <1>11, <2>1
<1>12. /\ c \in submitters'[v.effect]
       /\ IF v.stream THEN llmAttempts'[v.effect] = <<>>
          ELSE v.usage = Total(llmAttempts'[v.effect])
       /\ results'[v.effect] # Unrecorded => v.effect \in reconciled'
  BY <1>1, <1>3, <1>4, <1>9
<1>13. calling' \in [ModelCallers -> CallerType] /\ CallersFit'
  BY <1>1, <1>3, <1>5, <1>9, <1>10, <1>11, <1>12, OneCallerChanges
<1>14. ModelTypes'
  BY <1>1, <1>4, <1>5, <1>13 DEF ModelTypes
<1> QED
  BY <1>1, <1>5, <1>6, <1>7, <1>13, <1>14 DEF ModelInv

LEMMA LastAttemptKeeps ==
  ASSUME ModelInv, NEW c \in ModelCallers, NEW usage \in Usages, LastAttempt(c, usage)
  PROVE  ModelInv'
<1>e. PICK e : e = calling[c].effect
  OBVIOUS
<1>t. PICK total : total = Billed(c, usage)
  OBVIOUS
<1>1. /\ Submitted(c) /\ RecordAttempt(c, usage)
      /\ UNCHANGED <<effectIntents, rejected, reconciled, submitters, repeated>>
  BY DEF LastAttempt
<1>2. usage \in Nat
  BY EffectsAreCounted
<1>3. /\ calling[c] \in CallerType /\ e \in Effects
      /\ \A d \in ModelCallers : d # c /\ Working(d) => calling[d].effect # e
  BY <1>e, <1>1, SubmittedCaller
<1>4. total \in Nat
  BY <1>t, <1>2, <1>3 DEF Billed, CallerType
<1>5. /\ llmAttempts' \in [Effects -> Seq(Nat)]
      /\ \A x \in Effects : x # e => llmAttempts'[x] = llmAttempts[x]
  BY <1>e, <1>1, <1>2, AttemptIsRecorded
<1>6. ModelTypes /\ CallersFit /\ repeated = {} /\ results \in LedgerType
  BY DEF ModelInv, ModelTypes
<1>7. ASSUME \A x \in Effects : x # e => results'[x] = results[x],
             SetCaller(c, IdleCaller) \/ Crashes
      PROVE  calling' \in [ModelCallers -> CallerType] /\ CallersFit'
  <2>1. CASE SetCaller(c, IdleCaller)
    <3>1. ASSUME NEW d \in ModelCallers, d # c, Working(d)
          PROVE  /\ llmAttempts'[calling[d].effect] = llmAttempts[calling[d].effect]
                 /\ results'[calling[d].effect] = results[calling[d].effect]
      <4>1. calling[d].effect \in Effects
        BY <1>6, <3>1 DEF CallersFit, Working
      <4> QED
        BY <1>3, <1>5, <1>7, <3>1, <4>1
    <3> QED
      BY <1>1, <1>6, <2>1, <3>1, IdleIsCaller, OneCallerChanges
  <2>2. CASE Crashes
    BY <2>2, CrashedCallersFit
  <2> QED
    BY <1>7, <2>1, <2>2
<1>8. CASE /\ results[e] = Unrecorded
           /\ results' = [results EXCEPT ![e] = total]
           /\ \/ /\ Spend(e, total)
                 /\ SetCaller(c, IdleCaller)
                 /\ answeredFor' = answeredFor \cup {e}
                 /\ UNCHANGED modelFaults
              \/ Crashes /\ UNCHANGED <<spent, overrun, answeredFor>>
  <2>1. /\ results' \in LedgerType /\ results'[e] = total
        /\ \A x \in Effects : x # e => results'[x] = results[x]
    BY <1>3, <1>4, <1>6, <1>8 DEF LedgerType
  <2>2. calling' \in [ModelCallers -> CallerType] /\ CallersFit'
    BY <1>7, <1>8, <2>1
  <2>3. EffectsFit'
    BY <1>e, <1>t, <1>1, <1>2, <2>1, AttemptKeepsEffects
  <2>4. /\ spent' \in LedgerType /\ overrun' \in LedgerType
        /\ Amounts(spent') <= Budget /\ LedgersFit'
    <3>1. CASE Spend(e, total) /\ answeredFor' = answeredFor \cup {e}
      BY <1>3, <1>4, <1>8, <2>1, <3>1, SpendKeepsLedger
    <3>2. CASE UNCHANGED <<spent, overrun, answeredFor>>
      <4>1. LedgersFit'
        BY <1>3, <1>8, <2>1, <3>2, ResultKeepsLedger
      <4> QED
        BY <1>6, <3>2, <4>1 DEF ModelInv, ModelTypes
    <3> QED
      BY <1>8, <3>1, <3>2
  <2>5. ModelTypes'
    BY <1>1, <1>5, <1>6, <2>1, <2>2, <2>4 DEF ModelTypes
  <2> QED
    BY <1>1, <1>6, <2>2, <2>3, <2>4, <2>5 DEF ModelInv
<1>9. CASE /\ SetCaller(c, IdleCaller) \/ Crashes
           /\ UNCHANGED <<results, spent, overrun, answeredFor>>
  <2>1. calling' \in [ModelCallers -> CallerType] /\ CallersFit'
    BY <1>7, <1>9
  <2>2. EffectsFit'
    BY <1>e, <1>1, <1>2, <1>9, AttemptKeepsEffects
  <2>3. LedgersFit' /\ Amounts(spent') <= Budget
    BY <1>9, LedgerStays
  <2>4. ModelTypes'
    BY <1>1, <1>5, <1>6, <1>9, <2>1 DEF ModelTypes
  <2> QED
    BY <1>1, <1>6, <2>1, <2>2, <2>3, <2>4 DEF ModelInv
<1> QED
  BY <1>e, <1>t, <1>8, <1>9 DEF LastAttempt

LEMMA ReconcileOrphanKeeps ==
  ASSUME ModelInv, NEW e \in Effects, NEW usage \in Usages, ReconcileOrphan(e, usage)
  PROVE  ModelInv'
<1>1. /\ e \in effectIntents /\ results[e] = Unrecorded /\ e \notin rejected
      /\ results' = [results EXCEPT ![e] = usage]
      /\ reconciled' = reconciled \cup {e}
      /\ UNCHANGED <<effectIntents, llmAttempts, rejected, submitters, repeated,
                     answeredFor>>
  BY DEF ReconcileOrphan
<1>2. usage \in Nat
  BY EffectsAreCounted
<1>3. ModelTypes /\ CallersFit /\ repeated = {} /\ results \in LedgerType
  BY DEF ModelInv, ModelTypes
<1>4. /\ results' \in LedgerType /\ results'[e] = usage
      /\ \A x \in Effects : x # e => results'[x] = results[x]
  BY <1>1, <1>2, <1>3 DEF LedgerType
<1>5. ASSUME NEW x \in Effects
      PROVE  EffectFits(x)'
  <2>1. EffectFits(x)
    BY DEF ModelInv, EffectsFit
  <2>2. CASE x # e
    <3>1. results'[x] = results[x] /\ (x \in reconciled' <=> x \in reconciled)
      BY <1>1, <1>4, <2>2
    <3> QED
      BY <1>1, <2>1, <3>1 DEF EffectFits
  <2>3. CASE x = e
    <3>1. e \in reconciled'
      BY <1>1
    <3> QED
      BY <1>1, <2>1, <2>3, <3>1 DEF EffectFits
  <2> QED
    BY <2>2, <2>3
<1>6. EffectsFit'
  BY <1>5 DEF EffectsFit
<1>7. calling' \in [ModelCallers -> CallerType] /\ CallersFit'
  <2>1. CASE UNCHANGED calling
    <3>1. ASSUME NEW d \in ModelCallers, Working(d)
          PROVE  WorkFits(d)'
      <4>1. WorkFits(d) /\ calling[d].effect \in Effects
        BY <1>3, <3>1 DEF CallersFit, Working
      <4>2. CASE calling[d].effect = e
        BY <1>1, <2>1, <4>1, <4>2 DEF WorkFits
      <4>3. CASE calling[d].effect # e
        BY <1>1, <1>4, <2>1, <4>1, <4>3 DEF WorkFits
      <4> QED
        BY <4>2, <4>3
    <3> QED
      BY <1>3, <2>1, <3>1 DEF ModelTypes, CallersFit, Working
  <2>2. CASE Crashes
    BY <2>2, CrashedCallersFit
  <2> QED
    BY <2>1, <2>2 DEF ReconcileOrphan
<1>8. /\ spent' \in LedgerType /\ overrun' \in LedgerType
      /\ Amounts(spent') <= Budget /\ LedgersFit'
  <2>1. CASE Spend(e, usage)
    BY <1>1, <1>2, <1>4, <2>1, SpendKeepsLedger
  <2>2. CASE UNCHANGED <<spent, overrun>>
    <3>1. LedgersFit'
      BY <1>1, <1>4, <2>2, ResultKeepsLedger
    <3> QED
      BY <1>3, <2>2, <3>1 DEF ModelInv, ModelTypes
  <2> QED
    BY <2>1, <2>2 DEF ReconcileOrphan
<1>9. ModelTypes'
  BY <1>1, <1>3, <1>4, <1>7, <1>8 DEF ModelTypes
<1> QED
  BY <1>1, <1>3, <1>6, <1>7, <1>8, <1>9 DEF ModelInv

-----------------------------------------------------------------------------
LEMMA ModelStarts == ModelInit => ModelInv
<1> SUFFICES ASSUME ModelInit
             PROVE  ModelInv
  OBVIOUS
<1>1. \A e \in Effects : /\ submitters[e] = {} /\ llmAttempts[e] = <<>>
                         /\ results[e] = Unrecorded /\ spent[e] = Unrecorded
                         /\ overrun[e] = Unrecorded
  BY DEF ModelInit
<1>2. \A c \in ModelCallers : calling[c] = IdleCaller /\ calling[c].pc = "idle"
  BY IdleIsCaller DEF ModelInit
<1>3. /\ effectIntents \in SUBSET Effects /\ results \in LedgerType
      /\ spent \in LedgerType /\ overrun \in LedgerType
      /\ submitters \in [Effects -> SUBSET ModelCallers]
  BY DEF ModelInit, LedgerType
<1>4. llmAttempts \in [Effects -> Seq(Nat)]
  BY DEF ModelInit
<1>5. calling \in [ModelCallers -> CallerType]
  BY IdleIsCaller DEF ModelInit
<1>6. CallersFit
  BY <1>2 DEF CallersFit, Working
<1>7. EffectsFit /\ LedgersFit
  BY <1>1 DEF ModelInit, EffectsFit, EffectFits, LedgersFit, LedgerFits
<1>8. Amounts(spent) <= Budget /\ repeated = {}
  BY AmountsOfNothing, EffectsAreCounted DEF ModelInit
<1> QED
  BY <1>3, <1>4, <1>5, <1>6, <1>7, <1>8 DEF ModelInv, ModelTypes

LEMMA ModelKeeps == ModelInv /\ [ModelNext]_modelVars => ModelInv'
<1> SUFFICES ASSUME ModelInv, [ModelNext]_modelVars
             PROVE  ModelInv'
  OBVIOUS
<1>1. ASSUME NEW c \in ModelCallers, NEW e \in Effects, NEW stream \in BOOLEAN,
             Begin(c, e, stream)
      PROVE  ModelInv'
  BY <1>1, BeginKeeps
<1>2. ASSUME NEW c \in ModelCallers, CheckBudget(c)
      PROVE  ModelInv'
  BY <1>2, CheckBudgetKeeps
<1>3. ASSUME NEW c \in ModelCallers, CheckGuards(c)
      PROVE  ModelInv'
  BY <1>3, CheckGuardsKeeps
<1>4. ASSUME NEW c \in ModelCallers, Retry(c) \/ Cancelled(c)
      PROVE  ModelInv'
  BY <1>4, RetryKeeps, CancelledKeeps
<1>5. ASSUME NEW c \in ModelCallers, NEW u \in Usages, AttemptFails(c, u)
      PROVE  ModelInv'
  BY <1>5, AttemptFailsKeeps
<1>6. ASSUME NEW c \in ModelCallers, NEW u \in Usages, LastAttempt(c, u)
      PROVE  ModelInv'
  BY <1>6, LastAttemptKeeps
<1>7. ASSUME NEW e \in Effects, NEW u \in Usages, ReconcileOrphan(e, u)
      PROVE  ModelInv'
  BY <1>7, ReconcileOrphanKeeps
<1>8. ASSUME ModelCrash
      PROVE  ModelInv'
  BY <1>8, ModelCrashKeeps
<1>9. ASSUME UNCHANGED modelVars
      PROVE  ModelInv'
  <2>1. /\ UNCHANGED <<effectIntents, llmAttempts, results, rejected, spent, overrun>>
        /\ UNCHANGED <<reconciled, submitters, repeated, answeredFor>>
        /\ UNCHANGED calling
    BY <1>9 DEF modelVars, claimTape, callHistory
  <2>2. ModelTypes' /\ CallersFit'
    BY <2>1 DEF ModelInv, ModelTypes, CallersFit, Working, WorkFits
  <2>3. EffectsFit' /\ LedgersFit' /\ Amounts(spent') <= Budget
    BY <2>1, EffectsStay, LedgerStays
  <2> QED
    BY <2>1, <2>2, <2>3 DEF ModelInv
<1> QED
  BY <1>1, <1>2, <1>3, <1>4, <1>5, <1>6, <1>7, <1>8, <1>9 DEF ModelNext

LEMMA ModelInvImplies == ModelInv => ModelCallsSound
<1> SUFFICES ASSUME ModelInv
             PROVE  ModelCallsSound
  OBVIOUS
<1>1. ASSUME NEW e \in Effects
      PROVE  Cardinality(submitters[e]) <= 1
  <2>1. \A c, d \in submitters[e] : c = d
    BY DEF ModelInv, EffectsFit, EffectFits
  <2>2. CASE submitters[e] = {}
    BY <2>2, FS_EmptySet
  <2>3. CASE submitters[e] # {}
    <3>1. PICK c : submitters[e] = {c}
      BY <2>1, <2>3
    <3> QED
      BY <3>1, FS_Singleton
  <2> QED
    BY <2>2, <2>3
<1>2. SubmittedByOne
  BY <1>1 DEF SubmittedByOne, ModelInv, EffectsFit, EffectFits
<1>3. ASSUME NEW e \in Effects
      PROVE  /\ spent[e] = Unrecorded \/ overrun[e] = Unrecorded
             /\ \A ledger \in {spent, overrun} : ledger[e] \in {Unrecorded, results[e]}
             /\ e \in answeredFor /\ results[e] > 0 =>
                  spent[e] # Unrecorded \/ overrun[e] # Unrecorded
             /\ results[e] # Unrecorded /\ e \notin reconciled /\ llmAttempts[e] # <<>>
                  => results[e] = Total(llmAttempts[e])
  <2>1. EffectFits(e) /\ LedgerFits(e)
    BY DEF ModelInv, EffectsFit, LedgersFit
  <2> QED
    BY <2>1 DEF EffectFits, LedgerFits
<1>4. ModelSpendAccounted
  BY <1>3 DEF ModelSpendAccounted, ModelInv
<1> QED
  BY <1>2, <1>4 DEF ModelCallsSound

\* However the coroutines of a process interleave at their awaits, are
\* cancelled or die between two claims, and whatever an operator reconciles: a
\* model call is submitted by one caller, the ledger stays within its budget,
\* and what was billed is what is accounted for.
THEOREM ModelCallsAreSound == ModelSpec => []ModelCallsSound
<1>1. ModelSpec => []ModelInv
  BY ModelStarts, ModelKeeps, PTL DEF ModelSpec
<1> QED
  BY <1>1, ModelInvImplies, PTL

-----------------------------------------------------------------------------
(***************************************************************************)
(* The agent loop: what a batch of calls is, what the events and the       *)
(* transcript say of the calls that have returned, and who still runs.     *)
(***************************************************************************)

ToolStatuses == {"ok", "error", "rejected"}
EventStatuses == ToolStatuses \cup
  {Unset, "natural_stop", "max_iterations", "recommended", "cancelled"}
EventTypes == Terminal \cup {"run_started", "tool_started", "tool_completed"}
RunEvents == [type : EventTypes, turn : Nat, call : Nat, status : EventStatuses]
Spoken == [role : {"assistant"}, content : Replies \cup {<<>>}] \cup
          [role : {"user"}, content : Seq(ToolStatuses)]

LoopTyped ==
  /\ budgeted \in BOOLEAN /\ cancelled \in BOOLEAN /\ deadlinePassed \in BOOLEAN
  /\ pc \in {"new", "model", "act", "observe", "reason", "over"}
  /\ iteration \in Nat /\ nextCall \in Nat /\ nextCall >= 1 /\ callsSpent \in Nat
  /\ messages \in Seq(Spoken) /\ runEvents \in Seq(RunEvents)
  /\ modelReply \in Replies \cup {<<>>}

\* Every completion in a log follows a start of the same call.
Ordered(es) ==
  \A e \in 1 .. Len(es) : es[e].type = "tool_completed" =>
    \E s \in 1 .. e : es[s] = Event("tool_started", es[e].turn, es[e].call, Unset)

Opened(es, turn, call) ==
  \E s \in 1 .. Len(es) : es[s] = Event("tool_started", turn, call, Unset)

\* The call that started at s was completed since, with whatever status.
Closed(es, s) ==
  \E e \in s .. Len(es) : /\ es[e].type = "tool_completed"
                          /\ es[e].turn = es[s].turn /\ es[e].call = es[s].call

IsTold(es, turn, call, how) ==
  \E e \in 1 .. Len(es) : es[e] = Event("tool_completed", turn, call, how)

\* Whatever started was completed, but for the calls of this turn in rs.
AllClosed(es, turn, rs) ==
  \A s \in 1 .. Len(es) : es[s].type = "tool_started" =>
    Closed(es, s) \/ (es[s].turn = turn /\ es[s].call \in rs)

Ending(es) == {e \in 1 .. Len(es) : es[e].type \in Terminal}

\* Neither an exception nor the context has cut anything off.
Undisturbed == (~Over \/ finalResult # Unset) /\ ~cancelled /\ ~deadlinePassed

LogFits ==
  /\ Ordered(runEvents)
  /\ Over => \E e \in 1 .. Len(runEvents) : Ending(runEvents) = {e}
  /\ ~Over => Ending(runEvents) = {}
  /\ \A i \in executing : Opened(runEvents, iteration, i)
  /\ Undisturbed => AllClosed(runEvents, iteration, executing)

\* A run that has not ended has no result; one that was not cut off ended when
\* nothing was executing.
EndFits ==
  /\ ~Over => finalResult = Unset
  /\ Over /\ Undisturbed => executing = {}

\* The call at i has returned, and the consumer was told.
CallDone(i) ==
  /\ i \in DOMAIN outcomes /\ outcomes[i] \in ToolStatuses
  /\ Completed(iteration, i, outcomes[i])

\* The calls before `next` are done, and of the batch those not executing.
ToolsFit ==
  /\ pc \notin {"act", "over"} => executing = {}
  /\ executing \subseteq Batch
  /\ executing # {} => nextCall <= Len(Calls)
  /\ pc = "act" =>
       /\ nextCall <= Len(Calls) + 1
       /\ \A i \in 1 .. nextCall - 1 : CallDone(i)
       /\ executing # {} => \A i \in Batch \ executing : CallDone(i)
  /\ WritesRunAlone /\ BudgetKept

\* Two messages a turn; a user speaks second.
MessagesFit ==
  /\ ~Over => Len(messages) = 2 * iteration
  /\ \A m \in 1 .. Len(messages) : messages[m].role = "user" => m > 1
  /\ TranscriptTrue

LoopInv == LoopTyped /\ LogFits /\ EndFits /\ ToolsFit /\ MessagesFit

-----------------------------------------------------------------------------
(* Batches *)

LEMMA RepliesCounted ==
  ASSUME NEW r \in Replies \cup {<<>>}
  PROVE  Len(ToolCalls(r)) \in Nat
<1>1. PICK S : r \in Seq(S)
  <2>1. CASE r = <<>>
    <3>1. r \in Seq({})
      BY <2>1
    <3> QED
      BY <3>1
  <2>2. CASE r \in Replies
    BY <2>2, RepliesAreSequences
  <2> QED
    BY <2>1, <2>2
<1> QED
  BY <1>1 DEF ToolCalls, IsCall

LEMMA CallsCounted ==
  ASSUME LoopTyped
  PROVE  Len(Calls) \in Nat
BY RepliesCounted DEF LoopTyped, Calls

\* A batch is a run of calls from `next` on.
LEMMA BatchIs ==
  ASSUME LoopTyped
  PROVE  \E n \in Nat :
           /\ n >= 1 /\ Batch = nextCall .. nextCall + n - 1 /\ Cardinality(Batch) = n
           /\ nextCall <= Len(Calls) => nextCall + n - 1 <= Len(Calls)
<1>1. PICK k \in Nat : k = Len(Calls)
  BY CallsCounted
<1>2. nextCall \in Nat /\ nextCall >= 1 /\ MaxParallel \in Nat
  BY LoopLimits DEF LoopTyped
<1>3. Batch = {nextCall} \cup
        {i \in nextCall .. k : /\ ~budgeted /\ i < nextCall + MaxParallel
                           /\ \A j \in nextCall .. i : Calls[j] = "read"}
  BY <1>1 DEF Batch
<1>d. DEFINE Out == {i \in Nat : i >= nextCall /\ i \notin Batch}
<1>4. k + nextCall + 1 \in Out
  BY <1>2, <1>3
<1>5. PICK m \in Out : \A i \in Out : m <= i
  <2>1. Out \in SUBSET Nat /\ Out # {}
    BY <1>4
  <2> HIDE DEF Out
  <2> QED
    BY <2>1, LeastNumber
<1>6. m \in Nat /\ m > nextCall /\ m \notin Batch
  BY <1>2, <1>3, <1>5
<1>7. \A i \in nextCall .. m - 1 : i \in Batch
  <2> TAKE i \in nextCall .. m - 1
  <2>1. i \in Nat /\ i >= nextCall /\ ~(m <= i)
    BY <1>2, <1>6
  <2> QED
    BY <1>5, <2>1
<1>8. \A i \in Batch : i \in nextCall .. m - 1
  <2> TAKE i \in Batch
  <2>1. i \in Nat /\ i >= nextCall
    BY <1>2, <1>3
  <2>2. CASE i >= m
    <3>1. i # nextCall
      BY <1>2, <1>6, <2>2
    <3>2. /\ i \in nextCall .. k /\ ~budgeted /\ i < nextCall + MaxParallel
          /\ \A j \in nextCall .. i : Calls[j] = "read"
      BY <1>3, <3>1
    <3>3. m \in nextCall .. k /\ m < nextCall + MaxParallel
      BY <1>2, <1>6, <2>1, <2>2, <3>2
    <3>4. \A j \in nextCall .. m : j \in nextCall .. i
      BY <1>2, <1>6, <2>1, <2>2
    <3>5. m \in Batch
      BY <1>3, <3>2, <3>3, <3>4
    <3> QED
      BY <1>6, <3>5
  <2> QED
    BY <1>2, <1>6, <2>1, <2>2
<1>9. PICK n \in Nat : n = m - nextCall
  BY <1>2, <1>6
<1>10. n >= 1 /\ nextCall + n - 1 = m - 1
  BY <1>2, <1>6, <1>9
<1>11. Batch = nextCall .. nextCall + n - 1
  BY <1>7, <1>8, <1>10
<1>12. Cardinality(Batch) = n
  <2>1. Cardinality(nextCall .. nextCall + n - 1) =
          IF nextCall > nextCall + n - 1 THEN 0 ELSE nextCall + n - 1 - nextCall + 1
    BY <1>2, FS_Interval
  <2> QED
    BY <1>2, <1>10, <1>11, <2>1
<1>13. nextCall <= k => m - 1 <= k
  <2>1. m - 1 \in Batch
    BY <1>2, <1>6, <1>7
  <2> QED
    BY <1>2, <1>3, <1>6, <2>1
<1> QED
  BY <1>1, <1>10, <1>11, <1>12, <1>13

\* Who is no read is alone in its batch; a budget admits one call at a time.
LEMMA BatchApart ==
  ASSUME LoopTyped
  PROVE  /\ \A i \in Batch : Calls[i] # "read" => Batch = {i}
         /\ budgeted => Batch = {nextCall}
<1>1. nextCall \in Nat
  BY DEF LoopTyped
<1>2. budgeted => Batch = {nextCall}
  BY DEF Batch
<1>3. ASSUME NEW i \in Batch, Calls[i] # "read"
      PROVE  Batch = {i}
  <2>1. PICK k \in Nat : k = Len(Calls)
    BY CallsCounted
  <2>2. i = nextCall
    BY <1>1, <1>3, <2>1 DEF Batch
  <2>3. \A j \in nextCall .. k : nextCall \in nextCall .. j
    BY <1>1
  <2> QED
    BY <1>3, <2>1, <2>2, <2>3 DEF Batch
<1> QED
  BY <1>2, <1>3

-----------------------------------------------------------------------------
(* Logs *)

\* The log f begins with es.
Extends(f, es) ==
  /\ f \in Seq(RunEvents) /\ Len(es) <= Len(f)
  /\ \A e \in 1 .. Len(es) : f[e] = es[e]

LEMMA LogAppends ==
  ASSUME NEW es \in Seq(RunEvents), NEW ev \in RunEvents, NEW f, f = Append(es, ev)
  PROVE  /\ Extends(f, es) /\ Len(f) = Len(es) + 1 /\ f[Len(f)] = ev
BY DEF Extends

LEMMA LogGrows ==
  ASSUME NEW es \in Seq(RunEvents), NEW f, Extends(f, es), NEW turn, NEW call
  PROVE  /\ Opened(es, turn, call) => Opened(f, turn, call)
         /\ \A s \in 1 .. Len(es) : Closed(es, s) => Closed(f, s)
<1>1. PICK n \in Nat, k \in Nat : n = Len(es) /\ k = Len(f) /\ n <= k
  BY DEF Extends
<1>2. \A e \in 1 .. n : e \in 1 .. k /\ f[e] = es[e]
  BY <1>1 DEF Extends
<1>3. Opened(es, turn, call) => Opened(f, turn, call)
  BY <1>1, <1>2 DEF Opened
<1>4. ASSUME NEW s \in 1 .. n, Closed(es, s)
      PROVE  Closed(f, s)
  <2>1. PICK e \in s .. n : /\ es[e].type = "tool_completed"
                            /\ es[e].turn = es[s].turn /\ es[e].call = es[s].call
    BY <1>1, <1>4 DEF Closed
  <2>2. e \in 1 .. n /\ e \in s .. k
    BY <1>1, <1>4
  <2> QED
    BY <1>1, <1>2, <1>4, <2>1, <2>2 DEF Closed
<1> QED
  BY <1>1, <1>3, <1>4

LEMMA OrderedGrows ==
  ASSUME NEW es \in Seq(RunEvents), NEW f, Extends(f, es), Ordered(es),
         \A e \in Len(es) + 1 .. Len(f) : f[e].type = "tool_completed" =>
           \E s \in 1 .. e : f[s] = Event("tool_started", f[e].turn, f[e].call, Unset)
  PROVE  Ordered(f)
<1>1. PICK n \in Nat, k \in Nat : n = Len(es) /\ k = Len(f) /\ n <= k
  BY DEF Extends
<1>2. \A e \in 1 .. n : e \in 1 .. k /\ f[e] = es[e]
  BY <1>1 DEF Extends
<1>3. ASSUME NEW e \in 1 .. k, f[e].type = "tool_completed"
      PROVE  \E s \in 1 .. e : f[s] = Event("tool_started", f[e].turn, f[e].call, Unset)
  <2>1. CASE e \in 1 .. n
    <3>1. PICK s \in 1 .. e : es[s] = Event("tool_started", es[e].turn, es[e].call, Unset)
      BY <1>1, <1>2, <1>3, <2>1 DEF Ordered
    <3>2. s \in 1 .. n
      BY <2>1
    <3> QED
      BY <1>2, <2>1, <3>1, <3>2
  <2>2. CASE e \in n + 1 .. k
    BY <1>1, <1>3, <2>2
  <2> QED
    BY <1>1, <2>1, <2>2
<1> QED
  BY <1>1, <1>3 DEF Ordered

LEMMA EndingGrows ==
  ASSUME NEW es \in Seq(RunEvents), NEW f, Extends(f, es)
  PROVE  Ending(f) = Ending(es) \cup
           {e \in Len(es) + 1 .. Len(f) : f[e].type \in Terminal}
<1>1. PICK n \in Nat, k \in Nat : n = Len(es) /\ k = Len(f) /\ n <= k
  BY DEF Extends
<1>2. \A e \in 1 .. n : e \in 1 .. k /\ f[e] = es[e]
  BY <1>1 DEF Extends
<1>3. \A e : e \in 1 .. k <=> e \in 1 .. n \/ e \in n + 1 .. k
  BY <1>1
<1> QED
  BY <1>1, <1>2, <1>3 DEF Ending

LEMMA ClosedGrows ==
  ASSUME NEW es \in Seq(RunEvents), NEW f, Extends(f, es),
         NEW turn, NEW rs, NEW turns, NEW left, AllClosed(es, turn, rs),
         \* what was open is closed now, or left open
         \A call \in rs : \/ turns = turn /\ call \in left
                          \/ \E e \in Len(es) + 1 .. Len(f) :
                               /\ f[e].type = "tool_completed"
                               /\ f[e].turn = turn /\ f[e].call = call,
         \* and so is what is new
         \A s \in Len(es) + 1 .. Len(f) : f[s].type = "tool_started" =>
           Closed(f, s) \/ (f[s].turn = turns /\ f[s].call \in left)
  PROVE  AllClosed(f, turns, left)
<1>1. PICK n \in Nat, k \in Nat : n = Len(es) /\ k = Len(f) /\ n <= k
  BY DEF Extends
<1>2. \A e \in 1 .. n : e \in 1 .. k /\ f[e] = es[e]
  BY <1>1 DEF Extends
<1>3. ASSUME NEW s \in 1 .. k, f[s].type = "tool_started"
      PROVE  Closed(f, s) \/ (f[s].turn = turns /\ f[s].call \in left)
  <2>1. CASE s \in n + 1 .. k
    BY <1>1, <1>3, <2>1
  <2>2. CASE s \in 1 .. n
    <3>1. es[s].type = "tool_started" /\ f[s] = es[s]
      BY <1>2, <1>3, <2>2
    <3>2. CASE Closed(es, s)
      BY <1>1, <2>2, <3>2, LogGrows
    <3>3. CASE es[s].turn = turn /\ es[s].call \in rs
      <4>1. CASE turns = turn /\ es[s].call \in left
        BY <3>1, <3>3, <4>1
      <4>2. ASSUME NEW e \in n + 1 .. k, f[e].type = "tool_completed",
                   f[e].turn = turn, f[e].call = es[s].call
            PROVE  Closed(f, s)
        <5>1. e \in s .. k
          BY <2>2
        <5> QED
          BY <1>1, <3>1, <3>3, <4>2, <5>1 DEF Closed
      <4> QED
        BY <1>1, <3>3, <4>1, <4>2
    <3> QED
      BY <1>1, <2>2, <3>1, <3>2, <3>3 DEF AllClosed
  <2> QED
    BY <1>1, <2>1, <2>2
<1> QED
  BY <1>1, <1>3 DEF AllClosed

LEMMA ClosedInTurn ==
  ASSUME NEW es \in Seq(RunEvents), NEW f, Extends(f, es),
         NEW turn, NEW rs, NEW left, AllClosed(es, turn, rs),
         \A call \in rs \ left : \E e \in Len(es) + 1 .. Len(f) :
           f[e].type = "tool_completed" /\ f[e].turn = turn /\ f[e].call = call,
         \A s \in Len(es) + 1 .. Len(f) : f[s].type # "tool_started"
  PROVE  AllClosed(f, turn, left)
<1>1. PICK turns : turns = turn
  OBVIOUS
<1>2. \A call \in rs : \/ turns = turn /\ call \in left
                       \/ \E e \in Len(es) + 1 .. Len(f) :
                            /\ f[e].type = "tool_completed"
                            /\ f[e].turn = turn /\ f[e].call = call
  BY <1>1
<1>3. AllClosed(f, turns, left)
  BY <1>2, ClosedGrows
<1> QED
  BY <1>1, <1>3

\* What the log said of a call it says for ever.
LEMMA CompletedStays ==
  ASSUME LoopTyped, Extends(runEvents', runEvents), NEW turn, NEW call, NEW how,
         Completed(turn, call, how)
  PROVE  IsTold(runEvents', turn, call, how)
<1>1. PICK n \in Nat, k \in Nat : n = Len(runEvents) /\ k = Len(runEvents') /\ n <= k
  BY DEF Extends, LoopTyped
<1>2. \A e \in 1 .. n : e \in 1 .. k /\ runEvents'[e] = runEvents[e]
  BY <1>1 DEF Extends
<1> QED
  BY <1>1, <1>2 DEF Completed, IsTold

-----------------------------------------------------------------------------
(* What a step leaves as it was *)

\* A transcript that grows by no false word stays true.
LEMMA TranscriptGrows ==
  ASSUME LoopTyped, MessagesFit, Extends(runEvents', runEvents),
         messages' \in Seq(Spoken), Len(messages) <= Len(messages'),
         \A m \in 1 .. Len(messages) : messages'[m] = messages[m],
         \A m \in Len(messages) + 1 .. Len(messages') : messages'[m].role = "user" =>
           /\ m > 1
           /\ Len(messages'[m].content) = Len(ToolCalls(messages'[m - 1].content))
           /\ \A i \in 1 .. Len(messages'[m].content) :
                IsTold(runEvents', (m \div 2) - 1, i, messages'[m].content[i])
  PROVE  /\ \A m \in 1 .. Len(messages') : messages'[m].role = "user" => m > 1
         /\ TranscriptTrue'
<1>1. PICK n \in Nat, k \in Nat : n = Len(messages) /\ k = Len(messages') /\ n <= k
  BY DEF LoopTyped
<1>2. \A m \in 1 .. n : messages'[m] = messages[m]
  BY <1>1
<1>3. ASSUME NEW m \in 1 .. k, messages'[m].role = "user"
      PROVE  /\ m > 1
             /\ Len(messages'[m].content) = Len(ToolCalls(messages'[m - 1].content))
             /\ \A i \in 1 .. Len(messages'[m].content) :
                  IsTold(runEvents', (m \div 2) - 1, i, messages'[m].content[i])
  <2>1. CASE m \in n + 1 .. k
    BY <1>1, <1>3, <2>1
  <2>2. CASE m \in 1 .. n
    <3>1. messages'[m] = messages[m] /\ m > 1
      BY <1>1, <1>2, <1>3, <2>2 DEF MessagesFit
    <3>2. m - 1 \in 1 .. n /\ messages'[m - 1] = messages[m - 1]
      BY <1>2, <2>2, <3>1
    <3>3. /\ Len(messages[m].content) = Len(ToolCalls(messages[m - 1].content))
          /\ \A i \in 1 .. Len(messages[m].content) :
               Completed((m \div 2) - 1, i, messages[m].content[i])
      BY <1>1, <1>3, <2>2, <3>1 DEF MessagesFit, TranscriptTrue
    <3>4. ASSUME NEW i \in 1 .. Len(messages'[m].content)
          PROVE  IsTold(runEvents', (m \div 2) - 1, i, messages'[m].content[i])
      <4>1. PICK told : told = messages'[m].content[i] /\ told = messages[m].content[i]
        BY <3>1
      <4>2. Completed((m \div 2) - 1, i, told)
        BY <3>1, <3>3, <3>4, <4>1
      <4>3. IsTold(runEvents', (m \div 2) - 1, i, told)
        BY <4>2, CompletedStays
      <4> QED
        BY <4>1, <4>3
    <3> QED
      BY <3>1, <3>2, <3>3, <3>4
  <2> QED
    BY <1>1, <2>1, <2>2
<1>4. \A m \in 1 .. k : messages'[m].role = "user" => m > 1
  BY <1>3
<1>5. TranscriptTrue'
  BY <1>1, <1>3 DEF TranscriptTrue, Completed, IsTold
<1> QED
  BY <1>1, <1>4, <1>5

LEMMA MessagesKept ==
  ASSUME LoopTyped, MessagesFit, Extends(runEvents', runEvents),
         UNCHANGED <<messages, iteration>>, ~Over' => ~Over
  PROVE  MessagesFit'
<1>1. /\ \A m \in 1 .. Len(messages') : messages'[m].role = "user" => m > 1
      /\ TranscriptTrue'
  <2>1. messages' \in Seq(Spoken) /\ Len(messages) <= Len(messages') /\ Len(messages) \in Nat
    BY DEF LoopTyped
  <2>2. \A m \in Len(messages) + 1 .. Len(messages') : FALSE
    BY <2>1
  <2> QED
    BY <2>1, <2>2, TranscriptGrows
<1> QED
  BY <1>1 DEF MessagesFit, Over

\* The terminal event of a run.
LEMMA RunEnds ==
  ASSUME LoopInv, NEW ev \in RunEvents, ev.type \in Terminal, ~Over, pc' = "over",
         runEvents' = Append(runEvents, ev), executing' \subseteq executing,
         executing' = {} \/ iteration' = iteration,
         UNCHANGED context, Undisturbed' => executing = {}
  PROVE  LogFits' /\ EndFits'
<1>1. Over' /\ runEvents \in Seq(RunEvents)
  BY DEF Over, LoopInv, LoopTyped
<1>f. PICK f : f = runEvents'
  OBVIOUS
<1>n. PICK n \in Nat : n = Len(runEvents)
  BY <1>1
<1>2. n = Len(runEvents) /\ f = runEvents'
  BY <1>f, <1>n
<1>3. Extends(f, runEvents) /\ Len(f) = n + 1 /\ f[n + 1] = ev
  BY <1>1, <1>2, LogAppends
<1>4. \A e \in n + 1 .. n + 1 : e = n + 1 /\ f[e].type \notin {"tool_completed", "tool_started"}
  BY <1>3 DEF Terminal
<1>5. Ordered(f)
  BY <1>1, <1>2, <1>3, <1>4, OrderedGrows DEF LoopInv, LogFits
<1>6. Ending(f) = {n + 1} /\ n + 1 \in 1 .. Len(f)
  <2>1. Ending(runEvents) = {}
    BY DEF LoopInv, LogFits
  <2>2. Ending(f) = Ending(runEvents) \cup
          {e \in Len(runEvents) + 1 .. Len(f) : f[e].type \in Terminal}
    BY <1>1, <1>3, EndingGrows
  <2> QED
    BY <1>2, <1>3, <2>1, <2>2
<1>7. \A i \in executing' : Opened(f, iteration', i)
  BY <1>1, <1>3, LogGrows DEF LoopInv, LogFits
<1>8. ASSUME Undisturbed'
      PROVE  AllClosed(f, iteration', executing')
  <2>1. AllClosed(runEvents, iteration, {}) /\ executing' = {}
    BY <1>8 DEF LoopInv, LogFits, Undisturbed, context
  <2>2. \A s \in Len(runEvents) + 1 .. Len(f) : f[s].type # "tool_started"
    BY <1>2, <1>3, <1>4
  <2> QED
    BY <1>1, <1>3, <2>1, <2>2, ClosedGrows
<1>9. LogFits'
  BY <1>1, <1>2, <1>5, <1>6, <1>7, <1>8 DEF LogFits
<1> QED
  BY <1>1, <1>9 DEF EndFits

\* No event, and nothing new executes.
LEMMA LogKept ==
  ASSUME LoopInv, UNCHANGED runEvents, Over' <=> Over, executing' \subseteq executing,
         executing' = {} \/ iteration' = iteration,
         Undisturbed' => Undisturbed /\ executing' = executing
  PROVE  LogFits'
<1>1. \A i \in executing' : Opened(runEvents, iteration', i)
  BY DEF LoopInv, LogFits
<1>2. Undisturbed' => AllClosed(runEvents, iteration', executing')
  BY DEF LoopInv, LogFits, AllClosed
<1> QED
  BY <1>1, <1>2 DEF LoopInv, LogFits

\* How many calls execute; under a budget at most one.
LEMMA ExecutingCounted ==
  ASSUME LoopTyped, ToolsFit
  PROVE  /\ IsFiniteSet(executing) /\ Cardinality(executing) \in Nat
         /\ budgeted => executing \in {{}, {nextCall}}
<1>1. IsFiniteSet(Batch)
  <2>1. PICK n \in Nat : Batch = nextCall .. nextCall + n - 1
    BY BatchIs
  <2> QED
    BY <2>1, FS_Interval DEF LoopTyped
<1>2. IsFiniteSet(executing) /\ Cardinality(executing) \in Nat
  BY <1>1, FS_Subset, FS_CardinalityType DEF ToolsFit
<1>3. budgeted => executing \in {{}, {nextCall}}
  BY BatchApart DEF ToolsFit
<1> QED
  BY <1>2, <1>3

\* A run that is over may leave reads executing.
LEMMA ToolsEnd ==
  ASSUME LoopInv, pc' = "over", UNCHANGED <<budgeted, nextCall, modelReply, callsSpent>>,
         executing' \subseteq executing, \A i \in executing' : Calls[i] = "read"
  PROVE  ToolsFit'
<1>0. LoopTyped /\ ToolsFit
  BY DEF LoopInv
<1>1. Batch' = Batch /\ Calls' = Calls
  BY DEF Batch, Calls
<1>2. executing' \subseteq Batch /\ (executing' # {} => nextCall <= Len(Calls))
  BY <1>0 DEF ToolsFit
<1>3. WritesRunAlone'
  BY <1>1 DEF WritesRunAlone
<1>4. BudgetKept'
  <2>1. Cardinality(executing') <= Cardinality(executing) /\ Cardinality(executing') \in Nat
    BY <1>0, ExecutingCounted, FS_Subset, FS_CardinalityType
  <2>2. BudgetKept /\ callsSpent \in Nat /\ ToolBudget \in Nat /\ Cardinality(executing) \in Nat
    BY <1>0, ExecutingCounted, LoopLimits DEF ToolsFit, LoopTyped
  <2>3. budgeted => callsSpent + Cardinality(executing) <= ToolBudget
    BY <2>2 DEF BudgetKept
  <2>4. budgeted => callsSpent + Cardinality(executing') <= ToolBudget
    BY <2>1, <2>2, <2>3
  <2> QED
    BY <2>4 DEF BudgetKept
<1> QED
  BY <1>1, <1>2, <1>3, <1>4 DEF ToolsFit

\* Between batches.
LEMMA ToolsQuiet ==
  ASSUME LoopInv, pc' # "act", executing = {}, executing' = {},
         UNCHANGED <<budgeted, callsSpent>>
  PROVE  ToolsFit'
<1>1. BudgetKept'
  BY DEF LoopInv, ToolsFit, BudgetKept
<1> QED
  BY <1>1 DEF ToolsFit, WritesRunAlone

-----------------------------------------------------------------------------
(* The steps *)

LEMMA LoopBegins == LoopInit => LoopInv
<1> SUFFICES ASSUME LoopInit
             PROVE  LoopInv
  OBVIOUS
<1>1. PICK ev : ev = Event("run_started", 0, 0, Unset)
  OBVIOUS
<1>2. ev \in RunEvents /\ ev.type = "run_started"
  BY <1>1 DEF Event, RunEvents, EventTypes, EventStatuses
<1>3. runEvents = <<ev>> /\ runEvents \in Seq(RunEvents) /\ Len(runEvents) = 1 /\ runEvents[1] = ev
  BY <1>1, <1>2 DEF LoopInit
<1>4. messages = <<>> /\ messages \in Seq(Spoken) /\ Len(messages) = 0
  BY DEF LoopInit
<1>5. LoopTyped
  <2>1. /\ budgeted \in BOOLEAN /\ ~cancelled /\ ~deadlinePassed /\ modelReply = <<>>
        /\ pc = "new" /\ iteration = 0 /\ nextCall = 1 /\ callsSpent = 0
    BY DEF LoopInit
  <2>2. cancelled \in BOOLEAN /\ deadlinePassed \in BOOLEAN
    BY DEF LoopInit
  <2> QED
    BY <1>3, <1>4, <2>1, <2>2 DEF LoopTyped
<1>6. \A e \in 1 .. Len(runEvents) : runEvents[e].type = "run_started"
  BY <1>2, <1>3
<1>7. LogFits
  <2>1. Ordered(runEvents) /\ AllClosed(runEvents, iteration, executing)
    BY <1>6 DEF Ordered, AllClosed
  <2>2. Ending(runEvents) = {} /\ ~Over /\ executing = {}
    BY <1>6 DEF Ending, Terminal, LoopInit, Over
  <2> QED
    BY <2>1, <2>2 DEF LogFits
<1>8. EndFits
  BY DEF LoopInit, EndFits, Over
<1>9. ToolsFit
  <2>1. BudgetKept
    BY FS_EmptySet, LoopLimits DEF LoopInit, BudgetKept
  <2> QED
    BY <2>1 DEF LoopInit, ToolsFit, WritesRunAlone
<1>10. MessagesFit
  BY <1>4 DEF LoopInit, MessagesFit, TranscriptTrue
<1> QED
  BY <1>5, <1>7, <1>8, <1>9, <1>10 DEF LoopInv

\* The result, and the event that ends the run.
LEMMA FinishIs ==
  ASSUME LoopInv, ~Over, NEW reason \in EventStatuses, NEW turns \in Nat, NEW said,
         FinishRun(reason, turns, said), executing' = {},
         UNCHANGED context, Undisturbed' => executing = {}
  PROVE  LogFits' /\ EndFits' /\ pc' = "over" /\ Extends(runEvents', runEvents)
<1>1. PICK ev : ev = Event(IF reason = "cancelled" THEN "run_cancelled" ELSE "run_completed",
                           turns, 0, reason)
  OBVIOUS
<1>2. ev \in RunEvents /\ ev.type \in Terminal
  BY <1>1 DEF Event, RunEvents, EventTypes, Terminal
<1>3. pc' = "over" /\ runEvents' = Append(runEvents, ev)
  BY <1>1 DEF FinishRun
<1>4. runEvents \in Seq(RunEvents)
  BY DEF LoopInv, LoopTyped
<1>5. Extends(runEvents', runEvents)
  BY <1>2, <1>3, <1>4, LogAppends
<1>6. LogFits' /\ EndFits'
  BY <1>2, <1>3, RunEnds
<1> QED
  BY <1>3, <1>5, <1>6

LEMMA RaiseIs ==
  ASSUME LoopInv, ~Over, Raise, executing' \subseteq executing,
         UNCHANGED <<iteration, context>>
  PROVE  LogFits' /\ EndFits' /\ pc' = "over" /\ Extends(runEvents', runEvents)
<1>1. PICK ev : ev = Event("run_failed", iteration, 0, Unset)
  OBVIOUS
<1>2. ev \in RunEvents /\ ev.type \in Terminal
  BY <1>1 DEF Event, RunEvents, EventTypes, EventStatuses, Terminal, LoopInv, LoopTyped
<1>3. pc' = "over" /\ runEvents' = Append(runEvents, ev) /\ finalResult' = finalResult
  BY <1>1 DEF Raise, Emit
<1>4. runEvents \in Seq(RunEvents)
  BY DEF LoopInv, LoopTyped
<1>5. Extends(runEvents', runEvents)
  BY <1>2, <1>3, <1>4, LogAppends
<1>6. ~Undisturbed'
  BY <1>3 DEF LoopInv, EndFits, Undisturbed, Over
<1>7. LogFits' /\ EndFits'
  BY <1>2, <1>3, <1>6, RunEnds
<1> QED
  BY <1>3, <1>5, <1>7

LEMMA ContextKeeps ==
  ASSUME LoopInv, CancelLoop \/ DeadlinePasses
  PROVE  LoopInv'
<1>1. ~Over /\ ~Undisturbed' /\ UNCHANGED <<loop, finalResult, runEvents>>
  BY DEF CancelLoop, DeadlinePasses, Undisturbed
<1>2. LoopTyped'
  BY <1>1 DEF LoopInv, LoopTyped, loop, CancelLoop, DeadlinePasses
<1>3. LogFits' /\ EndFits'
  BY <1>1, LogKept DEF LoopInv, EndFits, Over, loop
<1>4. ToolsFit'
  BY <1>1 DEF LoopInv, ToolsFit, CallDone, Completed, WritesRunAlone, BudgetKept, Over, Batch,
              Calls, loop
<1>5. MessagesFit'
  BY <1>1 DEF LoopInv, MessagesFit, TranscriptTrue, Completed, Over, loop
<1> QED
  BY <1>2, <1>3, <1>4, <1>5 DEF LoopInv

LEMMA StopRunKeeps ==
  ASSUME LoopInv, StopRun
  PROVE  LoopInv'
<1>0. LoopTyped /\ MessagesFit
  BY DEF LoopInv
<1>1. PICK reason \in EventStatuses : FinishRun(reason, 0, <<>>)
  BY DEF StopRun, EventStatuses, ToolStatuses
<1>2. /\ ~Over /\ executing' = {} /\ ~Undisturbed'
      /\ UNCHANGED <<budgeted, iteration, messages, modelReply, nextCall, outcomes, callsSpent,
                     context>>
  BY DEF StopRun, Undisturbed, Over, context
<1>3. LogFits' /\ EndFits' /\ pc' = "over" /\ Extends(runEvents', runEvents)
  BY <1>1, <1>2, FinishIs
<1>4. LoopTyped'
  BY <1>0, <1>2, <1>3 DEF LoopTyped, Extends, context
<1>5. ToolsFit'
  BY <1>2, <1>3, ToolsEnd
<1>6. MessagesFit'
  BY <1>0, <1>2, <1>3, MessagesKept
<1> QED
  BY <1>3, <1>4, <1>5, <1>6 DEF LoopInv

LEMMA ReasonKeeps ==
  ASSUME LoopInv, Reason
  PROVE  LoopInv'
<1>0. LoopTyped /\ MessagesFit
  BY DEF LoopInv
<1>1. /\ pc \in {"new", "reason"} /\ ~Over /\ executing = {} /\ executing' = {}
      /\ UNCHANGED <<budgeted, iteration, messages, modelReply, nextCall, outcomes, callsSpent,
                     context>>
  BY DEF Reason, LoopInv, ToolsFit, Over
<1>2. /\ LogFits' /\ EndFits' /\ pc' \in {"model", "over"} /\ Extends(runEvents', runEvents)
  <2>1. CASE iteration >= MaxIterations
    <3>1. FinishRun("max_iterations", iteration, messages)
      BY <2>1 DEF Reason
    <3>2. "max_iterations" \in EventStatuses /\ iteration \in Nat
      BY <1>0 DEF EventStatuses, LoopTyped
    <3> QED
      BY <1>1, <3>1, <3>2, FinishIs
  <2>2. CASE ~ (iteration >= MaxIterations)
    <3>1. pc' = "model" /\ UNCHANGED <<finalResult, runEvents>>
      BY <2>2 DEF Reason
    <3>2. ~Over' /\ (Undisturbed' <=> Undisturbed)
      BY <1>1, <3>1 DEF Over, Undisturbed, context
    <3>3. LogFits'
      BY <1>1, <3>1, <3>2, LogKept
    <3> QED
      BY <1>0, <1>1, <3>1, <3>2, <3>3 DEF LoopInv, EndFits, Extends, LoopTyped
  <2> QED
    BY <2>1, <2>2
<1>3. LoopTyped'
  BY <1>0, <1>1, <1>2 DEF LoopTyped, Extends, context
<1>4. ToolsFit'
  BY <1>1, <1>2, ToolsQuiet
<1>5. MessagesFit'
  BY <1>0, <1>1, <1>2, MessagesKept
<1> QED
  BY <1>2, <1>3, <1>4, <1>5 DEF LoopInv

LEMMA AnswerKeeps ==
  ASSUME LoopInv, NEW r \in Replies, NEW says, ModelAnswers(r, says)
  PROVE  LoopInv'
<1>0. LoopTyped /\ MessagesFit
  BY DEF LoopInv
<1>1. /\ ~Over /\ executing = {} /\ executing' = {}
      /\ UNCHANGED <<budgeted, modelReply, nextCall, outcomes, callsSpent, context>>
  BY DEF ModelAnswers, LoopInv, ToolsFit, Over
<1>2. PICK w : w = [role |-> "assistant", content |-> r]
  OBVIOUS
<1>3. w \in Spoken /\ w.role = "assistant"
  BY <1>2 DEF Spoken
<1>4. messages \in Seq(Spoken) /\ iteration \in Nat
  BY <1>0 DEF LoopTyped
<1>5. /\ iteration' \in Nat
      /\ messages' = messages \/ messages' = Append(messages, w)
  BY <1>2, <1>4 DEF ModelAnswers
<1>6. LogFits' /\ EndFits' /\ pc' = "over" /\ Extends(runEvents', runEvents)
  <2>1. PICK reason \in EventStatuses : FinishRun(reason, iteration', messages')
    BY DEF ModelAnswers, EventStatuses, ToolStatuses
  <2> QED
    BY <1>1, <1>5, <2>1, FinishIs
<1>7. /\ messages' \in Seq(Spoken) /\ Len(messages) <= Len(messages')
      /\ \A m \in 1 .. Len(messages) : messages'[m] = messages[m]
      /\ \A m \in Len(messages) + 1 .. Len(messages') : messages'[m] = w
  BY <1>3, <1>4, <1>5
<1>8. MessagesFit'
  <2>1. \A m \in Len(messages) + 1 .. Len(messages') : messages'[m].role # "user"
    BY <1>3, <1>7
  <2>2. /\ \A m \in 1 .. Len(messages') : messages'[m].role = "user" => m > 1
        /\ TranscriptTrue'
    BY <1>0, <1>6, <1>7, <2>1, TranscriptGrows
  <2> QED
    BY <1>6, <2>2 DEF MessagesFit, Over
<1>9. LoopTyped'
  BY <1>0, <1>1, <1>5, <1>6, <1>7 DEF LoopTyped, Extends, context
<1>10. ToolsFit'
  BY <1>1, <1>6, ToolsQuiet
<1> QED
  BY <1>6, <1>8, <1>9, <1>10 DEF LoopInv


LEMMA ModelAsksKeeps ==
  ASSUME LoopInv, NEW r \in Replies, ModelCallsTools(r)
  PROVE  LoopInv'
<1>0. LoopTyped /\ MessagesFit /\ BudgetKept
  BY DEF LoopInv, ToolsFit
<1>1. /\ ~Over /\ ~Over' /\ executing = {} /\ executing' = {}
      /\ pc' = "act" /\ nextCall' = 1 /\ modelReply' = r
      /\ UNCHANGED <<budgeted, iteration, messages, callsSpent, context, finalResult,
                     runEvents>>
  BY DEF ModelCallsTools, LoopInv, ToolsFit, Over
<1>2. LogFits'
  <2>1. Undisturbed' <=> Undisturbed
    BY <1>1 DEF Undisturbed, Over, context
  <2> QED
    BY <1>1, <2>1, LogKept
<1>3. EndFits'
  BY <1>1 DEF LoopInv, EndFits
<1>4. LoopTyped'
  BY <1>0, <1>1 DEF LoopTyped, context
<1>5. ToolsFit'
  <2>1. Len(Calls') \in Nat
    BY <1>1, RepliesCounted DEF Calls
  <2>2. BudgetKept' /\ WritesRunAlone'
    BY <1>0, <1>1 DEF BudgetKept, WritesRunAlone
  <2> QED
    BY <1>1, <2>1, <2>2 DEF ToolsFit
<1>6. MessagesFit'
  <2>1. Extends(runEvents', runEvents)
    BY <1>0, <1>1 DEF Extends, LoopTyped
  <2> QED
    BY <1>0, <1>1, <2>1, MessagesKept
<1> QED
  BY <1>2, <1>3, <1>4, <1>5, <1>6 DEF LoopInv

LEMMA RaiseKeeps ==
  ASSUME LoopInv, ModelRaises
  PROVE  LoopInv'
<1>0. LoopTyped /\ MessagesFit
  BY DEF LoopInv
<1>1. /\ ~Over /\ Raise /\ executing' = {} /\ executing = {}
      /\ UNCHANGED <<budgeted, iteration, messages, modelReply, nextCall, outcomes, callsSpent,
                     context>>
  BY DEF ModelRaises, LoopInv, ToolsFit, Over
<1>2. LogFits' /\ EndFits' /\ pc' = "over" /\ Extends(runEvents', runEvents)
  BY <1>1, RaiseIs
<1>3. LoopTyped'
  BY <1>0, <1>1, <1>2 DEF LoopTyped, Extends, context
<1>4. ToolsFit'
  BY <1>1, <1>2, ToolsQuiet
<1>5. MessagesFit'
  BY <1>0, <1>1, <1>2, MessagesKept
<1> QED
  BY <1>2, <1>3, <1>4, <1>5 DEF LoopInv

LEMMA ObserveKeeps ==
  ASSUME LoopInv, Observe
  PROVE  LoopInv'
<1>0. LoopTyped /\ MessagesFit
  BY DEF LoopInv
<1>1. /\ ~Over /\ executing = {} /\ executing' = {}
      /\ UNCHANGED <<budgeted, iteration, messages, modelReply, nextCall, outcomes, callsSpent,
                     context>>
  BY DEF Observe, LoopInv, ToolsFit, Over
<1>2. LogFits' /\ EndFits' /\ pc' \in {"reason", "over"} /\ Extends(runEvents', runEvents)
  <2>1. CASE pc' = "reason" /\ UNCHANGED <<finalResult, runEvents>>
    <3>1. ~Over' /\ (Undisturbed' <=> Undisturbed)
      BY <1>1, <2>1 DEF Over, Undisturbed, context
    <3>2. LogFits'
      BY <1>1, <2>1, <3>1, LogKept
    <3> QED
      BY <1>0, <1>1, <2>1, <3>1, <3>2 DEF LoopInv, EndFits, Extends, LoopTyped
  <2>2. CASE FinishRun("recommended", iteration, messages)
    <3>1. "recommended" \in EventStatuses /\ iteration \in Nat
      BY <1>0 DEF EventStatuses, LoopTyped
    <3> QED
      BY <1>1, <2>2, <3>1, FinishIs
  <2>3. CASE Raise
    BY <1>1, <2>3, RaiseIs
  <2> QED
    BY <2>1, <2>2, <2>3 DEF Observe
<1>3. LoopTyped'
  BY <1>0, <1>1, <1>2 DEF LoopTyped, Extends, context
<1>4. ToolsFit'
  BY <1>1, <1>2, ToolsQuiet
<1>5. MessagesFit'
  BY <1>0, <1>1, <1>2, MessagesKept
<1> QED
  BY <1>2, <1>3, <1>4, <1>5 DEF LoopInv

LEMMA CallRaisesKeeps ==
  ASSUME LoopInv, NEW i \in executing, CallRaises(i)
  PROVE  LoopInv'
<1>0. LoopTyped /\ MessagesFit
  BY DEF LoopInv
<1>1. /\ executing' = executing \ {i}
      /\ UNCHANGED <<budgeted, iteration, messages, modelReply, nextCall, outcomes, callsSpent,
                     context>>
  BY DEF CallRaises
<1>2. LogFits' /\ EndFits' /\ pc' = "over" /\ Extends(runEvents', runEvents)
  <2>1. CASE ~Over
    <3>1. Raise
      BY <2>1 DEF CallRaises
    <3> QED
      BY <1>1, <2>1, <3>1, RaiseIs
  <2>2. CASE Over
    <3>1. UNCHANGED <<pc, finalResult, runEvents>>
      BY <2>2 DEF CallRaises
    <3>2. Over' /\ ~Undisturbed'
      BY <1>1, <2>2, <3>1 DEF LoopInv, EndFits, Undisturbed, Over, context
    <3>3. LogFits'
      BY <1>1, <2>2, <3>1, <3>2, LogKept
    <3>4. EndFits'
      BY <3>2 DEF EndFits
    <3> QED
      BY <1>0, <2>2, <3>1, <3>3, <3>4 DEF Extends, LoopTyped, Over
  <2> QED
    BY <2>1, <2>2
<1>3. LoopTyped'
  BY <1>0, <1>1, <1>2 DEF LoopTyped, Extends, context
<1>4. ToolsFit'
  <2>1. \A k \in executing' : Calls[k] = "read"
    BY <1>1 DEF LoopInv, ToolsFit, WritesRunAlone
  <2> QED
    BY <1>1, <1>2, <2>1, ToolsEnd
<1>5. MessagesFit'
  BY <1>0, <1>1, <1>2, MessagesKept DEF Over
<1> QED
  BY <1>2, <1>3, <1>4, <1>5 DEF LoopInv


LEMMA PairJoins ==
  ASSUME NEW S, NEW u \in Seq(S), NEW a \in S, NEW b \in S, NEW w, w = u \o <<a, b>>,
         NEW l \in Nat, l = Len(u)
  PROVE  /\ w \in Seq(S) /\ Len(w) = l + 2
         /\ \A m \in 1 .. l : w[m] = u[m]
         /\ w[l + 1] = a /\ w[l + 2] = b
<1>1. PICK v : v = <<a, b>>
  OBVIOUS
<1>2. v \in Seq(S) /\ Len(v) = 2 /\ v[1] = a /\ v[2] = b
  BY <1>1
<1>3. w = u \o v
  BY <1>1
<1>4. PICK n \in Nat : n = Len(v)
  BY <1>2
<1>5. /\ w \in Seq(S) /\ Len(w) = l + n
      /\ \A m \in 1 .. l : w[m] = u[m]
      /\ \A m \in 1 .. n : w[l + m] = v[m]
  <2>1. v \in Seq(S)
    BY <1>2
  <2> QED
    BY <1>3, <1>4, <2>1
<1>6. n = 2
  BY <1>2, <1>4
<1> QED
  BY <1>2, <1>5, <1>6

\* What is done stays done in its turn.
LEMMA DoneStays ==
  ASSUME LoopTyped, Extends(runEvents', runEvents), UNCHANGED iteration,
         NEW k, CallDone(k), k \in DOMAIN outcomes', outcomes'[k] = outcomes[k]
  PROVE  CallDone(k)'
<1>1. IsTold(runEvents', iteration, k, outcomes[k])
  BY CompletedStays DEF CallDone
<1> QED
  BY <1>1 DEF CallDone, IsTold, Completed

LEMMA AdvanceKeeps ==
  ASSUME LoopInv, Advance
  PROVE  LoopInv'
<1>0. LoopTyped /\ MessagesFit /\ ToolsFit
  BY DEF LoopInv
<1>n. PICK n \in Nat : n = Len(Calls)
  BY <1>0, CallsCounted
<1>1. /\ ~Over /\ executing = {} /\ executing' = {} /\ pc = "act"
      /\ UNCHANGED <<budgeted, modelReply, nextCall, outcomes, callsSpent, context>>
      /\ iteration' = iteration + 1 /\ iteration \in Nat /\ nextCall = n + 1
  BY <1>0, <1>n DEF Advance, ToolsFit, Over, LoopTyped
<1>t. PICK told : told = [k \in 1 .. n |-> outcomes[k]]
  OBVIOUS
<1>2. /\ told \in Seq(ToolStatuses) /\ Len(told) = n
      /\ \A k \in 1 .. n : CallDone(k) /\ told[k] = outcomes[k]
  <2>1. \A k \in 1 .. n : CallDone(k)
    BY <1>0, <1>1 DEF ToolsFit
  <2> QED
    BY <1>t, <2>1 DEF CallDone
<1>a. PICK a : a = [role |-> "assistant", content |-> modelReply]
  OBVIOUS
<1>u. PICK u : u = [role |-> "user", content |-> told]
  OBVIOUS
<1>3. a \in Spoken /\ u \in Spoken /\ a.role = "assistant" /\ u.role = "user"
  BY <1>0, <1>2, <1>a, <1>u DEF Spoken, LoopTyped
<1>4. messages' = messages \o <<a, u>>
  BY <1>n, <1>t, <1>a, <1>u DEF Advance
<1>l. PICK l \in Nat : l = Len(messages)
  BY <1>0 DEF LoopTyped
<1>m. l = 2 * iteration
  BY <1>0, <1>1, <1>l DEF MessagesFit
<1>5. /\ messages' \in Seq(Spoken) /\ Len(messages') = l + 2
      /\ \A m \in 1 .. l : messages'[m] = messages[m]
      /\ messages'[l + 1] = a /\ messages'[l + 2] = u
  BY <1>0, <1>3, <1>4, <1>l, PairJoins DEF LoopTyped
<1>6. /\ LogFits' /\ EndFits' /\ pc' \in {"observe", "over"} /\ Extends(runEvents', runEvents)
  <2>1. CASE pc' = "observe" /\ UNCHANGED <<finalResult, runEvents>>
    <3>1. ~Over' /\ (Undisturbed' <=> Undisturbed)
      BY <1>1, <2>1 DEF Over, Undisturbed, context
    <3>2. LogFits'
      BY <1>1, <2>1, <3>1, LogKept
    <3> QED
      BY <1>0, <1>1, <2>1, <3>1, <3>2 DEF LoopInv, EndFits, Extends, LoopTyped
  <2>2. CASE FinishRun("recommended", iteration', messages')
    <3>1. "recommended" \in EventStatuses /\ iteration' \in Nat
      BY <1>1 DEF EventStatuses
    <3> QED
      BY <1>1, <2>2, <3>1, FinishIs
  <2> QED
    BY <2>1, <2>2 DEF Advance
<1>7. LoopTyped'
  BY <1>0, <1>1, <1>5, <1>6 DEF LoopTyped, Extends, context
<1>8. ToolsFit'
  BY <1>1, <1>6, ToolsQuiet
<1>9. MessagesFit'
  <2>1. ASSUME NEW m \in l + 1 .. l + 2, messages'[m].role = "user"
        PROVE  /\ m > 1
               /\ Len(messages'[m].content) = Len(ToolCalls(messages'[m - 1].content))
               /\ \A i \in 1 .. Len(messages'[m].content) :
                    IsTold(runEvents', (m \div 2) - 1, i, messages'[m].content[i])
    <3>1. m = l + 2
      BY <1>3, <1>5, <2>1
    <3>2. messages'[m].content = told /\ messages'[m - 1].content = modelReply
      BY <1>5, <1>a, <1>u, <3>1
    <3>3. (m \div 2) - 1 = iteration
      BY <1>1, <1>m, <3>1
    <3>4. \A i \in 1 .. n : IsTold(runEvents', iteration, i, told[i])
      BY <1>0, <1>2, <1>6, CompletedStays DEF CallDone
    <3> QED
      BY <1>2, <1>n, <3>1, <3>2, <3>3, <3>4 DEF Calls
  <2>2. /\ \A m \in 1 .. Len(messages') : messages'[m].role = "user" => m > 1
        /\ TranscriptTrue'
    BY <1>0, <1>5, <1>6, <1>l, <2>1, TranscriptGrows
  <2>3. Len(messages') = 2 * iteration'
    BY <1>1, <1>5, <1>m
  <2> QED
    BY <2>2, <2>3 DEF MessagesFit
<1> QED
  BY <1>6, <1>7, <1>8, <1>9 DEF LoopInv

LEMMA StartBatchKeeps ==
  ASSUME LoopInv, StartBatch
  PROVE  LoopInv'
<1>0. LoopTyped /\ MessagesFit /\ ToolsFit /\ LogFits
  BY DEF LoopInv
<1>1. /\ pc = "act" /\ ~Over /\ ~Over' /\ executing = {} /\ nextCall <= Len(Calls)
      /\ executing' = Batch /\ (budgeted => callsSpent < ToolBudget)
      /\ UNCHANGED <<budgeted, pc, iteration, messages, modelReply, nextCall, outcomes, callsSpent,
                     context, finalResult>>
  BY DEF StartBatch, NoneRunning, Over
<1>2. PICK n \in Nat : /\ n >= 1 /\ Batch = nextCall .. nextCall + n - 1 /\ Cardinality(Batch) = n
  BY <1>0, BatchIs
<1>l. PICK l \in Nat, x \in Nat, t \in Nat : l = Len(runEvents) /\ x = nextCall /\ t = iteration
  BY <1>0 DEF LoopTyped
<1>f. PICK f : f = runEvents'
  OBVIOUS
<1>g. PICK g : g = [k \in 1 .. n |-> Event("tool_started", t, x + k - 1, Unset)]
  OBVIOUS
<1>3. f = runEvents \o g
  BY <1>2, <1>f, <1>g, <1>l DEF StartBatch
<1>4. \A k \in 1 .. n : g[k] = Event("tool_started", t, x + k - 1, Unset) /\ g[k] \in RunEvents
  <2>1. ASSUME NEW k \in 1 .. n
        PROVE  Event("tool_started", t, x + k - 1, Unset) \in RunEvents
    <3>1. x + k - 1 \in Nat
      BY <2>1
    <3> QED
      BY <3>1 DEF Event, RunEvents, EventTypes, EventStatuses
  <2> QED
    BY <1>g, <2>1
<1>5. g \in Seq(RunEvents) /\ Len(g) = n
  BY <1>4, <1>g
<1>6. /\ f \in Seq(RunEvents) /\ Len(f) = l + n
      /\ \A e \in 1 .. l : f[e] = runEvents[e]
      /\ \A k \in 1 .. n : f[l + k] = g[k]
  <2>1. runEvents \in Seq(RunEvents) /\ l = Len(runEvents) /\ n = Len(g)
    BY <1>0, <1>5, <1>l DEF LoopTyped
  <2>2. f \in Seq(RunEvents) /\ Len(f) = l + n
    <3>1. f \in Seq(RunEvents)
      BY <1>3, <1>5, <2>1
    <3>2. Len(f) = l + n
      <4>1. Len(runEvents \o g) = Len(runEvents) + Len(g)
        BY <1>5, <2>1
      <4> QED
        BY <1>3, <2>1, <4>1
    <3> QED
      BY <3>1, <3>2
  <2>3. \A e \in 1 .. l : f[e] = runEvents[e]
    BY <1>3, <1>5, <2>1
  <2>4. \A k \in 1 .. n : f[l + k] = g[k]
    BY <1>3, <1>5, <2>1
  <2> QED
    BY <2>2, <2>3, <2>4
<1>7. Extends(f, runEvents)
  BY <1>6, <1>l DEF Extends
<1>8. ASSUME NEW e \in l + 1 .. l + n
      PROVE  /\ e - l \in 1 .. n /\ f[e] = Event("tool_started", t, x + (e - l) - 1, Unset)
             /\ x + (e - l) - 1 \in Batch
  <2>1. PICK k \in 1 .. n : k = e - l /\ e = l + k
    OBVIOUS
  <2>2. x + k - 1 \in Batch
    BY <1>2, <1>l, <2>1
  <2> QED
    BY <1>4, <1>6, <2>1, <2>2
<1>9. \A e \in l + 1 .. l + n : /\ f[e].type = "tool_started" /\ f[e].turn = t
                                /\ f[e].call \in Batch
  <2> TAKE e \in l + 1 .. l + n
  <2>1. PICK c \in Batch : f[e] = Event("tool_started", t, c, Unset)
    BY <1>8
  <2> QED
    BY <2>1 DEF Event
<1>10. LogFits'
  <2>1. Ordered(f)
    <3>1. \A e \in l + 1 .. l + n : f[e].type # "tool_completed"
      BY <1>9
    <3> QED
      BY <1>0, <1>6, <1>7, <1>l, <3>1, OrderedGrows DEF LogFits, LoopTyped
  <2>2. Ending(f) = {}
    <3>1. Ending(f) = Ending(runEvents) \cup
            {e \in Len(runEvents) + 1 .. Len(f) : f[e].type \in Terminal}
      BY <1>0, <1>7, EndingGrows DEF LoopTyped
    <3>2. \A e \in l + 1 .. l + n : f[e].type \notin Terminal
      BY <1>9 DEF Terminal
    <3> QED
      BY <1>0, <1>1, <1>6, <1>l, <3>1, <3>2 DEF LogFits
  <2>3. ASSUME NEW i \in Batch
        PROVE  Opened(f, t, i)
    <3>1. PICK e \in l + 1 .. l + n : x + (e - l) - 1 = i
      <4>1. i \in x .. x + n - 1
        BY <1>2, <1>l
      <4>2. PICK e : e = l + (i - x) + 1
        OBVIOUS
      <4>3. e \in l + 1 .. l + n /\ x + (e - l) - 1 = i
        BY <4>1, <4>2
      <4> QED
        BY <4>3
    <3>2. e \in 1 .. Len(f)
      BY <1>6
    <3> QED
      BY <1>8, <3>1, <3>2 DEF Opened
  <2>4. ASSUME Undisturbed'
        PROVE  AllClosed(f, t, Batch)
    <3>1. AllClosed(runEvents, t, {})
      BY <1>0, <1>1, <1>l, <2>4 DEF LogFits, Undisturbed, Over, context
    <3>2. \A s \in Len(runEvents) + 1 .. Len(f) : f[s].turn = t /\ f[s].call \in Batch
      BY <1>6, <1>9, <1>l
    <3> QED
      BY <1>0, <1>7, <3>1, <3>2, ClosedGrows DEF LoopTyped
  <2> QED
    BY <1>1, <1>f, <1>l, <2>1, <2>2, <2>3, <2>4 DEF LogFits
<1>11. EndFits'
  BY <1>1 DEF LoopInv, EndFits
<1>12. LoopTyped'
  BY <1>0, <1>1, <1>6, <1>f DEF LoopTyped, context
<1>13. ToolsFit'
  <2>1. Batch' = Batch /\ Calls' = Calls
    BY <1>1 DEF Batch, Calls
  <2>2. WritesRunAlone'
    BY <1>0, <1>1, <2>1, BatchApart DEF WritesRunAlone
  <2>3. BudgetKept'
    <3>1. budgeted => Cardinality(executing') = 1
      BY <1>0, <1>1, BatchApart, FS_Singleton
    <3> QED
      BY <1>0, <1>1, <3>1, LoopLimits DEF BudgetKept, LoopTyped
  <2>4. \A k \in 1 .. nextCall - 1 : CallDone(k)'
    <3>1. \A k \in 1 .. nextCall - 1 : CallDone(k) /\ k \in DOMAIN outcomes
      BY <1>0, <1>1 DEF ToolsFit, CallDone
    <3> QED
      BY <1>0, <1>1, <1>7, <1>f, <3>1, DoneStays
  <2> QED
    BY <1>0, <1>1, <2>1, <2>2, <2>3, <2>4 DEF ToolsFit
<1>14. MessagesFit'
  BY <1>0, <1>1, <1>7, <1>f, MessagesKept
<1> QED
  BY <1>10, <1>11, <1>12, <1>13, <1>14 DEF LoopInv


LEMMA RejectCallKeeps ==
  ASSUME LoopInv, RejectCall
  PROVE  LoopInv'
<1>0. LoopTyped /\ MessagesFit /\ ToolsFit /\ LogFits
  BY DEF LoopInv
<1>n. PICK n \in Nat, x \in Nat : n = Len(Calls) /\ x = nextCall /\ x >= 1 /\ x <= n
  BY <1>0, CallsCounted DEF RejectCall, NoneRunning, LoopTyped
<1>1. /\ pc = "act" /\ ~Over /\ ~Over' /\ executing = {} /\ executing' = {}
      /\ nextCall' = x + 1 /\ outcomes' = WithOutcome(x, "rejected")
      /\ UNCHANGED <<budgeted, pc, iteration, messages, modelReply, callsSpent, context,
                     finalResult>>
  BY <1>n DEF RejectCall, NoneRunning, Over
<1>f. PICK f : f = runEvents'
  OBVIOUS
<1>p. PICK l \in Nat, t \in Nat : l = Len(runEvents) /\ t = iteration
  BY <1>0 DEF LoopTyped
<1>l. l = Len(runEvents) /\ t = iteration /\ f = runEvents'
  BY <1>f, <1>p
<1>a. PICK a : a = Event("tool_started", t, x, Unset)
  OBVIOUS
<1>b. PICK b : b = Event("tool_completed", t, x, "rejected")
  OBVIOUS
<1>2. /\ a \in RunEvents /\ a.type = "tool_started" /\ a.turn = t /\ a.call = x
      /\ b \in RunEvents /\ b.type = "tool_completed" /\ b.turn = t /\ b.call = x
  BY <1>a, <1>b DEF Event, RunEvents, EventTypes, EventStatuses, ToolStatuses
<1>3. f = runEvents \o <<a, b>>
  BY <1>n, <1>l, <1>a, <1>b DEF RejectCall
<1>4. /\ f \in Seq(RunEvents) /\ Len(f) = l + 2
      /\ \A e \in 1 .. l : f[e] = runEvents[e]
      /\ f[l + 1] = a /\ f[l + 2] = b
  BY <1>0, <1>2, <1>3, <1>l, PairJoins DEF LoopTyped
<1>5. Extends(f, runEvents)
  BY <1>4, <1>l DEF Extends
<1>6. \A e \in l + 1 .. l + 2 : e = l + 1 \/ e = l + 2
  OBVIOUS
<1>7. LogFits'
  <2>1. Ordered(f)
    <3>1. ASSUME NEW e \in l + 1 .. l + 2, f[e].type = "tool_completed"
          PROVE  \E s \in 1 .. e : f[s] = Event("tool_started", f[e].turn, f[e].call, Unset)
      <4>1. e = l + 2 /\ f[e] = b /\ l + 1 \in 1 .. e
        BY <1>2, <1>4, <1>6, <3>1
      <4>2. f[l + 1] = Event("tool_started", b.turn, b.call, Unset)
        BY <1>2, <1>4, <1>a
      <4> QED
        BY <4>1, <4>2
    <3> QED
      BY <1>0, <1>4, <1>5, <1>l, <3>1, OrderedGrows DEF LogFits, LoopTyped
  <2>2. Ending(f) = {}
    <3>1. Ending(f) = Ending(runEvents) \cup
            {e \in Len(runEvents) + 1 .. Len(f) : f[e].type \in Terminal}
      BY <1>0, <1>5, EndingGrows DEF LoopTyped
    <3>2. \A e \in l + 1 .. l + 2 : f[e].type \notin Terminal
      BY <1>2, <1>4, <1>6 DEF Terminal
    <3> QED
      BY <1>0, <1>1, <1>4, <1>l, <3>1, <3>2 DEF LogFits
  <2>3. ASSUME Undisturbed'
        PROVE  AllClosed(f, t, {})
    <3>1. AllClosed(runEvents, t, {})
      BY <1>0, <1>1, <1>l, <2>3 DEF LogFits, Undisturbed, Over, context
    <3>2. ASSUME NEW s \in l + 1 .. l + 2, f[s].type = "tool_started"
          PROVE  Closed(f, s)
      <4>1. f[s] = a /\ l + 2 \in s .. Len(f)
        BY <1>2, <1>4, <1>6, <3>2
      <4> QED
        BY <1>2, <1>4, <4>1 DEF Closed
    <3>3. \A s \in Len(runEvents) + 1 .. Len(f) : f[s].type = "tool_started" => Closed(f, s)
      BY <1>4, <1>l, <3>2
    <3> QED
      BY <1>0, <1>5, <3>1, <3>3, ClosedGrows DEF LoopTyped
  <2> QED
    BY <1>1, <1>l, <2>1, <2>2, <2>3 DEF LogFits
<1>8. EndFits'
  BY <1>1 DEF LoopInv, EndFits
<1>9. LoopTyped'
  BY <1>0, <1>1, <1>4, <1>l, <1>n DEF LoopTyped, context
<1>10. ToolsFit'
  <2>1. Calls' = Calls
    BY <1>1 DEF Calls
  <2>2. WritesRunAlone' /\ BudgetKept'
    BY <1>0, <1>1 DEF WritesRunAlone, BudgetKept, ToolsFit
  <2>3. ASSUME NEW k \in 1 .. x
        PROVE  CallDone(k)'
    <3>1. CASE k = x
      <4>1. k \in DOMAIN outcomes' /\ outcomes'[k] = "rejected"
        BY <1>1, <3>1 DEF WithOutcome
      <4>2. IsTold(f, t, k, "rejected")
        <5>1. l + 2 \in 1 .. Len(f)
          BY <1>4
        <5> QED
          BY <1>4, <1>b, <3>1, <5>1 DEF IsTold
      <4> QED
        BY <1>1, <1>l, <4>1, <4>2 DEF CallDone, Completed, IsTold, ToolStatuses
    <3>2. CASE k # x
      <4>1. k \in 1 .. x - 1
        BY <3>2
      <4>2. CallDone(k)
        BY <1>0, <1>1, <1>n, <4>1 DEF ToolsFit
      <4>3. k \in DOMAIN outcomes' /\ outcomes'[k] = outcomes[k]
        BY <1>1, <3>2, <4>2 DEF WithOutcome, CallDone
      <4> QED
        BY <1>0, <1>1, <1>5, <1>l, <4>2, <4>3, DoneStays
    <3> QED
      BY <3>1, <3>2
  <2>4. nextCall' <= Len(Calls') + 1 /\ nextCall' - 1 = x
    BY <1>1, <1>n, <2>1
  <2> QED
    BY <1>1, <2>2, <2>3, <2>4 DEF ToolsFit
<1>11. MessagesFit'
  BY <1>0, <1>1, <1>5, <1>l, MessagesKept
<1> QED
  BY <1>7, <1>8, <1>9, <1>10, <1>11 DEF LoopInv

LEMMA ReturnKeeps ==
  ASSUME LoopInv, NEW i \in executing, NEW how \in {"ok", "error"}, CallReturns(i, how)
  PROVE  LoopInv'
<1>0. LoopTyped /\ MessagesFit /\ ToolsFit /\ LogFits
  BY DEF LoopInv
<1>n. PICK n \in Nat, x \in Nat :
        /\ x = nextCall /\ x >= 1 /\ n >= 1 /\ Batch = x .. x + n - 1 /\ Cardinality(Batch) = n
        /\ x + n - 1 <= Len(Calls) /\ x <= Len(Calls)
  BY <1>0, BatchIs DEF ToolsFit, LoopTyped
<1>1. /\ executing' = executing \ {i} /\ outcomes' = WithOutcome(i, how)
      /\ callsSpent' = (IF budgeted THEN callsSpent + 1 ELSE callsSpent)
      /\ nextCall' = (IF executing' = {} THEN x + n ELSE x)
      /\ (Over' <=> Over) /\ (Undisturbed' <=> Undisturbed)
      /\ UNCHANGED <<budgeted, pc, iteration, messages, modelReply, context, finalResult>>
  BY <1>n DEF CallReturns, Over, Undisturbed, context
<1>f. PICK f : f = runEvents'
  OBVIOUS
<1>p. PICK l \in Nat, t \in Nat : l = Len(runEvents) /\ t = iteration
  BY <1>0 DEF LoopTyped
<1>l. l = Len(runEvents) /\ t = iteration /\ f = runEvents'
  BY <1>f, <1>p
<1>c. PICK c : c = Event("tool_completed", t, i, how)
  OBVIOUS
<1>2. c \in RunEvents /\ c.type = "tool_completed" /\ c.turn = t /\ c.call = i
  <2>1. i \in Nat
    BY <1>0, <1>n DEF ToolsFit
  <2> QED
    BY <1>c, <2>1 DEF Event, RunEvents, EventTypes, EventStatuses, ToolStatuses
<1>3. f = Append(runEvents, c) /\ runEvents \in Seq(RunEvents)
  BY <1>0, <1>l, <1>c DEF CallReturns, Emit, LoopTyped
<1>4. Extends(f, runEvents) /\ Len(f) = l + 1 /\ f[l + 1] = c
  <2>1. Extends(f, runEvents) /\ Len(f) = Len(runEvents) + 1 /\ f[Len(f)] = c
    BY <1>2, <1>3, LogAppends
  <2> QED
    BY <1>l, <2>1
<1>5. \A e \in l + 1 .. l + 1 : e = l + 1 /\ f[e].type \notin Terminal \cup {"tool_started"}
  BY <1>2, <1>4 DEF Terminal
<1>6. LogFits'
  <2>1. Ordered(f)
    <3>1. PICK s \in 1 .. l : runEvents[s] = Event("tool_started", t, i, Unset)
      BY <1>0, <1>l DEF LogFits, Opened
    <3>2. /\ s \in 1 .. l + 1
          /\ f[s] = Event("tool_started", f[l + 1].turn, f[l + 1].call, Unset)
      BY <1>2, <1>4, <1>l, <3>1 DEF Extends
    <3> QED
      BY <1>0, <1>3, <1>4, <1>5, <1>l, <3>2, OrderedGrows DEF LogFits
  <2>2. Ending(f) = Ending(runEvents)
    <3>1. Ending(f) = Ending(runEvents) \cup
            {e \in Len(runEvents) + 1 .. Len(f) : f[e].type \in Terminal}
      BY <1>3, <1>4, EndingGrows
    <3> QED
      BY <1>4, <1>5, <1>l, <3>1
  <2>3. \A k \in executing' : Opened(f, t, k)
    BY <1>0, <1>1, <1>3, <1>4, <1>l, LogGrows DEF LogFits
  <2>4. ASSUME Undisturbed
        PROVE  AllClosed(f, t, executing')
    <3>1. AllClosed(runEvents, t, executing)
      BY <1>0, <1>l, <2>4 DEF LogFits
    <3>2. \A s \in Len(runEvents) + 1 .. Len(f) : f[s].type # "tool_started"
      BY <1>4, <1>5, <1>l
    <3>3. \A call \in executing \ executing' :
            \E e \in Len(runEvents) + 1 .. Len(f) :
              f[e].type = "tool_completed" /\ f[e].turn = t /\ f[e].call = call
      <4>1. l + 1 \in Len(runEvents) + 1 .. Len(f)
        BY <1>4, <1>l
      <4> QED
        BY <1>1, <1>2, <1>4, <4>1
    <3>4. PICK left : left = executing'
      OBVIOUS
    <3>5. \A call \in executing \ left :
            \E e \in Len(runEvents) + 1 .. Len(f) :
              f[e].type = "tool_completed" /\ f[e].turn = t /\ f[e].call = call
      BY <3>3, <3>4
    <3>6. runEvents \in Seq(RunEvents) /\ Extends(f, runEvents)
      BY <1>3, <1>4
    <3>7. AllClosed(f, t, left)
      BY <3>1, <3>2, <3>5, <3>6, ClosedInTurn
    <3> QED
      BY <3>4, <3>7
  <2>5. /\ Over' => \E e \in 1 .. Len(f) : Ending(f) = {e}
        /\ ~Over' => Ending(f) = {}
    <3>1. \A e \in 1 .. l : e \in 1 .. Len(f)
      BY <1>4
    <3> QED
      BY <1>0, <1>1, <1>l, <2>2, <3>1 DEF LogFits
  <2> QED
    BY <1>1, <1>l, <2>1, <2>3, <2>4, <2>5 DEF LogFits
<1>7. EndFits'
  <2>1. ~(Over /\ Undisturbed)
    BY DEF LoopInv, EndFits
  <2> QED
    BY <1>1, <2>1 DEF LoopInv, EndFits
<1>8. LoopTyped'
  <2>1. nextCall' \in Nat /\ nextCall' >= 1 /\ callsSpent' \in Nat
    BY <1>0, <1>1, <1>n DEF LoopTyped
  <2> QED
    BY <1>0, <1>1, <1>4, <1>l, <2>1 DEF LoopTyped, context, Extends
<1>9. ToolsFit'
  <2>1. Calls' = Calls /\ (executing' # {} => nextCall' = nextCall /\ Batch' = Batch)
    BY <1>1, <1>n DEF Batch, Calls
  <2>2. WritesRunAlone'
    BY <1>0, <1>1, <2>1 DEF ToolsFit, WritesRunAlone
  <2>3. BudgetKept'
    <3>1. ASSUME budgeted
          PROVE  callsSpent' + Cardinality(executing') <= ToolBudget
      <4>1. executing = {nextCall} /\ executing' = {}
        BY <1>0, <1>1, <3>1, ExecutingCounted
      <4>2. Cardinality(executing) = 1 /\ Cardinality(executing') = 0
        BY <4>1, FS_Singleton, FS_EmptySet
      <4>3. callsSpent + Cardinality(executing) <= ToolBudget
        BY <1>0, <3>1 DEF ToolsFit, BudgetKept
      <4> QED
        BY <1>0, <1>1, <3>1, <4>2, <4>3, LoopLimits DEF LoopTyped
    <3> QED
      BY <1>1, <3>1 DEF BudgetKept
  <2>4. ASSUME pc = "act", NEW k, CallDone(k) \/ k = i
        PROVE  CallDone(k)'
    <3>1. CASE k = i
      <4>1. k \in DOMAIN outcomes' /\ outcomes'[k] = how
        BY <1>1, <3>1 DEF WithOutcome
      <4>2. IsTold(f, t, k, how)
        <5>1. l + 1 \in 1 .. Len(f)
          BY <1>4
        <5> QED
          BY <1>4, <1>c, <3>1, <5>1 DEF IsTold
      <4> QED
        BY <1>1, <1>l, <4>1, <4>2 DEF CallDone, Completed, IsTold, ToolStatuses
    <3>2. CASE k # i
      <4>1. k \in DOMAIN outcomes' /\ outcomes'[k] = outcomes[k] /\ CallDone(k)
        BY <1>1, <2>4, <3>2 DEF WithOutcome, CallDone
      <4> QED
        BY <1>0, <1>1, <1>4, <1>l, <4>1, DoneStays
    <3> QED
      BY <3>1, <3>2
  <2>5. ASSUME pc = "act"
        PROVE  /\ nextCall' <= Len(Calls') + 1
               /\ \A k \in 1 .. nextCall' - 1 : CallDone(k)'
               /\ executing' # {} => \A k \in Batch \ executing' : CallDone(k)'
    <3>1. /\ \A k \in 1 .. x - 1 : CallDone(k)'
          /\ \A k \in Batch \ executing : CallDone(k)'
          /\ CallDone(i)'
      BY <1>0, <1>n, <2>4, <2>5 DEF ToolsFit
    <3>2. \A k \in Batch \ executing' : CallDone(k)'
      BY <1>1, <3>1
    <3>3. PICK m \in Nat : m = Len(Calls)
      BY <1>0, CallsCounted
    <3>4. nextCall' <= Len(Calls') + 1
      BY <1>1, <1>n, <2>1, <3>3
    <3>5. \A k \in 1 .. nextCall' - 1 : CallDone(k)'
      <4>1. CASE executing' = {}
        <5>1. \A k \in 1 .. x + n - 1 : k \in 1 .. x - 1 \/ k \in Batch \ executing'
          BY <1>n, <4>1
        <5>2. nextCall' - 1 = x + n - 1
          BY <1>1, <4>1
        <5> QED
          BY <3>1, <3>2, <5>1, <5>2
      <4>2. CASE executing' # {}
        BY <1>1, <3>1, <4>2
      <4> QED
        BY <4>1, <4>2
    <3> QED
      BY <3>2, <3>4, <3>5
  <2>6. pc' \in {"act", "over"}
    BY <1>0, <1>1 DEF ToolsFit
  <2> QED
    BY <1>0, <1>1, <1>n, <2>1, <2>2, <2>3, <2>5, <2>6 DEF ToolsFit
<1>10. MessagesFit'
  BY <1>0, <1>1, <1>4, <1>l, MessagesKept
<1> QED
  BY <1>6, <1>7, <1>8, <1>9, <1>10 DEF LoopInv

LEMMA LoopSteps == LoopInv /\ [LoopNext]_loopVars => LoopInv'
<1> SUFFICES ASSUME LoopInv, [LoopNext]_loopVars
             PROVE  LoopInv'
  OBVIOUS
<1>1. CASE CancelLoop \/ DeadlinePasses
  BY <1>1, ContextKeeps
<1>2. CASE StopRun
  BY <1>2, StopRunKeeps
<1>3. CASE Reason
  BY <1>3, ReasonKeeps
<1>4. CASE ModelRaises
  BY <1>4, RaiseKeeps
<1>5. ASSUME NEW r \in Replies, ModelCallsTools(r)
      PROVE  LoopInv'
  BY <1>5, ModelAsksKeeps
<1>6. ASSUME NEW r \in Replies, NEW says, ModelAnswers(r, says)
      PROVE  LoopInv'
  BY <1>6, AnswerKeeps
<1>7. CASE StartBatch
  BY <1>7, StartBatchKeeps
<1>8. CASE RejectCall
  BY <1>8, RejectCallKeeps
<1>9. ASSUME NEW i \in executing, CallRaises(i)
      PROVE  LoopInv'
  BY <1>9, CallRaisesKeeps
<1>10. ASSUME NEW i \in executing, NEW how \in {"ok", "error"}, CallReturns(i, how)
       PROVE  LoopInv'
  BY <1>10, ReturnKeeps
<1>11. CASE Advance
  BY <1>11, AdvanceKeeps
<1>12. CASE Observe
  BY <1>12, ObserveKeeps
<1>13. CASE UNCHANGED loopVars
  BY <1>13 DEF LoopInv, LoopTyped, LogFits, EndFits, ToolsFit, MessagesFit, Undisturbed, Over,
               CallDone, Completed, WritesRunAlone, BudgetKept, TranscriptTrue, Batch, Calls,
               loopVars, loop, context
<1> QED
  BY <1>1, <1>2, <1>3, <1>4, <1>5, <1>6, <1>7, <1>8, <1>9, <1>10, <1>11, <1>12, <1>13
     DEF LoopNext

\* What the log fits is what a consumer reads off it.
LEMMA StreamFollows == LoopInv => StreamTrue
<1> SUFFICES ASSUME LoopInv
             PROVE  StreamTrue
  OBVIOUS
<1>1. LogFits /\ EndFits
  BY DEF LoopInv
<1>2. Over <=> Ending(runEvents) # {}
  BY <1>1 DEF LogFits
<1>3. \A e, f \in Ending(runEvents) : e = f
  BY <1>1 DEF LogFits
<1>4. Ordered(runEvents)
  BY <1>1 DEF LogFits
<1>5. ASSUME Over, finalResult # Unset, ~cancelled, ~deadlinePassed,
             NEW s \in 1 .. Len(runEvents), runEvents[s].type = "tool_started"
      PROVE  Closed(runEvents, s)
  <2>1. Undisturbed /\ executing = {}
    BY <1>1, <1>5 DEF EndFits, Undisturbed
  <2> QED
    BY <1>1, <1>5, <2>1 DEF LogFits, AllClosed
<1> QED
  BY <1>2, <1>3, <1>4, <1>5 DEF StreamTrue, Ending, Ordered, Closed

\* Whatever a model asks for and whatever raises, is cancelled or passes its
\* deadline: a call that may change something runs by itself, a budget holds,
\* the model and the consumer are told of the same calls with the same
\* outcomes, and a run ends once (react.py _run_loop, agent.py stream).
THEOREM LoopIsSound == LoopSpec => []LoopSound
<1>1. LoopInv => LoopSound
  BY StreamFollows DEF LoopInv, ToolsFit, MessagesFit, LoopSound
<1> QED
  BY LoopBegins, LoopSteps, <1>1, PTL DEF LoopSpec
=============================================================================
