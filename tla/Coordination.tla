---------------------------- MODULE Coordination ----------------------------
(***************************************************************************)
(* AgentCoordinator (lipas/coordination.py): callers compose handoffs to   *)
(* registered members by a strategy.  Every handoff is one deterministic   *)
(* task and run of the execution store; a caller keeps only the outcomes   *)
(* it has been given so far, and loses them when its process ends.  A      *)
(* second call with the same coordination id finds the same runs.          *)
(*                                                                         *)
(* A task and its run are one row here.  ExecutionStore has the store's    *)
(* transactions in full and DurableRun the work of a durable member.       *)
(***************************************************************************)
EXTENDS Naturals, Sequences, FiniteSets

CONSTANTS
  Callers,         \* coordinator calls, each in a process of its own
  Strategies,      \* the strategies to compose by
  Inputs, Results, \* what a caller passes in, what a member may answer
  Plain, Durable,  \* members: without redelivery, SQLite-backed agents
  Chain,           \* the recipients, in order
  Limit,           \* handoffs the shared budget admits
  MaxConcurrency, MaxHops, MaxAttempts, MaxCalls,
  MaxFaults,       \* crashes, stalls, stops, cancellations, member errors
  Nothing

ASSUME StrategiesKnown ==
  Strategies \subseteq {"sequential", "round_robin", "parallel", "map_reduce",
                        "select", "swarm", "external"}
ASSUME RequestsExist == Nothing \notin Inputs
ASSUME BudgetIsNumber == Limit \in Nat
ASSUME ChainIsSequence == Chain \in Seq(Plain \cup Durable)

VARIABLES
  strategy,
  row,      \* a task and its run, by handoff id
  admitted, \* the budget's admissions
  spent,    \* and what they add up to
  calls,    \* strategy calls made
  faults,
  caller,   \* [status, input, stopped] of each caller
  out,      \* the outcomes a caller has, by sequence number
  bad,      \* the sequence numbers that raised
  branch    \* the dispatches a caller is in, by handoff id

store == <<row, admitted, spent>>
teamVars == <<strategy, store, calls, faults, caller, out, bad, branch>>

Members == Plain \cup Durable
\* Naming a member is a selection, or a transfer; elsewhere it is a value.
Values == Results \cup (IF strategy \in {"select", "swarm"} THEN Members ELSE {})
Live(id) == row[id].state = "running" /\ ~row[id].expired
Unsettled == {"pending", "running", "waiting"}

TeamInit ==
  /\ strategy \in Strategies
  /\ row = <<>> /\ admitted = {} /\ spent = 0 /\ calls = 0 /\ faults = 0
  /\ caller = [c \in Callers |->
                [status |-> "off", input |-> Nothing, stopped |-> FALSE]]
  /\ out = [c \in Callers |-> <<>>]
  /\ bad = [c \in Callers |-> {}]
  /\ branch = [c \in Callers |-> <<>>]

-----------------------------------------------------------------------------
(* Envelopes and strategies.  The id of a handoff is a digest of its       *)
(* sequence number, its sender, its recipient and its parent, and says     *)
(* nothing of the payload.                                                 *)

Envelope(n, sender, recipient, parent, payload) ==
  [id |-> [sequence |-> n, sender |-> sender, recipient |-> recipient,
           parent |-> parent],
   payload |-> payload]

First(c) == Envelope(0, "user", Chain[1], Nothing, caller[c].input)

\* The handoff after outcome n - 1 of caller c.
After(c, n, recipient, payload) ==
  Envelope(n, out[c][n].id.recipient, recipient, out[c][n].id, payload)

Branches(c) == {Envelope(i - 1, "user", Chain[i], Nothing, caller[c].input)
                  : i \in DOMAIN Chain}

Rounds == IF strategy = "round_robin" THEN Chain \o Chain ELSE Chain

\* out[c] is a sequence: outcome k has sequence number k - 1.  Branches that
\* answer out of order leave a Nothing behind.
AnsweredBy(c) == {k \in DOMAIN out[c] : out[c][k] # Nothing}
Last(c) == out[c][Len(out[c])].value

\* The envelope, or the envelopes, a strategy dispatches next.
Offered(c) ==
  LET n == Len(out[c]) IN
  CASE strategy \in {"sequential", "round_robin"} ->
         IF bad[c] # {} \/ n = Len(Rounds) THEN {}
         ELSE IF n = 0 THEN {First(c)}
         ELSE {After(c, n, Rounds[n + 1], Last(c))}
    [] strategy \in {"parallel", "map_reduce"} ->
         IF Cardinality(AnsweredBy(c)) = Len(Chain) /\ strategy = "map_reduce"
         THEN {Envelope(Len(Chain), "coordinator", Chain[1], Nothing,
                        [k \in 1 .. Len(Chain) |-> out[c][k].value])}
         ELSE {e \in Branches(c) : e.id.sequence + 1 \notin AnsweredBy(c)}
    [] strategy = "select" ->
         IF n = 0 /\ bad[c] = {} THEN {First(c)}
         ELSE IF n = 1 /\ bad[c] = {} /\ Last(c) \in Members
         THEN {After(c, 1, Last(c), caller[c].input)} ELSE {}
    [] strategy = "swarm" ->
         IF n = 0 /\ bad[c] = {} THEN {First(c)}
         ELSE IF bad[c] = {} /\ n < MaxHops /\ Last(c) \in Members
         THEN {After(c, n, Last(c), Last(c))} ELSE {}
    [] strategy = "external" ->
         IF n = 0 THEN {First(c)} ELSE {}

Wanted(c) == {e \in Offered(c) : e.id.sequence \notin bad[c]}

\* What is left when nothing is to be dispatched: a result, or CoordinationFailed.
Succeeded(c) ==
  /\ bad[c] = {}
  /\ strategy = "select" => Len(out[c]) = 2
  /\ strategy = "swarm" => Last(c) \notin Members

-----------------------------------------------------------------------------
(* Calls *)

Fault == faults < MaxFaults /\ faults' = faults + 1

Call(c, input) ==
  /\ caller[c].status # "active" /\ calls < MaxCalls
  /\ calls' = calls + 1
  /\ caller' = [caller EXCEPT ![c] =
                 [status |-> "active", input |-> input, stopped |-> FALSE]]
  /\ out' = [out EXCEPT ![c] = <<>>]
  /\ bad' = [bad EXCEPT ![c] = {}]
  /\ UNCHANGED <<strategy, store, faults, branch>>

\* The parent context is cancelled, or its deadline passes.
StopParent(c) ==
  /\ caller[c].status = "active" /\ ~caller[c].stopped
  /\ caller' = [caller EXCEPT ![c].stopped = TRUE]
  /\ Fault /\ UNCHANGED <<strategy, store, calls, out, bad, branch>>

Return(c) ==
  /\ caller[c].status = "active" /\ branch[c] = <<>>
  /\ Wanted(c) = {} \/ caller[c].stopped
  /\ caller' = [caller EXCEPT ![c].status =
                 IF Wanted(c) = {} /\ Succeeded(c) THEN "done" ELSE "failed"]
  /\ UNCHANGED <<strategy, store, calls, faults, out, bad, branch>>

Crash(c) ==
  /\ caller[c].status = "active"
  /\ caller' = [caller EXCEPT ![c].status = "off"]
  /\ branch' = [branch EXCEPT ![c] = <<>>]
  /\ out' = [out EXCEPT ![c] = <<>>]
  /\ bad' = [bad EXCEPT ![c] = {}]
  /\ Fault /\ UNCHANGED <<strategy, store, calls>>

-----------------------------------------------------------------------------
(* One dispatch *)

At(c, id, stage) == id \in DOMAIN branch[c] /\ branch[c][id].at = stage
With(f, x, v) == [y \in DOMAIN f \cup {x} |-> IF y = x THEN v ELSE f[y]]
Without(f, x) == [y \in DOMAIN f \ {x} |-> f[y]]

Goto(c, id, stage) ==
  /\ branch' = [branch EXCEPT ![c][id].at = stage]
  /\ UNCHANGED <<out, bad>>

\* The dispatch raises.
Raise(c, id) ==
  /\ branch' = [branch EXCEPT ![c] = Without(@, id)]
  /\ bad' = [bad EXCEPT ![c] = @ \cup {id.sequence}]
  /\ UNCHANGED out

Padded(s, n) == [k \in 1 .. IF Len(s) < n THEN n ELSE Len(s) |->
                  IF k \in DOMAIN s THEN s[k] ELSE Nothing]

\* The dispatch returns value.
Give(c, id, value) ==
  /\ branch' = [branch EXCEPT ![c] = Without(@, id)]
  /\ out' = [out EXCEPT ![c] =
              [Padded(@, id.sequence + 1) EXCEPT ![id.sequence + 1] =
                [id |-> id, payload |-> branch[c][id].payload,
                 value |-> value]]]
  /\ UNCHANGED bad

KeepStore == UNCHANGED store
KeepCaller == UNCHANGED <<strategy, calls, caller>>
KeepCalls == KeepCaller /\ UNCHANGED faults
KeepBudget == UNCHANGED <<admitted, spent>>

Dispatch(c) ==
  /\ caller[c].status = "active" /\ ~caller[c].stopped
  /\ Cardinality(DOMAIN branch[c]) <
       IF strategy \in {"parallel", "map_reduce"} THEN MaxConcurrency ELSE 1
  /\ \E e \in Wanted(c) :
       /\ e.id \notin DOMAIN branch[c]
       /\ branch' = [branch EXCEPT ![c] = With(@, e.id,
            [at |-> IF strategy = "external" THEN "task" ELSE "preflight",
             payload |-> e.payload, token |-> 0, value |-> Nothing,
             signal |-> "none", seen |-> Nothing])]
  /\ KeepStore /\ KeepCalls /\ UNCHANGED <<out, bad>>

\* The goal of a task holds a digest of the request, payload included.
SameRequest(c, id) == row[id].payload = branch[c][id].payload

Preflight(c, id) ==
  /\ At(c, id, "preflight")
  /\ IF id \in DOMAIN row /\ ~SameRequest(c, id) THEN Raise(c, id)
     ELSE Goto(c, id, "reserve")
  /\ KeepStore /\ KeepCalls

\* One transaction: a handoff is admitted once, and never refunded.
Admit(id) ==
  /\ admitted' = admitted \cup {id}
  /\ spent' = spent + (IF id \in admitted THEN 0 ELSE 1)

Reserve(c, id) ==
  /\ At(c, id, "reserve")
  /\ IF id \in admitted \/ spent + 1 <= Limit
     THEN Admit(id) /\ Goto(c, id, "task")
     ELSE KeepBudget /\ Raise(c, id)
  /\ UNCHANGED row /\ KeepCalls

NewRow(payload) ==
  [payload |-> payload, state |-> "none", attempt |-> 0, expired |-> FALSE,
   cancel |-> FALSE, result |-> Nothing, events |-> {}, calls |-> {},
   cancelledAt |-> 0]

\* Mutant: the durable goal is not compared with this request.
CreateHandoffTask_AnyRequest(c, id) ==
  /\ At(c, id, "task")
  /\ row' = IF id \in DOMAIN row THEN row
            ELSE With(row, id, NewRow(branch[c][id].payload))
  /\ Goto(c, id, "run")
  /\ KeepBudget /\ KeepCalls

\* create_task with a derived id: whoever comes second reads the first's row.
\* The goal of an external task is the caller's, whatever its payload.
CreateHandoffTask(c, id) ==
  /\ At(c, id, "task")
  /\ row' = IF id \in DOMAIN row THEN row
            ELSE With(row, id, NewRow(IF strategy = "external" THEN Nothing
                                     ELSE branch[c][id].payload))
  /\ IF id \in DOMAIN row /\ ~SameRequest(c, id) /\ strategy # "external"
     THEN Raise(c, id) ELSE Goto(c, id, "run")
  /\ KeepBudget /\ KeepCalls

\* The run is created if need be, and the copy that was read decides later.
CreateHandoffRun(c, id) ==
  LET created == [row[id] EXCEPT !.state = IF @ = "none" THEN "pending" ELSE @]
  IN
  /\ At(c, id, "run")
  /\ row' = [row EXCEPT ![id] = created]
  /\ branch' = [branch EXCEPT ![c][id].seen = created,
                  ![c][id].at = IF strategy = "external" THEN "request"
                                ELSE "inspect"]
  /\ KeepBudget /\ KeepCalls /\ UNCHANGED <<out, bad>>

AddEvent(id, kind) == row' = [row EXCEPT ![id].events = @ \cup {kind}]

\* execute_external: the started event fixes the request of this identity.
FixRequest(c, id) ==
  /\ At(c, id, "request")
  /\ IF row[id].payload \in {Nothing, branch[c][id].payload}
     THEN /\ row' = [row EXCEPT ![id].payload = branch[c][id].payload,
                                ![id].events = @ \cup {"started"}]
          /\ Goto(c, id, "inspect")
     ELSE UNCHANGED row /\ Raise(c, id)
  /\ KeepBudget /\ KeepCalls

\* An expired invocation is taken over to finish a cancellation, or because
\* the member's own journal makes that safe.
Redeliverable(id, seen) ==
  \/ seen.cancel
  \/ id.recipient \in Durable

MayClaim(seen, id) ==
  \/ seen.state = "pending"
  \/ /\ seen.state = "running"
     /\ strategy = "external" \/ (seen.expired /\ Redeliverable(id, seen))

\* A completed run answers with its stored result, which names its request.
Replayable(c, id, seen) ==
  seen.state = "completed" /\
    (id.recipient \in Durable \/ strategy = "external"
       \/ seen.result.request = branch[c][id].payload)

Inspect(c, id) ==
  LET seen == branch[c][id].seen IN
  /\ At(c, id, "inspect")
  /\ \/ /\ Replayable(c, id, seen)
        /\ AddEvent(id, "completed")
        /\ Give(c, id, seen.result.value)
     \/ /\ MayClaim(seen, id)
        /\ Goto(c, id, "claim") /\ UNCHANGED row
     \/ /\ ~Replayable(c, id, seen) /\ ~MayClaim(seen, id)
        /\ IF seen.state = "cancelled" /\ strategy # "external"
           THEN AddEvent(id, "cancelled") ELSE UNCHANGED row
        /\ Raise(c, id)
  /\ KeepBudget /\ KeepCalls

\* execute_external alone does not look at the flag.
AfterClaim(id) ==
  IF row[id].cancel /\ strategy # "external" THEN "stop" ELSE "start"

\* The conditional UPDATE of claim_run, on the row as it is now.
Claim(c, id) ==
  LET free == \/ row[id].state = "pending" /\ ~row[id].cancel
              \/ row[id].state = "running" /\ row[id].expired
  IN
  /\ At(c, id, "claim")
  /\ IF free
     THEN /\ row[id].attempt < MaxAttempts
          /\ row' = [row EXCEPT ![id].state = "running",
                       ![id].attempt = @ + 1, ![id].expired = FALSE]
          /\ branch' = [branch EXCEPT ![c][id].token = row[id].attempt + 1,
               ![c][id].at = AfterClaim(id)]
          /\ UNCHANGED <<out, bad>>
     ELSE UNCHANGED row /\ Raise(c, id)
  /\ KeepBudget /\ KeepCalls

Start(c, id) ==
  /\ At(c, id, "start")
  /\ row' = [row EXCEPT ![id].events = @ \cup {"started"},
               ![id].calls = @ \cup {branch[c][id].token}]
  /\ Goto(c, id, "working")
  /\ KeepBudget /\ KeepCalls

\* _require_lease: token current, lease not run out.
HoldsHandoff(c, id) == Live(id) /\ row[id].attempt = branch[c][id].token

\* A heartbeat fails for want of the lease, or sees a request to cancel.
Heartbeat(c, id) ==
  /\ At(c, id, "working") /\ branch[c][id].signal = "none"
  /\ \/ ~HoldsHandoff(c, id) /\ branch' = [branch EXCEPT ![c][id].signal = "lost"]
     \/ /\ HoldsHandoff(c, id) /\ row[id].cancel
        /\ branch' = [branch EXCEPT ![c][id].signal = "cancel"]
  /\ KeepStore /\ KeepCalls /\ UNCHANGED <<out, bad>>

Interrupted(c, id) == caller[c].stopped \/ branch[c][id].signal # "none"

\* A lost lease is no reason to cancel the handoff: another may hold it.
Interrupt(c, id) ==
  /\ At(c, id, "working") /\ Interrupted(c, id)
  /\ IF branch[c][id].signal = "lost" THEN Raise(c, id) ELSE Goto(c, id, "stop")
  /\ KeepStore /\ KeepCalls

MemberAnswers(c, id, value) ==
  /\ At(c, id, "working") /\ ~Interrupted(c, id)
  /\ branch' = [branch EXCEPT ![c][id].at = "settle", ![c][id].value = value]
  /\ KeepStore /\ KeepCalls /\ UNCHANGED <<out, bad>>

MemberRaises(c, id) ==
  /\ At(c, id, "working")
  /\ Goto(c, id, "fail") /\ Fault /\ KeepStore /\ KeepCaller

\* A durable agent suspends: the lease is given up and RunSuspended raised.
MemberSuspends(c, id) ==
  /\ At(c, id, "working")
  /\ id.recipient \in Durable /\ strategy # "external"
  /\ HoldsHandoff(c, id)
  /\ row' = [row EXCEPT ![id].state = "waiting"]
  /\ Raise(c, id)
  /\ KeepBudget /\ KeepCalls

\* complete_run: without the lease this is nobody's result; with a request to
\* cancel, the caller turns to the cancellation.
CompleteHandoff(c, id) ==
  /\ At(c, id, "settle")
  /\ \/ /\ HoldsHandoff(c, id) /\ ~row[id].cancel
        /\ row' = [row EXCEPT ![id].state = "completed", ![id].result =
                    [request |-> branch[c][id].payload,
                     value |-> branch[c][id].value]]
        /\ Goto(c, id, "completed")
     \/ /\ HoldsHandoff(c, id) /\ row[id].cancel
        /\ Goto(c, id, IF strategy = "external" THEN "fail" ELSE "stop")
        /\ UNCHANGED row
     \/ /\ ~HoldsHandoff(c, id)
        /\ Raise(c, id) /\ UNCHANGED row
  /\ KeepBudget /\ KeepCalls

\* _fail_claimed, fenced; a lost lease is passed over in silence.
FailHandoff(c, id) ==
  /\ At(c, id, "fail")
  /\ IF HoldsHandoff(c, id)
     THEN row' = [row EXCEPT ![id].state = "failed"] /\ Goto(c, id, "failed")
     ELSE UNCHANGED row /\ Raise(c, id)
  /\ KeepBudget /\ KeepCalls

\* request_cancel: not fenced, and it cancels a run that nobody runs.
Requested(r) ==
  IF r.state \notin Unsettled THEN r
  ELSE [r EXCEPT !.state = IF @ = "running" THEN @ ELSE "cancelled",
                 !.cancel = TRUE,
                 !.cancelledAt = IF r.cancel THEN @ ELSE r.attempt]

\* _finish_cancelled: first the request, ...
Stop(c, id) ==
  /\ At(c, id, "stop")
  /\ row' = [row EXCEPT ![id] = Requested(@)]
  /\ CASE row[id].state = "running" -> Goto(c, id, "finish")
       [] row[id].state \in {"pending", "waiting", "cancelled"} ->
            Goto(c, id, "cancelled")
       [] OTHER -> Raise(c, id)
  /\ KeepBudget /\ KeepCalls

\* ... then the fenced settlement.
Finish(c, id) ==
  /\ At(c, id, "finish")
  /\ IF HoldsHandoff(c, id) /\ row[id].cancel
     THEN row' = [row EXCEPT ![id].state = "cancelled"]
          /\ Goto(c, id, "cancelled")
     ELSE UNCHANGED row /\ Raise(c, id)
  /\ KeepBudget /\ KeepCalls

\* The event of the settled state; a completed handoff is returned after it.
PublishHandoff(c, id) ==
  \E kind \in {"completed", "failed", "cancelled"} :
    /\ At(c, id, kind)
    /\ AddEvent(id, kind)
    /\ IF kind = "completed" THEN Give(c, id, branch[c][id].value)
       ELSE Raise(c, id)
    /\ KeepBudget /\ KeepCalls

-----------------------------------------------------------------------------
(* The surroundings *)

Expire(id) ==
  /\ Live(id)
  /\ row' = [row EXCEPT ![id].expired = TRUE]
  /\ Fault /\ KeepBudget /\ KeepCaller /\ UNCHANGED <<out, bad, branch>>

CancelHandoff(id) ==
  /\ row[id].state \in Unsettled /\ ~row[id].cancel
  /\ row' = [row EXCEPT ![id] = Requested(@)]
  /\ Fault /\ KeepBudget /\ KeepCaller /\ UNCHANGED <<out, bad, branch>>

\* An interrupt is allowed, or denied.
Resolve(id, allow) ==
  /\ row[id].state = "waiting"
  /\ row' = [row EXCEPT ![id].state = IF allow THEN "pending" ELSE "cancelled"]
  /\ KeepBudget /\ KeepCalls /\ UNCHANGED <<out, bad, branch>>

DispatchStep(c, id) ==
  \/ Preflight(c, id) \/ Reserve(c, id) \/ CreateHandoffTask(c, id)
  \/ CreateHandoffRun(c, id) \/ FixRequest(c, id) \/ Inspect(c, id)
  \/ Claim(c, id) \/ Start(c, id) \/ Heartbeat(c, id) \/ Interrupt(c, id)
  \/ \E v \in Values : MemberAnswers(c, id, v)
  \/ MemberRaises(c, id) \/ MemberSuspends(c, id)
  \/ CompleteHandoff(c, id) \/ FailHandoff(c, id) \/ Stop(c, id) \/ Finish(c, id)
  \/ PublishHandoff(c, id)

TeamNext ==
  \/ \E c \in Callers :
       \/ \E i \in Inputs : Call(c, i)
       \/ StopParent(c) \/ Return(c) \/ Crash(c) \/ Dispatch(c)
       \/ \E id \in DOMAIN branch[c] : DispatchStep(c, id)
  \/ \E id \in DOMAIN row :
       \/ Expire(id) \/ CancelHandoff(id)
       \/ \E allow \in BOOLEAN : Resolve(id, allow)

TeamSpec == TeamInit /\ [][TeamNext]_teamVars

-----------------------------------------------------------------------------
(* Properties *)

Given(c) == {out[c][k] : k \in AnsweredBy(c)}

\* What a caller was given is what the run recorded, for the request the
\* caller made, and its event is on record.
OutcomesRecorded ==
  \A c \in Callers : \A o \in Given(c) :
    LET r == row[o.id] IN
    /\ r.state = "completed"
    /\ r.payload = o.payload
    /\ r.result = [request |-> o.payload, value |-> o.value]
    /\ "completed" \in r.events

\* A step of a chain was asked what the step before it had answered.
ChainFollowsRecord ==
  strategy \in {"sequential", "round_robin", "swarm"} =>
    \A id \in DOMAIN row : id.parent # Nothing =>
      /\ row[id.parent].state = "completed"
      /\ row[id].payload = row[id.parent].result.value

\* Whatever callers race, crash and start again with other inputs, the
\* outcomes they hold are those of the store: _claim_handoff's goal check,
\* the fence of complete_run and the fingerprint of the stored result.
AgreedOutcomes == OutcomesRecorded /\ ChainFollowsRecord

\* Every handoff a member was called for has its one admission in the shared
\* budget, retries and races of callers included, and the budget holds.
BudgetCoversWork ==
  /\ spent = Cardinality(admitted) /\ spent <= Limit
  /\ strategy # "external" =>
       \A id \in DOMAIN row : row[id].calls # {} => id \in admitted

SettledOnly ==
  \A id \in DOMAIN row : row[id].cancel =>
    \A a \in row[id].calls : a <= row[id].cancelledAt

\* No attempt later than the one a cancellation was requested in calls the
\* member of a handoff: _claim_handoff takes an expired lease over only to
\* settle the cancellation.
CancelledNotCalledAgain == strategy # "external" => SettledOnly

\* The outcomes are agreed, and a member works only for an admitted handoff that
\* nobody has cancelled.
TeamSound == AgreedOutcomes /\ BudgetCoversWork /\ CancelledNotCalledAgain

=============================================================================
