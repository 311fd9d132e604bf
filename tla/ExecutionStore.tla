--------------------------- MODULE ExecutionStore ---------------------------
(***************************************************************************)
(* The durable control store of LIPAS (lipas/execution.py): Tasks, Runs,   *)
(* fenced leases, versioned checkpoints, approval/input Interrupts,        *)
(* cancellation and the transactional audit outbox.                        *)
(*                                                                         *)
(* Every method of ExecutionStore that changes state runs its body in one  *)
(* BEGIN IMMEDIATE transaction, so one action here is one committed        *)
(* transaction; a call that raises rolls back and is a disabled action.    *)
(* Nothing is assumed of the callers: any lease token ever issued, any     *)
(* expected version and any interrupt id may be presented at any time, by  *)
(* a live worker, by a worker that stalled past its lease, or by a         *)
(* duplicated call.                                                        *)
(***************************************************************************)
EXTENDS Integers, Sequences, FiniteSets

CONSTANTS
  Tasks, Runs, Interrupts,  \* ids the callers may use
  Operators,                \* human operators calling reopen_uncertain
  Evidence,                 \* observations an operator may attach to a reopen
  UncertainErrors,          \* errors with recovery_required = True
  OtherErrors,              \* every other error payload
  NoTask, NoRun, NoError, NoCall,
  LeaseSeconds,             \* lease_seconds of claim_run and renew_lease
  MaxLag,                   \* longest wait for the writer lock (busy_timeout)
  MaxNow, MaxAttempt, MaxVersion   \* bounds of the clock and the counters

ASSUME StoreAssumption ==
  /\ NoTask \notin Tasks
  /\ NoRun \notin Runs
  /\ NoError \notin UncertainErrors \cup OtherErrors
  /\ NoCall \notin [run : Runs, attempt : Nat]
  /\ UncertainErrors \cap OtherErrors = {}
  /\ LeaseSeconds \in Nat \ {0}
  /\ {MaxLag, MaxNow, MaxAttempt, MaxVersion} \subseteq Nat

VARIABLES
  now,             \* the wall clock
  taskState,       \* execution_tasks.state, "none" before the insert
  taskOf,          \* execution_runs.task_id
  state,           \* execution_runs.state, "none" before the insert
  attempt,         \* execution_runs.attempt
  version,         \* execution_runs.checkpoint_version
  lease,           \* execution_runs.lease_token (see Token below), 0 for NULL
  expires,         \* execution_runs.lease_expires, 0 for NULL
  cancelRequested, \* execution_runs.cancel_requested
  error,           \* execution_runs.error_json
  checkpoints,     \* the versions in execution_checkpoints, per run
  intState,        \* execution_interrupts.state, "none" before the insert
  intRun,          \* execution_interrupts.run_id
  audit,           \* execution_audit_events: pairs <<identity, fields>>
  reopening,       \* what each operator's reopen_uncertain read before BEGIN
  writers          \* history: the tokens under which fenced writes committed

taskVars == <<taskState, taskOf>>
leaseVars == <<attempt, lease, expires>>
intVars == <<intState, intRun>>
vars == <<now, taskVars, state, version, leaseVars, cancelRequested, error,
          checkpoints, intVars, audit, reopening, writers>>

TaskStates == {"none", "open", "completed", "cancelled"}
RunStates == {"none", "pending", "running", "waiting",
              "completed", "failed", "cancelled"}
Active == {"pending", "running", "waiting"}
Terminal == {"completed", "failed", "cancelled"}
Errors == UncertainErrors \cup OtherErrors

(***************************************************************************)
(* claim_run draws a fresh token for every claim and adds one to attempt   *)
(* in the same UPDATE, so a run's tokens are numbered by its attempts.     *)
(***************************************************************************)
Token == 1 .. MaxAttempt

(***************************************************************************)
(* A method samples time.time() before BEGIN IMMEDIATE and may then wait   *)
(* for the writer lock: the timestamp its transaction uses is up to MaxLag *)
(* old when the transaction commits.                                       *)
(***************************************************************************)
Stamp == {s \in 0 .. now : now - s <= MaxLag}

-----------------------------------------------------------------------------
(* The audit outbox.  An event whose identity is already recorded with the *)
(* same fields is skipped; with other fields it raises, and the whole      *)
(* transaction is rolled back.                                             *)

Agrees(events) ==
  \A e \in events : \A a \in audit : a[1] = e[1] => a[2] = e[2]

Record(events) ==
  /\ Agrees(events)
  /\ audit' = audit \cup events

\* A terminal event carries the checkpoint version (and the error, if any);
\* its identity names only the run and the terminal state.
RunStateEvent(r, s, e) == <<<<"run state", r, s>>, <<version[r], e>>>>
TaskStateEvent(t, s) == <<<<"task state", t, s>>, t>>
CancelEvent(r) == <<<<"cancel requested", r>>, taskOf[r]>>
CheckpointEvent(r, v) == <<<<"checkpoint", r, v>>, r>>
ResolvedEvent(i, s) == <<<<"interrupt resolved", i>>, s>>

\* The unique index idx_execution_one_active_run counts these.
ActiveRuns(t) == {r \in Runs : taskOf[r] = t /\ state[r] \in Active}
PendingInterrupts(r) ==
  {i \in Interrupts : intRun[i] = r /\ intState[i] = "pending"}

\* Mutant: the lease is checked by its expiry alone.
HoldsLease_AnyToken(r, token, s) ==
  /\ state[r] = "running"
  /\ token <= attempt[r]
  /\ expires[r] > s

\* _require_lease: the token is current and the lease unexpired at time s.
HoldsLease(r, token, s) ==
  /\ state[r] = "running"
  /\ lease[r] = token
  /\ expires[r] > s

DropLease(r) ==
  /\ lease' = [lease EXCEPT ![r] = 0]
  /\ expires' = [expires EXCEPT ![r] = 0]
  /\ UNCHANGED attempt

-----------------------------------------------------------------------------
Init ==
  /\ now = 0
  /\ taskState = [t \in Tasks |-> "none"]
  /\ taskOf = [r \in Runs |-> NoTask]
  /\ state = [r \in Runs |-> "none"]
  /\ attempt = [r \in Runs |-> 0]
  /\ version = [r \in Runs |-> 0]
  /\ lease = [r \in Runs |-> 0]
  /\ expires = [r \in Runs |-> 0]
  /\ cancelRequested = [r \in Runs |-> FALSE]
  /\ error = [r \in Runs |-> NoError]
  /\ checkpoints = [r \in Runs |-> {}]
  /\ intState = [i \in Interrupts |-> "none"]
  /\ intRun = [i \in Interrupts |-> NoRun]
  /\ audit = {}
  /\ reopening = [o \in Operators |-> NoCall]
  /\ writers = [r \in Runs |-> <<>>]

-----------------------------------------------------------------------------
(* Tasks and runs *)

CreateTask(t) ==
  /\ taskState[t] = "none"
  /\ taskState' = [taskState EXCEPT ![t] = "open"]
  /\ Record({<<<<"task created", t>>, t>>})
  /\ UNCHANGED <<now, taskOf, state, version, leaseVars, cancelRequested,
                 error, checkpoints, intVars, reopening, writers>>

\* The task is checked again inside the transaction; a second active run of
\* the task breaks the partial unique index.
Admissible(t) ==
  /\ taskState[t] = "open"
  /\ ActiveRuns(t) = {}

CreateRun(r, t) ==
  /\ Admissible(t)
  /\ state[r] = "none"
  /\ taskOf' = [taskOf EXCEPT ![r] = t]
  /\ state' = [state EXCEPT ![r] = "pending"]
  /\ Record({<<<<"run created", r>>, t>>})
  /\ UNCHANGED <<now, taskState, version, leaseVars, cancelRequested, error,
                 checkpoints, intVars, reopening, writers>>

\* Mutant: the expiry comparison is the wrong way round.
Claimable_LiveLease(r, s) ==
  \/ state[r] = "pending" /\ ~cancelRequested[r]
  \/ state[r] = "running" /\ expires[r] >= s

\* The conditional UPDATE of claim_run.  An expired lease is claimable even
\* when cancellation was requested: the new owner settles the cancellation.
Claimable(r, s) ==
  \/ state[r] = "pending" /\ ~cancelRequested[r]
  \/ state[r] = "running" /\ expires[r] <= s

ClaimRun(r, s) ==
  /\ Claimable(r, s)
  /\ attempt[r] < MaxAttempt
  /\ state' = [state EXCEPT ![r] = "running"]
  /\ attempt' = [attempt EXCEPT ![r] = @ + 1]
  /\ lease' = [lease EXCEPT ![r] = attempt[r] + 1]
  /\ expires' = [expires EXCEPT ![r] = s + LeaseSeconds]
  /\ Record({<<<<"run claimed", r, attempt[r] + 1>>, r>>})
  /\ UNCHANGED <<now, taskVars, version, cancelRequested, error, checkpoints,
                 intVars, reopening, writers>>

\* The lease-renewed event has the new expiry in its identity and can conflict
\* with no other; the identity kept here leaves the expiry out.
RenewLease(r, token, s) ==
  /\ HoldsLease(r, token, s)
  /\ expires' = [expires EXCEPT ![r] = s + LeaseSeconds]
  /\ Record({<<<<"lease renewed", r, attempt[r]>>, r>>})
  /\ UNCHANGED <<now, taskVars, state, version, attempt, lease,
                 cancelRequested, error, checkpoints, intVars, reopening,
                 writers>>

-----------------------------------------------------------------------------
(* Checkpoints and interrupts *)

\* Compare-and-swap of the version under the lease, and the INSERT whose
\* primary key is (run, version).
Advance(r, token, expected, s) ==
  /\ HoldsLease(r, token, s)
  /\ version[r] = expected
  /\ expected < MaxVersion
  /\ expected + 1 \notin checkpoints[r]
  /\ version' = [version EXCEPT ![r] = expected + 1]
  /\ checkpoints' = [checkpoints EXCEPT ![r] = @ \cup {expected + 1}]
  /\ writers' = [writers EXCEPT ![r] = Append(@, token)]

SaveCheckpoint(r, token, expected, s) ==
  /\ Advance(r, token, expected, s)
  /\ Record({CheckpointEvent(r, expected + 1)})
  /\ UNCHANGED <<now, taskVars, state, leaseVars, cancelRequested, error,
                 intVars, reopening>>

\* suspend does not look at cancel_requested.
Suspend(r, token, expected, i, s) ==
  /\ Advance(r, token, expected, s)
  /\ intState[i] = "none"
  /\ PendingInterrupts(r) = {}
  /\ intState' = [intState EXCEPT ![i] = "pending"]
  /\ intRun' = [intRun EXCEPT ![i] = r]
  /\ state' = [state EXCEPT ![r] = "waiting"]
  /\ DropLease(r)
  /\ Record({CheckpointEvent(r, expected + 1),
             <<<<"interrupt requested", i>>, r>>})
  /\ UNCHANGED <<now, taskVars, cancelRequested, error, reopening>>

\* A denial cancels the run and leaves its task open.
ResolvedRunState(target) ==
  IF target = "allowed" THEN "pending" ELSE "cancelled"

ResolveInterrupt(i, allow) ==
  LET r == intRun[i]
      target == IF allow THEN "allowed" ELSE "denied"
  IN
  /\ intState[i] = "pending"
  /\ state[r] = "waiting"
  /\ intState' = [intState EXCEPT ![i] = target]
  /\ state' = [state EXCEPT ![r] = ResolvedRunState(target)]
  /\ Record({ResolvedEvent(i, target)} \cup
            IF allow THEN {} ELSE {RunStateEvent(r, "cancelled", NoError)})
  /\ UNCHANGED <<now, taskVars, version, leaseVars, cancelRequested, error,
                 checkpoints, intRun, reopening, writers>>

-----------------------------------------------------------------------------
(* Terminal transitions *)

\* What complete_run, fail_run and finish_cancelled share: the fenced UPDATE
\* that settles the run and gives the lease up.
Settle(r, token, s, target) ==
  /\ HoldsLease(r, token, s)
  /\ state' = [state EXCEPT ![r] = target]
  /\ DropLease(r)
  /\ writers' = [writers EXCEPT ![r] = Append(@, token)]

\* A run with a pending cancellation request cannot complete.
Completable(r) == ~cancelRequested[r]

\* The task-completed event is recorded even when the task is not open.
CompleteRun(r, token, s) ==
  LET t == taskOf[r] IN
  /\ Settle(r, token, s, "completed")
  /\ Completable(r)
  /\ taskState' = IF taskState[t] = "open"
                  THEN [taskState EXCEPT ![t] = "completed"] ELSE taskState
  /\ Record({RunStateEvent(r, "completed", NoError),
             TaskStateEvent(t, "completed")})
  /\ UNCHANGED <<now, taskOf, version, cancelRequested, error, checkpoints,
                 intVars, reopening>>

FailRun(r, token, e, s) ==
  /\ Settle(r, token, s, "failed")
  /\ error' = [error EXCEPT ![r] = e]
  /\ Record({RunStateEvent(r, "failed", e)})
  /\ UNCHANGED <<now, taskVars, version, cancelRequested, checkpoints,
                 intVars, reopening>>

FinishCancelled(r, token, s) ==
  /\ Settle(r, token, s, "cancelled")
  /\ cancelRequested[r]
  /\ Record({RunStateEvent(r, "cancelled", NoError)})
  /\ UNCHANGED <<now, taskVars, version, cancelRequested, error, checkpoints,
                 intVars, reopening>>

\* reopen_uncertain reads the run before it opens its transaction ...
ReopenRead(o, r) ==
  /\ reopening[o] = NoCall
  /\ state[r] = "failed"
  /\ error[r] \in UncertainErrors
  /\ reopening' = [reopening EXCEPT ![o] = [run |-> r, attempt |-> attempt[r]]]
  /\ UNCHANGED <<now, taskVars, state, version, leaseVars, cancelRequested,
                 error, checkpoints, intVars, audit, writers>>

\* ... and its UPDATE checks again only that the run is failed: not the
\* error, and not the attempt, which it takes from the earlier read.
ReopenCommit(o, evidence) ==
  LET r == reopening[o].run
      t == taskOf[r]
  IN
  /\ reopening[o] # NoCall
  /\ state[r] = "failed"
  /\ ActiveRuns(t) = {}
  /\ state' = [state EXCEPT ![r] = "pending"]
  /\ error' = [error EXCEPT ![r] = NoError]
  /\ cancelRequested' = [cancelRequested EXCEPT ![r] = FALSE]
  /\ taskState' = IF taskState[t] = "completed"
                  THEN [taskState EXCEPT ![t] = "open"] ELSE taskState
  /\ Record({<<<<"run reopened", r, reopening[o].attempt>>, evidence>>})
  /\ reopening' = [reopening EXCEPT ![o] = NoCall]
  /\ UNCHANGED <<now, taskOf, version, leaseVars, checkpoints, intVars,
                 writers>>

\* The call raised, or its process died.
ReopenAbort(o) ==
  /\ reopening[o] # NoCall
  /\ reopening' = [reopening EXCEPT ![o] = NoCall]
  /\ UNCHANGED <<now, taskVars, state, version, leaseVars, cancelRequested,
                 error, checkpoints, intVars, audit, writers>>

-----------------------------------------------------------------------------
(* Cancellation *)

\* Mutant: the pending interrupt of a waiting run is left as it is.
DenyPending_Forgotten(r) == UNCHANGED intState

DenyPending(r) ==
  LET denied == PendingInterrupts(r) IN
  intState' = [i \in Interrupts |->
                 IF state[r] = "waiting" /\ i \in denied
                 THEN "denied" ELSE intState[i]]

\* A running run is only marked; an unowned one is cancelled at once, and a
\* waiting one has its pending interrupt denied.
CancelActive(r) ==
  /\ cancelRequested' = [cancelRequested EXCEPT ![r] = TRUE]
  /\ \/ /\ state[r] = "running"
        /\ UNCHANGED <<state, leaseVars, intState>>
     \/ /\ state[r] \in {"pending", "waiting"}
        /\ state' = [state EXCEPT ![r] = "cancelled"]
        /\ DropLease(r)
        /\ DenyPending(r)

\* Mutant: the denial of the interrupt is not put in the outbox.
CancelActiveEvents_NoDenial(r) ==
  {CancelEvent(r)} \cup
  (IF state[r] = "running" THEN {}
   ELSE {RunStateEvent(r, "cancelled", NoError)})

CancelActiveEvents(r) ==
  {CancelEvent(r)} \cup
  (IF state[r] = "running" THEN {}
   ELSE {RunStateEvent(r, "cancelled", NoError)} \cup
        {ResolvedEvent(i, "denied") : i \in PendingInterrupts(r)})

RequestCancel(r) ==
  /\ state[r] \in Active
  /\ CancelActive(r)
  /\ Record(CancelActiveEvents(r))
  /\ UNCHANGED <<now, taskVars, version, error, checkpoints, intRun,
                 reopening, writers>>

CancelTask(t) ==
  /\ taskState[t] = "open"
  /\ taskState' = [taskState EXCEPT ![t] = "cancelled"]
  /\ \/ /\ ActiveRuns(t) = {}
        /\ Record({TaskStateEvent(t, "cancelled")})
        /\ UNCHANGED <<state, leaseVars, cancelRequested, intState>>
     \/ \E r \in ActiveRuns(t) :
          /\ CancelActive(r)
          /\ Record(CancelActiveEvents(r) \cup
                    {TaskStateEvent(t, "cancelled")})
  /\ UNCHANGED <<now, taskOf, version, error, checkpoints, intRun, reopening,
                 writers>>

-----------------------------------------------------------------------------
Tick ==
  /\ now < MaxNow
  /\ now' = now + 1
  /\ UNCHANGED <<taskVars, state, version, leaseVars, cancelRequested, error,
                 checkpoints, intVars, audit, reopening, writers>>

\* A call by a worker that presents a token.
WorkerCall(r, token, s) ==
  \/ RenewLease(r, token, s)
  \/ \E v \in 0 .. MaxVersion : SaveCheckpoint(r, token, v, s)
  \/ \E v \in 0 .. MaxVersion, i \in Interrupts : Suspend(r, token, v, i, s)
  \/ CompleteRun(r, token, s)
  \/ \E e \in Errors : FailRun(r, token, e, s)
  \/ FinishCancelled(r, token, s)

Next ==
  \/ Tick
  \/ \E t \in Tasks : CreateTask(t) \/ CancelTask(t)
  \/ \E r \in Runs, t \in Tasks : CreateRun(r, t)
  \/ \E r \in Runs, s \in Stamp : ClaimRun(r, s)
  \/ \E r \in Runs, token \in Token, s \in Stamp : WorkerCall(r, token, s)
  \/ \E i \in Interrupts, allow \in BOOLEAN : ResolveInterrupt(i, allow)
  \/ \E o \in Operators, r \in Runs : ReopenRead(o, r)
  \/ \E o \in Operators, ev \in Evidence : ReopenCommit(o, ev)
  \/ \E o \in Operators : ReopenAbort(o)
  \/ \E r \in Runs : RequestCancel(r)

Spec == Init /\ [][Next]_vars

-----------------------------------------------------------------------------
(* Properties *)

\* Every column holds a value of its type.
TypeOK ==
  /\ now \in Nat
  /\ taskState \in [Tasks -> TaskStates]
  /\ taskOf \in [Runs -> Tasks \cup {NoTask}]
  /\ state \in [Runs -> RunStates]
  /\ attempt \in [Runs -> 0 .. MaxAttempt]
  /\ version \in [Runs -> 0 .. MaxVersion]
  /\ lease \in [Runs -> 0 .. MaxAttempt]
  /\ expires \in [Runs -> Nat]
  /\ cancelRequested \in [Runs -> BOOLEAN]
  /\ error \in [Runs -> Errors \cup {NoError}]
  /\ checkpoints \in [Runs -> SUBSET (1 .. MaxVersion)]
  /\ intState \in [Interrupts -> {"none", "pending", "allowed", "denied"}]
  /\ intRun \in [Interrupts -> Runs \cup {NoRun}]
  /\ reopening \in [Operators ->
                       {NoCall} \cup [run : Runs, attempt : 0 .. MaxAttempt]]
  /\ writers \in [Runs -> Seq(Token)]

\* A run holds a lease exactly while it is running, and the lease is always
\* the one of its latest claim: no transition (suspension, settlement,
\* cancellation, reopening) leaves a token a former owner could still use.
LeaseIffRunning ==
  \A r \in Runs :
    IF state[r] = "running"
    THEN lease[r] = attempt[r] /\ attempt[r] > 0 /\ expires[r] > 0
    ELSE lease[r] = 0 /\ expires[r] = 0

\* A waiting run has exactly one interrupt to answer, and every unanswered
\* interrupt belongs to a waiting run: no answer is lost and no run waits for
\* an answer nobody is asked for, however cancellation and answers race.
WaitingIffPendingInterrupt ==
  \A r \in Runs :
    IF state[r] = "waiting"
    THEN \E i \in Interrupts : PendingInterrupts(r) = {i}
    ELSE PendingInterrupts(r) = {}

\* A task never has two active runs, whatever creations and reopenings do.
OneActiveRun ==
  \A t \in Tasks : \A r, q \in ActiveRuns(t) : r = q

\* Fencing: once a later owner has claimed a run, no write of an earlier one
\* (a stalled worker that wakes up) is ever committed again.
FencedWrites ==
  \A r \in Runs :
    /\ \A j \in 1 .. Len(writers[r]) : writers[r][j] <= attempt[r]
    /\ \A j, k \in 1 .. Len(writers[r]) : j < k => writers[r][j] <= writers[r][k]

\* The run's checkpoint_version names its newest checkpoint and none is
\* missing below it: a resumed run finds the checkpoint it is told to load.
CheckpointsContiguous ==
  \A r \in Runs : checkpoints[r] = 1 .. version[r]

\* The control rows of tasks, runs, leases, interrupts and checkpoints fit
\* together after every method, in whatever order workers, operators and the
\* clock interleave, and no superseded worker has written any of them.
ControlCoherent ==
  /\ TypeOK /\ LeaseIffRunning /\ WaitingIffPendingInterrupt
  /\ OneActiveRun /\ FencedWrites /\ CheckpointsContiguous

\* The events that the tables still tell of, by identity: what the migration of a
\* database from before the outbox records.  Of a run's claims they tell the last.
Reconstructed ==
  UNION { {<<"run state", r, state[r]>> : r \in {q \in Runs : state[q] \in Terminal}},
          {<<"cancel requested", r>> : r \in {q \in Runs : cancelRequested[q]}},
          {<<"run claimed", r, attempt[r]>> : r \in {q \in Runs : attempt[q] > 0}},
          UNION {{<<"checkpoint", r, v>> : v \in checkpoints[r]} : r \in Runs},
          {<<"interrupt resolved", i>> :
             i \in {j \in Interrupts : intState[j] \notin {"none", "pending"}}},
          {<<"task state", t, taskState[t]>> :
             t \in {u \in Tasks : taskState[u] \in {"completed", "cancelled"}}} }

\* The outbox explains every state an observer can see in the tables, whichever
\* of the methods brought it about: no less than a migration would make of
\* them, and every claim of a run and which way each interrupt was resolved.
AuditTracksState ==
  LET recorded == {a[1] : a \in audit} IN
  /\ Reconstructed \subseteq recorded
  /\ \A r \in Runs : \A n \in 1 .. attempt[r] : <<"run claimed", r, n>> \in recorded
  /\ \A i \in Interrupts :
       intState[i] \in {"allowed", "denied"} => ResolvedEvent(i, intState[i]) \in audit

\* A cancellation request is never dropped on the floor: it is withdrawn only
\* by an operator's reopening, and a requested run never becomes completed.
CancelWins ==
  [][\A r \in Runs : cancelRequested[r] =>
       /\ state'[r] = "completed" => state[r] = "completed"
       /\ ~cancelRequested'[r] => state[r] = "failed" /\ state'[r] = "pending"]_vars

\* A settled run stays settled: completed and cancelled are final, and only the
\* reopening by an operator who has seen it failed takes a failed run on, with
\* its error cleared.
SettledForGood ==
  [][\A r \in Runs : state[r] \in Terminal =>
       \/ state'[r] = state[r]
       \/ /\ state[r] = "failed" /\ state'[r] = "pending" /\ error'[r] = NoError
          /\ \E o \in Operators : reopening[o] # NoCall /\ reopening[o].run = r]_vars

\* A lease is only taken over after it has run out, although a claimer may
\* compare a stale clock with it.
LiveLeaseKept ==
  [][\A r \in Runs :
       state[r] = "running" /\ attempt'[r] # attempt[r] => expires[r] <= now]_vars

\* No step of anybody undoes what was decided: a cancellation, a settlement or
\* the lease of a worker in time.
DecisionsKept == CancelWins /\ SettledForGood /\ LiveLeaseKept

\* The store is a fenced log: a run's attempt is its epoch, its lease its
\* owner, and the fenced writes are its log.
Fence == INSTANCE FencedLog
           WITH Objects <- Runs, epoch <- attempt, owner <- lease, log <- writers

\* Every method of the store is a step of the fenced log or leaves it alone:
\* a lease is given up only by its owner's own write or lost to a newer claim.
ImplementsFencedLog == Fence!Spec

-----------------------------------------------------------------------------
(* What the documentation says and the code does not keep *)

\* docs/execution-model.md: a phase timeout persists recovery_required.  So a
\* running run can always record an uncertain failure.
UncertainFailureRecordable ==
  \A r \in Runs : state[r] = "running" =>
    \A e \in UncertainErrors : Agrees({RunStateEvent(r, "failed", e)})
=============================================================================
