----------------------------- MODULE Dispatcher -----------------------------
(***************************************************************************)
(* TaskDispatcher (lipas/dispatcher.py): processes that discover claimable *)
(* runs of one execution store and hand them to an executor, a bounded     *)
(* number at a time, continuously (serve) or until nothing is left         *)
(* (run_until_idle).  There is no second queue: what a dispatcher knows is *)
(* lost when it stops, and a run it held is found again when the lease     *)
(* expires.                                                                *)
(*                                                                         *)
(* The rows of the store are reduced to what discovery reads; ExecutionStore *)
(* has the transactions in full.  Runs are numbered in the order of their  *)
(* creation.                                                               *)
(***************************************************************************)
EXTENDS Naturals, FiniteSets

CONSTANTS
  Dispatchers,
  RunCount,        \* runs 1 .. RunCount, oldest first
  MaxConcurrency,  \* max_concurrency
  Nobody,
  MaxFaults        \* stops, executor errors and stalls, at most

VARIABLES
  state,      \* execution_runs.state
  cancel,     \* execution_runs.cancel_requested
  owner,      \* the dispatcher whose claim holds the lease
  expired,    \* the lease has run out
  mode,       \* "off", "serve" or "idle" (run_until_idle)
  job,        \* the asyncio task a dispatcher has for a run
  delayed,    \* the runs whose _retry_after lies in the future
  attempted,  \* run_until_idle's runs of this invocation
  faults

store == <<state, cancel, owner, expired>>
memory == <<mode, job, delayed, attempted>>
vars == <<store, memory, faults>>

Runs == 1 .. RunCount
Terminal == {"completed", "failed", "cancelled"}

Init ==
  /\ state = [r \in Runs |-> "none"]
  /\ cancel = [r \in Runs |-> FALSE]
  /\ owner = [r \in Runs |-> Nobody]
  /\ expired = [r \in Runs |-> FALSE]
  /\ mode = [d \in Dispatchers |-> "off"]
  /\ job = [d \in Dispatchers |-> [r \in Runs |-> "none"]]
  /\ delayed = [d \in Dispatchers |-> {}]
  /\ attempted = [d \in Dispatchers |-> {}]
  /\ faults = 0

-----------------------------------------------------------------------------
(* The store *)

\* Mutant: discovery leaves out every run that is to be cancelled.
Claimable_NotCancelled(r) ==
  /\ ~cancel[r]
  /\ \/ state[r] = "pending"
     \/ state[r] = "running" /\ expired[r]

\* list_claimable_runs: an expired lease is found even when its run is to be
\* cancelled, for somebody has to settle the cancellation.
Claimable(r) ==
  \/ state[r] = "pending" /\ ~cancel[r]
  \/ state[r] = "running" /\ expired[r]

SetRun(r, s, o) ==
  /\ state' = [state EXCEPT ![r] = s]
  /\ owner' = [owner EXCEPT ![r] = o]
  /\ expired' = [expired EXCEPT ![r] = FALSE]

Submit(r) ==
  /\ state[r] = "none"
  /\ \A q \in 1 .. r - 1 : state[q] # "none"
  /\ state' = [state EXCEPT ![r] = "pending"]
  /\ UNCHANGED <<cancel, owner, expired, memory, faults>>

RequestCancel(r) ==
  /\ state[r] \in {"pending", "running", "waiting"}
  /\ cancel' = [cancel EXCEPT ![r] = TRUE]
  /\ IF state[r] = "running" THEN UNCHANGED <<state, owner, expired>>
     ELSE SetRun(r, "cancelled", Nobody)
  /\ UNCHANGED <<memory, faults>>

Answer(r) ==
  /\ state[r] = "waiting"
  /\ SetRun(r, "pending", Nobody)
  /\ UNCHANGED <<cancel, memory, faults>>

Executing(r) == \E d \in Dispatchers : owner[r] = d /\ job[d][r] = "executing"

\* An executor renews its lease; one that is gone, or stalls, does not.
Expire(r) ==
  /\ state[r] = "running" /\ ~expired[r]
  /\ \/ /\ ~Executing(r)
        /\ UNCHANGED faults
     \/ /\ Executing(r)
        /\ faults < MaxFaults
        /\ faults' = faults + 1
  /\ expired' = [expired EXCEPT ![r] = TRUE]
  /\ UNCHANGED <<state, cancel, owner, memory>>

-----------------------------------------------------------------------------
(* One dispatcher *)

JobsOf(d) == {r \in Runs : job[d][r] # "none"}
Done(d) == {r \in Runs : job[d][r] \in {"worker_error", "returned"}}

\* The oldest n of a set of runs.
Oldest(S, n) == {r \in S : Cardinality({q \in S : q < r}) < n}

\* _fill_slots: what may take a free slot.
Candidates(d, active, late) ==
  {r \in Runs : Claimable(r) /\ r \notin active /\ r \notin late}

StartServing(d) ==
  /\ mode[d] = "off"
  /\ mode' = [mode EXCEPT ![d] = "serve"]
  /\ UNCHANGED <<store, job, delayed, attempted, faults>>

\* One round of serve up to _wait_for_progress: finished tasks are reaped, a
\* worker error delays the next try of its run, and free slots are filled.
Round(d) ==
  LET active == JobsOf(d) \ Done(d)
      errors == {r \in Runs : job[d][r] = "worker_error"}
      late == (delayed[d] \ Done(d)) \cup errors
      picked == Oldest(Candidates(d, active, late),
                       MaxConcurrency - Cardinality(active))
  IN
  /\ mode[d] = "serve"
  /\ Done(d) \cup picked # {}
  /\ delayed' = [delayed EXCEPT ![d] = late]
  /\ job' = [job EXCEPT ![d] = [r \in Runs |->
               IF r \in picked THEN "created"
               ELSE IF r \in active THEN @[r] ELSE "none"]]
  /\ UNCHANGED <<store, mode, attempted, faults>>

DelayPasses(d, r) ==
  /\ r \in delayed[d]
  /\ delayed' = [delayed EXCEPT ![d] = @ \ {r}]
  /\ UNCHANGED <<store, mode, job, attempted, faults>>

StartUntilIdle(d) ==
  /\ mode[d] = "off"
  /\ mode' = [mode EXCEPT ![d] = "idle"]
  /\ attempted' = [attempted EXCEPT ![d] = {}]
  /\ UNCHANGED <<store, job, delayed, faults>>

\* run_until_idle: when the whole batch has returned, the next one, of runs
\* this invocation has not tried; without any it returns.
Batch(d) ==
  LET candidates == {r \in Runs : Claimable(r)} \ attempted[d]
      batch == Oldest(candidates, MaxConcurrency)
  IN
  /\ mode[d] = "idle"
  /\ JobsOf(d) = Done(d)
  /\ mode' = IF batch = {} THEN [mode EXCEPT ![d] = "off"] ELSE mode
  /\ attempted' = [attempted EXCEPT ![d] = @ \cup batch]
  /\ job' = [job EXCEPT ![d] = [r \in Runs |->
               IF r \in batch THEN "created" ELSE "none"]]
  /\ UNCHANGED <<store, delayed, faults>>

\* _execute up to the executor: the conditional claim, lost to another
\* dispatcher or won; a run that is to be cancelled is settled at once.
Execute(d, r) ==
  /\ job[d][r] = "created"
  /\ IF ~Claimable(r)
     THEN job' = [job EXCEPT ![d][r] = "returned"] /\ UNCHANGED store
     ELSE /\ SetRun(r, IF cancel[r] THEN "cancelled" ELSE "running",
                       IF cancel[r] THEN Nobody ELSE d)
          /\ job' = [job EXCEPT ![d][r] = IF cancel[r] THEN "returned" ELSE "executing"]
          /\ UNCHANGED cancel
  /\ UNCHANGED <<mode, delayed, attempted, faults>>

\* The executor returns: it settled the run or suspended it for an approval,
\* under its lease.  A run that is to be cancelled is not completed.
Return(d, r) ==
  /\ job[d][r] = "executing"
  /\ owner[r] = d /\ ~expired[r]
  /\ \E s \in {"completed", "failed", "waiting", "cancelled"} :
       /\ s = "completed" => ~cancel[r]
       /\ s = "cancelled" => cancel[r]
       /\ s = "waiting" => faults < MaxFaults
       /\ faults' = IF s = "waiting" THEN faults + 1 ELSE faults
       /\ SetRun(r, s, Nobody)
  /\ job' = [job EXCEPT ![d][r] = "returned"]
  /\ UNCHANGED <<cancel, mode, delayed, attempted>>

\* The executor raises, the run stays running: always when the lease is lost.
Raise(d, r) ==
  /\ job[d][r] = "executing"
  /\ IF owner[r] # d \/ expired[r] THEN UNCHANGED faults
     ELSE faults < MaxFaults /\ faults' = faults + 1
  /\ job' = [job EXCEPT ![d][r] = "worker_error"]
  /\ UNCHANGED <<store, mode, delayed, attempted>>

\* stop is set, or the process dies: the executors are cancelled and the runs
\* stay under their leases.
Stop(d) ==
  /\ mode[d] # "off"
  /\ faults < MaxFaults
  /\ faults' = faults + 1
  /\ mode' = [mode EXCEPT ![d] = "off"]
  /\ job' = [job EXCEPT ![d] = [r \in Runs |-> "none"]]
  /\ delayed' = [delayed EXCEPT ![d] = {}]
  /\ attempted' = [attempted EXCEPT ![d] = {}]
  /\ UNCHANGED store

Dispatch(d) ==
  \/ StartServing(d) \/ StartUntilIdle(d)
  \/ Round(d) \/ Batch(d)
  \/ \E r \in Runs : DelayPasses(d, r) \/ Execute(d, r) \/ Return(d, r) \/ Raise(d, r)
  \/ Stop(d)

Next ==
  \/ \E r \in Runs : Submit(r) \/ RequestCancel(r) \/ Answer(r) \/ Expire(r)
  \/ \E d \in Dispatchers : Dispatch(d)

(***************************************************************************)
(* The event loop runs ready tasks and the poll interval wakes serve; time *)
(* passes for delays and for leases nobody renews; an executor returns or  *)
(* raises; approvals are answered.  A process that is off is started again *)
(* to serve.                                                               *)
(***************************************************************************)
Fairness ==
  /\ \A r \in Runs :
       WF_vars(Expire(r) /\ ~Executing(r)) /\ WF_vars(Answer(r))
  /\ \A d \in Dispatchers :
       /\ WF_vars(Round(d)) /\ WF_vars(Batch(d))
       /\ SF_vars(StartServing(d))
       /\ \A r \in Runs :
            /\ WF_vars(DelayPasses(d, r)) /\ WF_vars(Execute(d, r))
            /\ WF_vars(Return(d, r) \/ Raise(d, r))

Spec == Init /\ [][Next]_vars /\ Fairness

-----------------------------------------------------------------------------
(* Properties *)

\* Every run that is submitted is settled, although dispatchers stop, leases
\* are lost, executors raise, runs wait for answers and older runs fail again
\* and again: none is stranded under a dead lease, and a cancellation that
\* nobody is left to settle is settled by whoever finds the run.  A run that
\* was suspended after its cancellation was requested is left out: see below.
EveryRunSettles ==
  \A r \in Runs :
    state[r] = "pending" ~> \/ state[r] \in Terminal
                            \/ state[r] = "pending" /\ cancel[r]

=============================================================================
