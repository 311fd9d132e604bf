------------------------ MODULE ExecutionStoreProofs ------------------------
(***************************************************************************)
(* Machine-checked proofs about ExecutionStore: its inductive invariant,   *)
(* for any tasks, runs, interrupts, operators, clock lag and lease length. *)
(***************************************************************************)
EXTENDS ExecutionStore, TLAPS

\* Every interrupt in the table belongs to a run.
InterruptsHaveRuns ==
  \A i \in Interrupts : intState[i] # "none" => intRun[i] \in Runs

-----------------------------------------------------------------------------
(* Types *)

\* The initial tables have the right types.
LEMMA InitTypeOK == Init => TypeOK
<1> SUFFICES ASSUME Init PROVE TypeOK
  OBVIOUS
<1>1. writers \in [Runs -> Seq(Token)]
  BY DEF Init
<1> QED
  BY <1>1, StoreAssumption DEF Init, TypeOK, TaskStates, RunStates

\* The constants that bound counters and times are natural numbers.
LEMMA Bounds ==
  /\ LeaseSeconds \in Nat /\ LeaseSeconds > 0
  /\ MaxLag \in Nat /\ MaxNow \in Nat /\ MaxAttempt \in Nat /\ MaxVersion \in Nat
  BY StoreAssumption

\* A lease granted from a timestamp in use expires at a positive time.
LEMMA LeaseEnd ==
  ASSUME now \in Nat, NEW s \in Stamp
  PROVE  s + LeaseSeconds \in Nat /\ s + LeaseSeconds > 0
  BY Bounds DEF Stamp

\* Cancelling an active run keeps the types of what it changes.
LEMMA CancelActiveType ==
  ASSUME TypeOK, NEW r \in Runs, CancelActive(r)
  PROVE  /\ cancelRequested' \in [Runs -> BOOLEAN]
         /\ state' \in [Runs -> RunStates]
         /\ attempt' = attempt
         /\ lease' \in [Runs -> 0 .. MaxAttempt]
         /\ expires' \in [Runs -> Nat]
         /\ intState' \in [Interrupts -> {"none", "pending", "allowed", "denied"}]
<1> USE Bounds DEF TypeOK, RunStates
<1>1. cancelRequested' \in [Runs -> BOOLEAN]
  BY DEF CancelActive
<1>2. CASE state[r] = "running" /\ UNCHANGED <<state, leaseVars, intState>>
  BY <1>1, <1>2 DEF leaseVars
<1>3. CASE /\ state' = [state EXCEPT ![r] = "cancelled"]
           /\ DropLease(r)
           /\ DenyPending(r)
  <2>1. intState' \in [Interrupts -> {"none", "pending", "allowed", "denied"}]
    BY <1>3 DEF DenyPending
  <2> QED
    BY <1>1, <1>3, <2>1 DEF DropLease
<1> QED
  BY <1>2, <1>3 DEF CancelActive

\* Every transaction keeps the types: in particular a fenced write appends a
\* token that was issued, and no counter leaves its range.
LEMMA NextTypeOK == TypeOK /\ [Next]_vars => TypeOK'
<1> SUFFICES ASSUME TypeOK, [Next]_vars PROVE TypeOK'
  OBVIOUS
<1> USE StoreAssumption DEF TypeOK, TaskStates, RunStates, Errors, Token, Stamp, Record
<1>1. CASE UNCHANGED vars
  BY <1>1 DEF vars, taskVars, leaseVars, intVars
<1>2. CASE Tick
  BY <1>2 DEF Tick, taskVars, leaseVars, intVars
<1>3. ASSUME NEW t \in Tasks, CreateTask(t) PROVE TypeOK'
  BY <1>3 DEF CreateTask, leaseVars, intVars
<1>4. ASSUME NEW t \in Tasks, CancelTask(t) PROVE TypeOK'
  <2>1. taskState' \in [Tasks -> TaskStates]
    BY <1>4 DEF CancelTask
  <2>2. CASE UNCHANGED <<state, leaseVars, cancelRequested, intState>>
    BY <1>4, <2>1, <2>2 DEF CancelTask, leaseVars
  <2>3. ASSUME NEW r \in Runs, CancelActive(r) PROVE TypeOK'
    BY <1>4, <2>1, <2>3, CancelActiveType DEF CancelTask
  <2> QED
    BY <1>4, <2>2, <2>3 DEF CancelTask, ActiveRuns
<1>5. ASSUME NEW r \in Runs, NEW t \in Tasks, CreateRun(r, t) PROVE TypeOK'
  BY <1>5 DEF CreateRun, leaseVars, intVars
<1>6. ASSUME NEW r \in Runs, NEW s \in Stamp, ClaimRun(r, s) PROVE TypeOK'
  <2>1. attempt[r] + 1 \in 0 .. MaxAttempt
    <3>1. attempt[r] < MaxAttempt
      BY <1>6 DEF ClaimRun
    <3>2. attempt[r] \in 0 .. MaxAttempt
      OBVIOUS
    <3> QED
      BY <3>1, <3>2, Bounds
  <2>2. s + LeaseSeconds \in Nat
    BY LeaseEnd
  <2> QED
    BY <1>6, <2>1, <2>2 DEF ClaimRun, taskVars, intVars
<1>7. ASSUME NEW r \in Runs, NEW token \in Token, NEW s \in Stamp,
             WorkerCall(r, token, s)
      PROVE TypeOK'
  <2> DEFINE W == [writers EXCEPT ![r] = Append(@, token)]
  <2>0. W \in [Runs -> Seq(Token)]
    OBVIOUS
  <2>1. CASE RenewLease(r, token, s)
    <3>1. s + LeaseSeconds \in Nat
      BY LeaseEnd
    <3> QED
      BY <2>1, <3>1 DEF RenewLease, taskVars, intVars
  <2>2. ASSUME NEW v \in 0 .. MaxVersion, SaveCheckpoint(r, token, v, s)
        PROVE TypeOK'
    BY <2>2, <2>0 DEF SaveCheckpoint, Advance, taskVars, leaseVars, intVars
  <2>3. ASSUME NEW v \in 0 .. MaxVersion, NEW i \in Interrupts,
               Suspend(r, token, v, i, s)
        PROVE TypeOK'
    <3>1. Advance(r, token, v, s) /\ DropLease(r)
      BY <2>3 DEF Suspend
    <3>2. /\ version' \in [Runs -> 0 .. MaxVersion]
          /\ checkpoints' \in [Runs -> SUBSET (1 .. MaxVersion)]
          /\ writers' \in [Runs -> Seq(Token)]
      BY <3>1, <2>0 DEF Advance
    <3>3. /\ lease' \in [Runs -> 0 .. MaxAttempt]
          /\ expires' \in [Runs -> Nat]
          /\ attempt' = attempt
      BY <3>1, Bounds DEF DropLease
    <3>4. /\ intState' \in [Interrupts -> {"none", "pending", "allowed", "denied"}]
          /\ intRun' \in [Interrupts -> Runs \cup {NoRun}]
          /\ state' \in [Runs -> RunStates]
      BY <2>3 DEF Suspend
    <3> QED
      BY <2>3, <3>2, <3>3, <3>4 DEF Suspend, taskVars
  <2>4. CASE CompleteRun(r, token, s)
    <3>1. Settle(r, token, s, "completed")
      BY <2>4 DEF CompleteRun
    <3>2. /\ state' \in [Runs -> RunStates]
          /\ writers' \in [Runs -> Seq(Token)]
          /\ lease' \in [Runs -> 0 .. MaxAttempt]
          /\ expires' \in [Runs -> Nat]
          /\ attempt' = attempt
      BY <3>1, <2>0, Bounds DEF Settle, DropLease
    <3>3. taskState' \in [Tasks -> TaskStates]
      BY <2>4 DEF CompleteRun
    <3> QED
      BY <2>4, <3>2, <3>3 DEF CompleteRun, intVars
  <2>5. ASSUME NEW e \in Errors, FailRun(r, token, e, s) PROVE TypeOK'
    BY <2>5, <2>0 DEF FailRun, Settle, DropLease, taskVars, intVars
  <2>6. CASE FinishCancelled(r, token, s)
    BY <2>6, <2>0 DEF FinishCancelled, Settle, DropLease, taskVars, intVars
  <2> QED
    BY <1>7, <2>1, <2>2, <2>3, <2>4, <2>5, <2>6 DEF WorkerCall
<1>8. ASSUME NEW i \in Interrupts, NEW allow \in BOOLEAN, ResolveInterrupt(i, allow)
      PROVE TypeOK'
  BY <1>8 DEF ResolveInterrupt, ResolvedRunState, taskVars, leaseVars
<1>9. ASSUME NEW o \in Operators, NEW r \in Runs, ReopenRead(o, r) PROVE TypeOK'
  BY <1>9 DEF ReopenRead, taskVars, leaseVars, intVars
<1>10. ASSUME NEW o \in Operators, NEW ev \in Evidence, ReopenCommit(o, ev)
       PROVE TypeOK'
  BY <1>10 DEF ReopenCommit, leaseVars, intVars
<1>11. ASSUME NEW o \in Operators, ReopenAbort(o) PROVE TypeOK'
  BY <1>11 DEF ReopenAbort, taskVars, leaseVars, intVars
<1>12. ASSUME NEW r \in Runs, RequestCancel(r) PROVE TypeOK'
  BY <1>12, CancelActiveType DEF RequestCancel, taskVars
<1> QED
  BY <1>1, <1>2, <1>3, <1>4, <1>5, <1>6, <1>7, <1>8, <1>9, <1>10, <1>11, <1>12
  DEF Next

\* Every state of the store is well typed (TypeOK), whatever tokens, versions
\* and interrupt ids the callers present.
THEOREM TypeCorrect == Spec => []TypeOK
  BY InitTypeOK, NextTypeOK, PTL DEF Spec

-----------------------------------------------------------------------------
(* The inductive invariant *)

\* LeaseIffRunning makes the token checked by a fenced method the attempt of
\* the run, which FencedWrites needs; InterruptsHaveRuns lets an answer find
\* its run.
IInv ==
  /\ TypeOK
  /\ LeaseIffRunning
  /\ InterruptsHaveRuns
  /\ WaitingIffPendingInterrupt
  /\ OneActiveRun
  /\ FencedWrites
  /\ CheckpointsContiguous

\* A run that stays active, or leaves the active states, keeps its task's
\* active run unique.
LEMMA UpdateKeepsOneActive ==
  ASSUME TypeOK, OneActiveRun, NEW r \in Runs, NEW v \in RunStates,
         state' = [state EXCEPT ![r] = v], UNCHANGED taskOf,
         state[r] \in Active \/ v \notin Active
  PROVE  OneActiveRun'
  BY DEF TypeOK, OneActiveRun, ActiveRuns

\* A new active run of a task that has none is its only one.
LEMMA ActivateKeepsOneActive ==
  ASSUME TypeOK, OneActiveRun, NEW r \in Runs, NEW t, NEW v,
         ActiveRuns(t) = {}, state[r] \notin Active,
         state' = [state EXCEPT ![r] = v], taskOf' = [taskOf EXCEPT ![r] = t]
  PROVE  OneActiveRun'
  BY DEF TypeOK, OneActiveRun, ActiveRuns

\* A run that neither was nor becomes waiting does not disturb the interrupts.
LEMMA UpdateKeepsWaiting ==
  ASSUME TypeOK, WaitingIffPendingInterrupt, NEW r \in Runs, NEW v,
         state' = [state EXCEPT ![r] = v], UNCHANGED intVars,
         state[r] # "waiting", v # "waiting"
  PROVE  WaitingIffPendingInterrupt'
  BY DEF TypeOK, WaitingIffPendingInterrupt, PendingInterrupts, intVars

\* A run that leaves the running state gives its lease up.
LEMMA DropKeepsLease ==
  ASSUME TypeOK, LeaseIffRunning, NEW r \in Runs, NEW v, v # "running",
         state' = [state EXCEPT ![r] = v], DropLease(r)
  PROVE  LeaseIffRunning'
  BY DEF TypeOK, LeaseIffRunning, DropLease

\* A run that was not running and does not start leaves the leases as they are.
LEMMA UpdateKeepsLease ==
  ASSUME TypeOK, LeaseIffRunning, NEW r \in Runs, NEW v, v # "running",
         state[r] # "running",
         state' = [state EXCEPT ![r] = v], UNCHANGED leaseVars
  PROVE  LeaseIffRunning'
  BY DEF TypeOK, LeaseIffRunning, leaseVars

\* A write whose caller passed _require_lease is under the newest token.
LEMMA FencedAppend ==
  ASSUME TypeOK, LeaseIffRunning, FencedWrites,
         NEW r \in Runs, NEW token \in Token, NEW s, HoldsLease(r, token, s),
         writers' = [writers EXCEPT ![r] = Append(@, token)], attempt' = attempt
  PROVE  FencedWrites'
<1>1. token = attempt[r]
  BY DEF HoldsLease, LeaseIffRunning
<1>2. ASSUME NEW q \in Runs, q # r
      PROVE  writers'[q] = writers[q] /\ attempt'[q] = attempt[q]
  BY <1>2 DEF TypeOK
<1>3. writers'[r] = Append(writers[r], token) /\ writers[r] \in Seq(Token)
  BY DEF TypeOK
<1>4. /\ Len(writers'[r]) = Len(writers[r]) + 1
      /\ Len(writers[r]) \in Nat
      /\ \A j \in 1 .. Len(writers[r]) : writers'[r][j] = writers[r][j]
      /\ writers'[r][Len(writers[r]) + 1] = token
  BY <1>3
<1>5. /\ \A j \in 1 .. Len(writers[r]) : writers[r][j] <= attempt[r]
      /\ \A j, k \in 1 .. Len(writers[r]) : j < k => writers[r][j] <= writers[r][k]
  BY DEF FencedWrites
<1>6. attempt[r] \in Nat
  BY Bounds DEF TypeOK
<1>7. ASSUME NEW j \in 1 .. Len(writers[r]) + 1 PROVE writers'[r][j] <= attempt[r]
  BY <1>1, <1>4, <1>5, <1>6
<1>8. ASSUME NEW j \in 1 .. Len(writers[r]) + 1, NEW k \in 1 .. Len(writers[r]) + 1,
             j < k
      PROVE  writers'[r][j] <= writers'[r][k]
  BY <1>1, <1>4, <1>5, <1>8
<1> QED
  BY <1>2, <1>4, <1>7, <1>8 DEF FencedWrites

\* A checkpoint is stored under the next version.
LEMMA AdvanceKeepsContiguous ==
  ASSUME TypeOK, CheckpointsContiguous, NEW r \in Runs, NEW token, NEW s,
         NEW v \in 0 .. MaxVersion, Advance(r, token, v, s)
  PROVE  CheckpointsContiguous'
<1>1. v = version[r] /\ (1 .. (v + 1)) = (1 .. v) \cup {v + 1}
  BY Bounds DEF Advance
<1> QED
  BY <1>1 DEF TypeOK, Advance, CheckpointsContiguous

\* What CancelActive does to the run, spelled out.
LEMMA CancelActiveKeeps ==
  ASSUME IInv, NEW r \in Runs, CancelActive(r), state[r] \in Active,
         UNCHANGED <<taskOf, intRun>>
  PROVE  /\ LeaseIffRunning'
         /\ InterruptsHaveRuns'
         /\ WaitingIffPendingInterrupt'
         /\ OneActiveRun'
<1> USE DEF IInv
<1>1. CASE UNCHANGED <<state, leaseVars, intState>>
  BY <1>1 DEF LeaseIffRunning, InterruptsHaveRuns, WaitingIffPendingInterrupt,
              PendingInterrupts, OneActiveRun, ActiveRuns, leaseVars
<1>2. CASE /\ state[r] \in {"pending", "waiting"}
           /\ state' = [state EXCEPT ![r] = "cancelled"]
           /\ DropLease(r)
           /\ DenyPending(r)
  <2>1. LeaseIffRunning'
    BY <1>2, DropKeepsLease
  <2>2. OneActiveRun'
    BY <1>2, UpdateKeepsOneActive DEF RunStates, Active
  <2>3. InterruptsHaveRuns'
    BY <1>2 DEF DenyPending, PendingInterrupts, InterruptsHaveRuns, TypeOK
  <2>4. ASSUME NEW q \in Runs, q # r
        PROVE  PendingInterrupts(q)' = PendingInterrupts(q) /\ state'[q] = state[q]
    BY <1>2, <2>4 DEF DenyPending, PendingInterrupts, TypeOK
  <2>5. PendingInterrupts(r)' = {} /\ state'[r] = "cancelled"
    BY <1>2 DEF DenyPending, PendingInterrupts, TypeOK, WaitingIffPendingInterrupt
  <2>6. WaitingIffPendingInterrupt'
    BY <2>4, <2>5 DEF WaitingIffPendingInterrupt
  <2> QED
    BY <2>1, <2>2, <2>3, <2>6
<1> QED
  BY <1>1, <1>2 DEF CancelActive

\* A fenced settlement: the run leaves the running state under its lease.
LEMMA SettleKeeps ==
  ASSUME IInv, NEW r \in Runs, NEW token \in Token, NEW s, NEW v \in Terminal,
         Settle(r, token, s, v), UNCHANGED <<taskOf, intVars, version, checkpoints>>
  PROVE  /\ LeaseIffRunning'
         /\ InterruptsHaveRuns'
         /\ WaitingIffPendingInterrupt'
         /\ OneActiveRun'
         /\ FencedWrites'
         /\ CheckpointsContiguous'
<1> USE DEF IInv, Settle
<1>0. v # "running" /\ v # "waiting" /\ v \in RunStates /\ state[r] = "running"
  BY DEF Terminal, RunStates, HoldsLease
<1>1. LeaseIffRunning'
  BY <1>0, DropKeepsLease
<1>2. InterruptsHaveRuns'
  BY DEF InterruptsHaveRuns, intVars
<1>3. WaitingIffPendingInterrupt'
  BY <1>0, UpdateKeepsWaiting
<1>4. OneActiveRun'
  BY <1>0, UpdateKeepsOneActive DEF Active
<1>5. FencedWrites'
  BY FencedAppend DEF DropLease
<1>6. CheckpointsContiguous'
  BY DEF CheckpointsContiguous
<1> QED
  BY <1>1, <1>2, <1>3, <1>4, <1>5, <1>6

\* The empty store satisfies the invariant.
LEMMA InitIInv == Init => IInv
<1> SUFFICES ASSUME Init PROVE IInv
  OBVIOUS
<1>1. CheckpointsContiguous
  BY DEF Init, CheckpointsContiguous
<1>2. FencedWrites
  BY DEF Init, FencedWrites
<1>3. /\ LeaseIffRunning
      /\ InterruptsHaveRuns
      /\ WaitingIffPendingInterrupt
      /\ OneActiveRun
  BY DEF Init, LeaseIffRunning, InterruptsHaveRuns, WaitingIffPendingInterrupt,
         PendingInterrupts, OneActiveRun, ActiveRuns, Active
<1> QED
  BY <1>1, <1>2, <1>3, InitTypeOK DEF IInv

\* Every transaction of the store preserves the invariant.
LEMMA NextIInv == IInv /\ [Next]_vars => IInv'
<1> SUFFICES ASSUME IInv, [Next]_vars PROVE IInv'
  OBVIOUS
<1> DEFINE Rest == /\ LeaseIffRunning
                   /\ InterruptsHaveRuns
                   /\ WaitingIffPendingInterrupt
                   /\ OneActiveRun
                   /\ FencedWrites
                   /\ CheckpointsContiguous
<1>0. TypeOK'
  BY NextTypeOK DEF IInv
<1> SUFFICES Rest'
  BY <1>0 DEF IInv
<1>a. CASE UNCHANGED <<taskOf, state, version, leaseVars, checkpoints, intVars,
                       writers>>
  BY <1>a DEF IInv, LeaseIffRunning, InterruptsHaveRuns, WaitingIffPendingInterrupt,
              PendingInterrupts, OneActiveRun, ActiveRuns, FencedWrites,
              CheckpointsContiguous, leaseVars, intVars
<1>1. CASE UNCHANGED vars
  BY <1>1, <1>a DEF vars, taskVars
<1>2. CASE Tick
  BY <1>2, <1>a DEF Tick, taskVars
<1>3. ASSUME NEW t \in Tasks, CreateTask(t) PROVE Rest'
  BY <1>3, <1>a DEF CreateTask
<1>4. ASSUME NEW t \in Tasks, CancelTask(t) PROVE Rest'
  <2>1. CASE UNCHANGED <<state, leaseVars, cancelRequested, intState>>
    BY <1>4, <1>a, <2>1 DEF CancelTask, intVars
  <2>2. ASSUME NEW r \in ActiveRuns(t), CancelActive(r) PROVE Rest'
    <3>1. r \in Runs /\ state[r] \in Active
      BY DEF ActiveRuns
    <3>2. /\ LeaseIffRunning' /\ InterruptsHaveRuns'
          /\ WaitingIffPendingInterrupt' /\ OneActiveRun'
      BY <1>4, <2>2, <3>1, CancelActiveKeeps DEF CancelTask
    <3>3. attempt' = attempt
      BY <2>2 DEF CancelActive, DropLease, leaseVars
    <3> QED
      BY <1>4, <3>2, <3>3 DEF CancelTask, IInv, FencedWrites, CheckpointsContiguous
  <2> QED
    BY <1>4, <2>1, <2>2 DEF CancelTask
<1>5. ASSUME NEW r \in Runs, NEW t \in Tasks, CreateRun(r, t) PROVE Rest'
  <2>1. LeaseIffRunning'
    BY <1>5, UpdateKeepsLease DEF CreateRun, IInv
  <2>2. WaitingIffPendingInterrupt'
    BY <1>5, UpdateKeepsWaiting DEF CreateRun, IInv
  <2>3. OneActiveRun'
    BY <1>5, ActivateKeepsOneActive DEF CreateRun, Admissible, IInv, Active
  <2> QED
    BY <1>5, <2>1, <2>2, <2>3
    DEF CreateRun, IInv, InterruptsHaveRuns, FencedWrites, CheckpointsContiguous,
        intVars, leaseVars
<1>6. ASSUME NEW r \in Runs, NEW s \in Stamp, ClaimRun(r, s) PROVE Rest'
  <2>0. state[r] \in {"pending", "running"} /\ state' = [state EXCEPT ![r] = "running"]
    BY <1>6 DEF ClaimRun, Claimable
  <2>1. LeaseIffRunning'
    <3>1. s + LeaseSeconds > 0 /\ attempt[r] + 1 > 0
      BY LeaseEnd, Bounds DEF IInv, TypeOK
    <3> QED
      BY <1>6, <3>1 DEF ClaimRun, IInv, TypeOK, LeaseIffRunning
  <2>2. WaitingIffPendingInterrupt'
    BY <1>6, <2>0, UpdateKeepsWaiting DEF ClaimRun, IInv
  <2>3. OneActiveRun'
    BY <1>6, <2>0, UpdateKeepsOneActive
    DEF ClaimRun, IInv, RunStates, Active, taskVars
  <2>4. FencedWrites'
    <3>1. \A q \in Runs : attempt[q] \in Nat /\ attempt[q] <= attempt'[q]
      <4>1. \A q \in Runs : attempt[q] \in Nat
        BY Bounds DEF IInv, TypeOK
      <4>2. \A q \in Runs : attempt'[q] = attempt[q] \/ attempt'[q] = attempt[q] + 1
        BY <1>6 DEF ClaimRun, IInv, TypeOK
      <4> QED
        BY <4>1, <4>2
    <3>2. writers' = writers
      BY <1>6 DEF ClaimRun
    <3>3. \A q \in Runs : \A j \in 1 .. Len(writers[q]) : writers[q][j] \in Nat
      <4>1. \A q \in Runs : writers[q] \in Seq(Token)
        BY DEF IInv, TypeOK
      <4>2. \A n \in Token : n \in Nat
        BY Bounds DEF Token
      <4> QED
        BY <4>1, <4>2
    <3>4. \A q \in Runs : attempt'[q] \in Nat
      BY <1>0, Bounds DEF TypeOK
    <3> QED
      BY <3>1, <3>2, <3>3, <3>4 DEF IInv, FencedWrites
  <2> QED
    BY <1>6, <2>1, <2>2, <2>3, <2>4
    DEF ClaimRun, IInv, InterruptsHaveRuns, CheckpointsContiguous, intVars
<1>7. ASSUME NEW r \in Runs, NEW token \in Token, NEW s \in Stamp,
             WorkerCall(r, token, s)
      PROVE Rest'
  <2>1. CASE RenewLease(r, token, s)
    <3>1. LeaseIffRunning'
      BY <2>1, LeaseEnd DEF RenewLease, HoldsLease, IInv, TypeOK, LeaseIffRunning
    <3> QED
      BY <2>1, <3>1
      DEF RenewLease, IInv, InterruptsHaveRuns, WaitingIffPendingInterrupt,
          PendingInterrupts, OneActiveRun, ActiveRuns, FencedWrites,
          CheckpointsContiguous, intVars, taskVars
  <2>2. ASSUME NEW v \in 0 .. MaxVersion, SaveCheckpoint(r, token, v, s)
        PROVE Rest'
    <3>1. FencedWrites'
      BY <2>2, FencedAppend DEF SaveCheckpoint, Advance, IInv, leaseVars
    <3>2. CheckpointsContiguous'
      BY <2>2, AdvanceKeepsContiguous DEF SaveCheckpoint, IInv
    <3> QED
      BY <2>2, <3>1, <3>2
      DEF SaveCheckpoint, IInv, LeaseIffRunning, InterruptsHaveRuns,
          WaitingIffPendingInterrupt, PendingInterrupts, OneActiveRun, ActiveRuns,
          intVars, taskVars, leaseVars
  <2>3. ASSUME NEW v \in 0 .. MaxVersion, NEW i \in Interrupts,
               Suspend(r, token, v, i, s)
        PROVE Rest'
    <3>0. /\ Advance(r, token, v, s) /\ HoldsLease(r, token, s) /\ state[r] = "running"
          /\ DropLease(r)
          /\ state' = [state EXCEPT ![r] = "waiting"]
          /\ PendingInterrupts(r) = {} /\ intState[i] = "none"
          /\ intState' = [intState EXCEPT ![i] = "pending"]
          /\ intRun' = [intRun EXCEPT ![i] = r]
          /\ UNCHANGED taskOf
      BY <2>3 DEF Suspend, Advance, HoldsLease, taskVars
    <3>1. FencedWrites'
      BY <3>0, FencedAppend DEF Advance, IInv, DropLease
    <3>2. CheckpointsContiguous'
      BY <3>0, AdvanceKeepsContiguous DEF IInv
    <3>3. LeaseIffRunning'
      BY <3>0, DropKeepsLease DEF IInv
    <3>4. OneActiveRun'
      BY <3>0, UpdateKeepsOneActive DEF IInv, Active, RunStates
    <3>5. InterruptsHaveRuns'
      BY <3>0 DEF IInv, TypeOK, InterruptsHaveRuns
    <3>6. ASSUME NEW q \in Runs, q # r
          PROVE  PendingInterrupts(q)' = PendingInterrupts(q) /\ state'[q] = state[q]
      BY <3>0, <3>6 DEF IInv, TypeOK, PendingInterrupts
    <3>7. PendingInterrupts(r)' = {i} /\ state'[r] = "waiting"
      BY <3>0 DEF IInv, TypeOK, PendingInterrupts
    <3>8. WaitingIffPendingInterrupt'
      BY <3>6, <3>7 DEF IInv, WaitingIffPendingInterrupt
    <3> QED
      BY <3>1, <3>2, <3>3, <3>4, <3>5, <3>8
  <2>4. CASE CompleteRun(r, token, s)
    BY <2>4, SettleKeeps DEF CompleteRun, Terminal
  <2>5. ASSUME NEW e \in Errors, FailRun(r, token, e, s) PROVE Rest'
    BY <2>5, SettleKeeps DEF FailRun, Terminal, taskVars
  <2>6. CASE FinishCancelled(r, token, s)
    BY <2>6, SettleKeeps DEF FinishCancelled, Terminal, taskVars
  <2> QED
    BY <1>7, <2>1, <2>2, <2>3, <2>4, <2>5, <2>6 DEF WorkerCall
<1>8. ASSUME NEW i \in Interrupts, NEW allow \in BOOLEAN, ResolveInterrupt(i, allow)
      PROVE Rest'
  <2> DEFINE v == ResolvedRunState(IF allow THEN "allowed" ELSE "denied")
  <2>r. PICK r \in Runs : r = intRun[i]
    BY <1>8 DEF ResolveInterrupt, IInv, InterruptsHaveRuns
  <2>0. /\ state[r] = "waiting"
        /\ v \in {"pending", "cancelled"}
        /\ state' = [state EXCEPT ![r] = v]
        /\ intState[i] = "pending"
        /\ intState' = [intState EXCEPT ![i] = IF allow THEN "allowed" ELSE "denied"]
        /\ UNCHANGED <<taskOf, intRun, leaseVars>>
    BY <1>8, <2>r DEF ResolveInterrupt, ResolvedRunState, taskVars
  <2> HIDE DEF v
  <2>1. LeaseIffRunning'
    BY <2>0, UpdateKeepsLease DEF IInv
  <2>2. OneActiveRun'
    BY <2>0, UpdateKeepsOneActive DEF IInv, RunStates, Active
  <2>3. ASSUME NEW q \in Runs, q # r
        PROVE  PendingInterrupts(q)' = PendingInterrupts(q) /\ state'[q] = state[q]
    BY <2>0, <2>3, <2>r DEF IInv, TypeOK, PendingInterrupts
  <2>4. PendingInterrupts(r)' = {} /\ state'[r] # "waiting"
    <3>1. PendingInterrupts(r) = {i}
      BY <2>0, <2>r DEF IInv, WaitingIffPendingInterrupt, PendingInterrupts
    <3> QED
      BY <2>0, <3>1 DEF IInv, TypeOK, PendingInterrupts
  <2>5. WaitingIffPendingInterrupt'
    BY <2>3, <2>4 DEF IInv, WaitingIffPendingInterrupt
  <2>6. InterruptsHaveRuns'
    BY <2>0 DEF IInv, TypeOK, InterruptsHaveRuns
  <2> QED
    BY <1>8, <2>1, <2>2, <2>5, <2>6
    DEF ResolveInterrupt, IInv, FencedWrites, CheckpointsContiguous, leaseVars
<1>9. ASSUME NEW o \in Operators, NEW r \in Runs, ReopenRead(o, r) PROVE Rest'
  BY <1>9, <1>a DEF ReopenRead, taskVars
<1>10. ASSUME NEW o \in Operators, NEW ev \in Evidence, ReopenCommit(o, ev)
       PROVE Rest'
  <2> DEFINE r == reopening[o].run
  <2>0. /\ r \in Runs /\ state[r] = "failed"
        /\ state' = [state EXCEPT ![r] = "pending"]
        /\ ActiveRuns(taskOf[r]) = {}
        /\ UNCHANGED <<taskOf, leaseVars, intVars>>
    BY <1>10 DEF ReopenCommit, IInv, TypeOK
  <2> HIDE DEF r
  <2>1. LeaseIffRunning'
    BY <2>0, UpdateKeepsLease DEF IInv
  <2>2. WaitingIffPendingInterrupt'
    BY <2>0, UpdateKeepsWaiting DEF IInv
  <2>3. OneActiveRun'
    <3>1. taskOf' = [taskOf EXCEPT ![r] = taskOf[r]]
      BY <2>0 DEF IInv, TypeOK
    <3> QED
      BY <2>0, <3>1, ActivateKeepsOneActive DEF IInv, Active
  <2> QED
    BY <1>10, <2>1, <2>2, <2>3
    DEF ReopenCommit, IInv, InterruptsHaveRuns, FencedWrites, CheckpointsContiguous,
        intVars, leaseVars
<1>11. ASSUME NEW o \in Operators, ReopenAbort(o) PROVE Rest'
  BY <1>11, <1>a DEF ReopenAbort, taskVars
<1>12. ASSUME NEW r \in Runs, RequestCancel(r) PROVE Rest'
  <2>1. /\ LeaseIffRunning' /\ InterruptsHaveRuns'
        /\ WaitingIffPendingInterrupt' /\ OneActiveRun'
    BY <1>12, CancelActiveKeeps DEF RequestCancel, taskVars
  <2>2. attempt' = attempt
    BY <1>12 DEF RequestCancel, CancelActive, DropLease, leaseVars
  <2> QED
    BY <1>12, <2>1, <2>2 DEF RequestCancel, IInv, FencedWrites, CheckpointsContiguous
<1> QED
  BY <1>1, <1>2, <1>3, <1>4, <1>5, <1>6, <1>7, <1>8, <1>9, <1>10, <1>11, <1>12
  DEF Next

\* The invariant holds in every state of the store.
LEMMA Invariance == Spec => []IInv
  BY InitIInv, NextIInv, PTL DEF Spec

\* Fencing (FencedWrites): whatever token is presented, no write of an earlier
\* owner is committed after a write of a later one.
THEOREM Fencing == Spec => []FencedWrites
<1>1. IInv => FencedWrites
  BY DEF IInv
<1> QED
  BY <1>1, Invariance, PTL

\* Leases (LeaseIffRunning): the running runs are exactly the leased ones, and
\* each is leased to its latest claimer.
THEOREM LeaseOwnership == Spec => []LeaseIffRunning
<1>1. IInv => LeaseIffRunning
  BY DEF IInv
<1> QED
  BY <1>1, Invariance, PTL

\* Interrupts (WaitingIffPendingInterrupt): a run waits exactly while one
\* interrupt of its own is unanswered.
THEOREM WaitingHasOneInterrupt == Spec => []WaitingIffPendingInterrupt
<1>1. IInv => WaitingIffPendingInterrupt
  BY DEF IInv
<1> QED
  BY <1>1, Invariance, PTL

\* Admission (OneActiveRun): no interleaving of creations, reopenings and
\* settlements gives a task two active runs.
THEOREM OneActiveRunPerTask == Spec => []OneActiveRun
<1>1. IInv => OneActiveRun
  BY DEF IInv
<1> QED
  BY <1>1, Invariance, PTL

\* Checkpoints (CheckpointsContiguous): the version a run points at is stored,
\* with every one below it.
THEOREM CheckpointHistory == Spec => []CheckpointsContiguous
<1>1. IInv => CheckpointsContiguous
  BY DEF IInv
<1> QED
  BY <1>1, Invariance, PTL

-----------------------------------------------------------------------------
(* Action properties and the refinement *)

\* The fenced log's variables change only by a claim, or by a fenced write
\* that may give the lease up.
LEMMA FenceStep == IInv /\ [Next]_vars => [Fence!Next]_(Fence!vars)
<1> SUFFICES ASSUME IInv, [Next]_vars PROVE [Fence!Next]_(Fence!vars)
  OBVIOUS
<1>a. CASE UNCHANGED <<attempt, lease, writers>>
  BY <1>a DEF Fence!vars
<1>b. ASSUME NEW r \in Runs, NEW token \in Token, NEW s, HoldsLease(r, token, s),
             writers' = [writers EXCEPT ![r] = Append(@, token)], attempt' = attempt,
             lease' = lease \/ lease' = [lease EXCEPT ![r] = 0]
      PROVE  Fence!Write(r)
  <2>1. token = lease[r] /\ lease[r] # 0
    BY <1>b DEF HoldsLease, Token
  <2> QED
    BY <1>b, <2>1 DEF Fence!Write
<1>1. CASE UNCHANGED vars
  BY <1>1, <1>a DEF vars, leaseVars
<1>2. CASE Tick
  BY <1>2, <1>a DEF Tick, leaseVars
<1>3. ASSUME NEW t \in Tasks, CreateTask(t) PROVE [Fence!Next]_(Fence!vars)
  BY <1>3, <1>a DEF CreateTask, leaseVars
<1>c. ASSUME NEW r \in Runs, CancelActive(r), UNCHANGED writers
      PROVE  UNCHANGED <<attempt, lease, writers>>
  <2>1. CASE state[r] = "running" /\ UNCHANGED <<state, leaseVars, intState>>
    BY <1>c, <2>1 DEF leaseVars
  <2>2. CASE state[r] \in {"pending", "waiting"} /\ DropLease(r)
    <3>1. lease[r] = 0 /\ lease \in [Runs -> 0 .. MaxAttempt]
      BY <2>2 DEF IInv, LeaseIffRunning, TypeOK
    <3> QED
      BY <1>c, <2>2, <3>1 DEF DropLease
  <2> QED
    BY <1>c, <2>1, <2>2 DEF CancelActive
<1>4. ASSUME NEW t \in Tasks, CancelTask(t) PROVE [Fence!Next]_(Fence!vars)
  BY <1>4, <1>a, <1>c DEF CancelTask, ActiveRuns, leaseVars
<1>5. ASSUME NEW r \in Runs, NEW t \in Tasks, CreateRun(r, t)
      PROVE [Fence!Next]_(Fence!vars)
  BY <1>5, <1>a DEF CreateRun, leaseVars
<1>6. ASSUME NEW r \in Runs, NEW s \in Stamp, ClaimRun(r, s)
      PROVE [Fence!Next]_(Fence!vars)
  <2>1. Fence!Acquire(r)
    BY <1>6 DEF ClaimRun, Fence!Acquire
  <2> QED
    BY <2>1 DEF Fence!Next
<1>7. ASSUME NEW r \in Runs, NEW token \in Token, NEW s \in Stamp,
             WorkerCall(r, token, s)
      PROVE [Fence!Next]_(Fence!vars)
  <2>1. CASE RenewLease(r, token, s)
    BY <2>1, <1>a DEF RenewLease
  <2>2. ASSUME NEW v \in 0 .. MaxVersion, SaveCheckpoint(r, token, v, s)
        PROVE [Fence!Next]_(Fence!vars)
    BY <2>2, <1>b DEF SaveCheckpoint, Advance, leaseVars, Fence!Next
  <2>3. ASSUME NEW v \in 0 .. MaxVersion, NEW i \in Interrupts,
               Suspend(r, token, v, i, s)
        PROVE [Fence!Next]_(Fence!vars)
    BY <2>3, <1>b DEF Suspend, Advance, DropLease, Fence!Next
  <2>4. ASSUME NEW v, Settle(r, token, s, v) PROVE [Fence!Next]_(Fence!vars)
    BY <2>4, <1>b DEF Settle, DropLease, Fence!Next
  <2> QED
    BY <1>7, <2>1, <2>2, <2>3, <2>4
    DEF WorkerCall, CompleteRun, FailRun, FinishCancelled
<1>8. ASSUME NEW i \in Interrupts, NEW allow \in BOOLEAN, ResolveInterrupt(i, allow)
      PROVE [Fence!Next]_(Fence!vars)
  BY <1>8, <1>a DEF ResolveInterrupt, leaseVars
<1>9. ASSUME NEW o \in Operators, NEW r \in Runs, ReopenRead(o, r)
      PROVE [Fence!Next]_(Fence!vars)
  BY <1>9, <1>a DEF ReopenRead, leaseVars
<1>10. ASSUME NEW o \in Operators, NEW ev \in Evidence, ReopenCommit(o, ev)
       PROVE [Fence!Next]_(Fence!vars)
  BY <1>10, <1>a DEF ReopenCommit, leaseVars
<1>11. ASSUME NEW o \in Operators, ReopenAbort(o) PROVE [Fence!Next]_(Fence!vars)
  BY <1>11, <1>a DEF ReopenAbort, leaseVars
<1>12. ASSUME NEW r \in Runs, RequestCancel(r) PROVE [Fence!Next]_(Fence!vars)
  BY <1>12, <1>a, <1>c DEF RequestCancel
<1> QED
  BY <1>1, <1>2, <1>3, <1>4, <1>5, <1>6, <1>7, <1>8, <1>9, <1>10, <1>11, <1>12
  DEF Next

\* The store implements the fenced log (ImplementsFencedLog): a lease is given
\* up only by a write of its owner, or lost to a newer claim.
THEOREM Refinement == Spec => ImplementsFencedLog
<1>1. Init => Fence!Init
  BY DEF Init, Fence!Init
<1> QED
  BY <1>1, Invariance, FenceStep, PTL DEF Spec, ImplementsFencedLog, Fence!Spec

\* No step takes a lease over before it has run out.
LEMMA LiveLeaseStep ==
  ASSUME IInv, [Next]_vars, NEW r \in Runs,
         state[r] = "running", attempt'[r] # attempt[r]
  PROVE  expires[r] <= now
<1>1. CASE \E q \in Runs, s \in Stamp : ClaimRun(q, s)
  <2>1. PICK q \in Runs, s \in Stamp : ClaimRun(q, s)
    BY <1>1
  <2>2. q = r
    BY <2>1 DEF ClaimRun, IInv, TypeOK
  <2>3. expires[r] <= s
    BY <2>1, <2>2 DEF ClaimRun, Claimable
  <2>4. s \in Nat /\ s <= now /\ now \in Nat /\ expires[r] \in Nat
    BY DEF Stamp, IInv, TypeOK
  <2> QED
    BY <2>3, <2>4
<1>2. CASE UNCHANGED attempt
  BY <1>2
<1>3. ASSUME NEW q \in Runs, NEW token, NEW s, WorkerCall(q, token, s)
      PROVE UNCHANGED attempt
  BY <1>3
  DEF WorkerCall, RenewLease, SaveCheckpoint, Suspend, CompleteRun, FailRun,
      FinishCancelled, Settle, DropLease, leaseVars
<1>4. ASSUME NEW q \in Runs, CancelActive(q) PROVE UNCHANGED attempt
  BY <1>4 DEF CancelActive, DropLease, leaseVars
<1>5. ASSUME NEW t \in Tasks, CreateTask(t) \/ CancelTask(t) PROVE UNCHANGED attempt
  BY <1>4, <1>5 DEF CreateTask, CancelTask, ActiveRuns, leaseVars
<1>6. ASSUME NEW q \in Runs, RequestCancel(q) PROVE UNCHANGED attempt
  BY <1>4, <1>6 DEF RequestCancel
<1>7. ASSUME \/ UNCHANGED vars
             \/ Tick
             \/ \E q \in Runs, t \in Tasks : CreateRun(q, t)
             \/ \E i \in Interrupts, allow \in BOOLEAN : ResolveInterrupt(i, allow)
             \/ \E o \in Operators, q \in Runs : ReopenRead(o, q)
             \/ \E o \in Operators, ev \in Evidence : ReopenCommit(o, ev)
             \/ \E o \in Operators : ReopenAbort(o)
      PROVE UNCHANGED attempt
  BY <1>7
  DEF vars, leaseVars, Tick, CreateRun, ResolveInterrupt, ReopenRead, ReopenCommit,
      ReopenAbort
<1> QED
  BY <1>1, <1>2, <1>3, <1>5, <1>6, <1>7 DEF Next

\* Mutual exclusion in time (LiveLeaseKept): a claim, with whatever stale
\* timestamp it compares, never takes an unexpired lease from its holder.
THEOREM NoLeaseTheft == Spec => LiveLeaseKept
<1>1. IInv /\ [Next]_vars =>
        [\A r \in Runs : state[r] = "running" /\ attempt'[r] # attempt[r]
                           => expires[r] <= now]_vars
  BY LiveLeaseStep
<1> QED
  BY <1>1, Invariance, PTL DEF Spec, LiveLeaseKept

-----------------------------------------------------------------------------
(* Settlements and cancellations *)

\* An operator who is reopening a run: what the settled run may still go through.
Reopens(r) ==
  /\ state[r] = "failed" /\ state'[r] = "pending" /\ error'[r] = NoError
  /\ \E o \in Operators : reopening[o] # NoCall /\ reopening[o].run = r

\* Cancelling a run leaves the states of all settled runs alone, and only sets
\* cancellation flags.
LEMMA CancelKeepsSettled ==
  ASSUME TypeOK, NEW q \in Runs, CancelActive(q), NEW r \in Runs
  PROVE  /\ state[r] \in Terminal => state'[r] = state[r]
         /\ state'[r] = "completed" => state[r] = "completed"
         /\ cancelRequested[r] => cancelRequested'[r]
  BY DEF TypeOK, CancelActive, Terminal

\* A worker's call that commits finds its run running: it touches no settled
\* one, and it completes none whose cancellation was requested.
LEMMA WorkerKeepsSettled ==
  ASSUME TypeOK, NEW q \in Runs, NEW token, NEW s, WorkerCall(q, token, s),
         NEW r \in Runs
  PROVE  /\ state[r] \in Terminal => state'[r] = state[r]
         /\ cancelRequested[r] /\ state'[r] = "completed" => state[r] = "completed"
         /\ cancelRequested' = cancelRequested
<1> USE DEF TypeOK, Terminal, HoldsLease
<1>1. CASE RenewLease(q, token, s)
  BY <1>1 DEF RenewLease
<1>2. CASE \E v \in 0 .. MaxVersion : SaveCheckpoint(q, token, v, s)
  BY <1>2 DEF SaveCheckpoint
<1>3. CASE \E v \in 0 .. MaxVersion, i \in Interrupts : Suspend(q, token, v, i, s)
  BY <1>3 DEF Suspend, Advance
<1>4. CASE CompleteRun(q, token, s)
  BY <1>4 DEF CompleteRun, Settle, Completable
<1>5. CASE \E e \in Errors : FailRun(q, token, e, s)
  BY <1>5 DEF FailRun, Settle
<1>6. CASE FinishCancelled(q, token, s)
  BY <1>6 DEF FinishCancelled, Settle
<1> QED
  BY <1>1, <1>2, <1>3, <1>4, <1>5, <1>6 DEF WorkerCall

\* What one step may do to a settled run and to a requested cancellation.
LEMMA DecisionStep ==
  ASSUME IInv, [Next]_vars, NEW r \in Runs
  PROVE  /\ state[r] \in Terminal => state'[r] = state[r] \/ Reopens(r)
         /\ cancelRequested[r] =>
              /\ state'[r] = "completed" => state[r] = "completed"
              /\ ~cancelRequested'[r] => state[r] = "failed" /\ state'[r] = "pending"
<1> USE DEF Terminal
<1>a. TypeOK
  BY DEF IInv
<1>1. CASE UNCHANGED vars
  BY <1>1 DEF vars
<1>2. CASE Tick
  BY <1>2 DEF Tick
<1>3. ASSUME NEW t \in Tasks, CreateTask(t) \/ CancelTask(t)
      PROVE /\ state[r] \in Terminal => state'[r] = state[r]
            /\ state'[r] = "completed" => state[r] = "completed"
            /\ cancelRequested[r] => cancelRequested'[r]
  <2>1. CASE CreateTask(t)
    BY <2>1 DEF CreateTask
  <2>2. CASE CancelTask(t)
    <3>1. CASE UNCHANGED <<state, cancelRequested>>
      BY <3>1
    <3>2. ASSUME NEW q \in ActiveRuns(t), CancelActive(q)
          PROVE /\ state[r] \in Terminal => state'[r] = state[r]
                /\ state'[r] = "completed" => state[r] = "completed"
                /\ cancelRequested[r] => cancelRequested'[r]
      BY <1>a, <3>2, CancelKeepsSettled DEF ActiveRuns
    <3> QED
      BY <2>2, <3>1, <3>2 DEF CancelTask
  <2> QED
    BY <1>3, <2>1, <2>2
<1>4. CASE \E q \in Runs, t \in Tasks : CreateRun(q, t)
  BY <1>a, <1>4 DEF CreateRun, TypeOK
<1>5. CASE \E q \in Runs, s \in Stamp : ClaimRun(q, s)
  BY <1>a, <1>5 DEF ClaimRun, Claimable, TypeOK
<1>6. CASE \E q \in Runs, token \in Token, s \in Stamp : WorkerCall(q, token, s)
  BY <1>a, <1>6, WorkerKeepsSettled
<1>7. CASE \E i \in Interrupts, allow \in BOOLEAN : ResolveInterrupt(i, allow)
  BY <1>a, <1>7 DEF ResolveInterrupt, ResolvedRunState, TypeOK
<1>8. CASE \E o \in Operators, q \in Runs : ReopenRead(o, q)
  BY <1>8 DEF ReopenRead
<1>9. ASSUME NEW o \in Operators, NEW ev \in Evidence, ReopenCommit(o, ev)
      PROVE /\ state[r] \in Terminal => state'[r] = state[r] \/ Reopens(r)
            /\ state'[r] = "completed" => state[r] = "completed"
            /\ ~cancelRequested'[r] /\ cancelRequested[r] =>
                 state[r] = "failed" /\ state'[r] = "pending"
  <2>1. reopening[o].run \in Runs
    BY <1>a, <1>9 DEF ReopenCommit, TypeOK
  <2>2. CASE reopening[o].run = r
    BY <1>a, <1>9, <2>2 DEF ReopenCommit, Reopens, TypeOK
  <2>3. CASE reopening[o].run # r
    BY <1>a, <1>9, <2>1, <2>3 DEF ReopenCommit, TypeOK
  <2> QED
    BY <2>2, <2>3
<1>10. CASE \E o \in Operators : ReopenAbort(o)
  BY <1>10 DEF ReopenAbort
<1>11. CASE \E q \in Runs : RequestCancel(q)
  BY <1>a, <1>11, CancelKeepsSettled DEF RequestCancel
<1> QED
  BY <1>1, <1>2, <1>3, <1>4, <1>5, <1>6, <1>7, <1>8, <1>9, <1>10, <1>11 DEF Next

\* Nothing decided is undone (DecisionsKept): a settlement, a requested
\* cancellation and the lease of a worker in time survive every step.
THEOREM Decisions == Spec => DecisionsKept
<1>1. IInv /\ [Next]_vars =>
        [\A r \in Runs : cancelRequested[r] =>
           /\ state'[r] = "completed" => state[r] = "completed"
           /\ ~cancelRequested'[r] => state[r] = "failed" /\ state'[r] = "pending"]_vars
  BY DecisionStep
<1>2. IInv /\ [Next]_vars =>
        [\A r \in Runs : state[r] \in Terminal =>
           \/ state'[r] = state[r]
           \/ /\ state[r] = "failed" /\ state'[r] = "pending" /\ error'[r] = NoError
              /\ \E o \in Operators : reopening[o] # NoCall /\ reopening[o].run = r]_vars
  BY DecisionStep DEF Reopens
<1>3. Spec => CancelWins
  BY <1>1, Invariance, PTL DEF Spec, CancelWins
<1>4. Spec => SettledForGood
  BY <1>2, Invariance, PTL DEF Spec, SettledForGood
<1> QED
  BY <1>3, <1>4, NoLeaseTheft DEF DecisionsKept

\* The control rows fit together (ControlCoherent) in every state.
THEOREM Coherence == Spec => []ControlCoherent
<1>1. IInv => ControlCoherent
  BY DEF IInv, ControlCoherent
<1> QED
  BY <1>1, Invariance, PTL

-----------------------------------------------------------------------------
(* The outbox explains the tables *)

\* The identities in the outbox.
Recorded == {a[1] : a \in audit}

\* What AuditTracksState says, one table at a time.
RunsTold == \A r \in Runs :
  state[r] \in Terminal => <<"run state", r, state[r]>> \in Recorded
CancelsTold == \A r \in Runs :
  cancelRequested[r] => <<"cancel requested", r>> \in Recorded
ClaimsTold == \A r \in Runs :
  \A n \in 1 .. attempt[r] : <<"run claimed", r, n>> \in Recorded
CheckpointsTold == \A r \in Runs :
  \A v \in checkpoints[r] : <<"checkpoint", r, v>> \in Recorded
AnswersTold == \A i \in Interrupts :
  intState[i] \in {"allowed", "denied"} => ResolvedEvent(i, intState[i]) \in audit
TasksTold == \A t \in Tasks :
  taskState[t] \in {"completed", "cancelled"}
    => <<"task state", t, taskState[t]>> \in Recorded

Told == /\ RunsTold /\ CancelsTold /\ ClaimsTold
        /\ CheckpointsTold /\ AnswersTold /\ TasksTold

\* A well-typed store whose tables are told is explained by its outbox.
LEMMA ToldExplains == TypeOK /\ Told => AuditTracksState
<1> SUFFICES ASSUME TypeOK, Told PROVE AuditTracksState
  OBVIOUS
<1>1. \A i \in Interrupts : intState[i] \notin {"none", "pending"}
        => <<"interrupt resolved", i>> \in Recorded
  <2>1. SUFFICES ASSUME NEW i \in Interrupts, intState[i] \notin {"none", "pending"}
                 PROVE  <<"interrupt resolved", i>> \in Recorded
    OBVIOUS
  <2>2. ResolvedEvent(i, intState[i]) \in audit
    BY <2>1 DEF TypeOK, Told, AnswersTold
  <2>3. ResolvedEvent(i, intState[i])[1] = <<"interrupt resolved", i>>
    BY DEF ResolvedEvent
  <2> QED
    BY <2>2, <2>3 DEF Recorded
<1>2. \A r \in Runs : attempt[r] > 0 => <<"run claimed", r, attempt[r]>> \in Recorded
  <2>1. SUFFICES ASSUME NEW r \in Runs, attempt[r] > 0
                 PROVE  <<"run claimed", r, attempt[r]>> \in Recorded
    OBVIOUS
  <2>2. attempt[r] \in 1 .. attempt[r]
    BY <2>1, Bounds DEF TypeOK
  <2> QED
    BY <2>2 DEF Told, ClaimsTold
<1>3. Reconstructed \subseteq Recorded
  <2> SUFFICES ASSUME NEW x \in Reconstructed PROVE x \in Recorded
    OBVIOUS
  <2>1. CASE x \in {<<"run state", r, state[r]>> :
                      r \in {q \in Runs : state[q] \in Terminal}}
    BY <2>1 DEF Told, RunsTold
  <2>2. CASE x \in {<<"cancel requested", r>> : r \in {q \in Runs : cancelRequested[q]}}
    BY <2>2 DEF Told, CancelsTold
  <2>3. CASE x \in {<<"run claimed", r, attempt[r]>> : r \in {q \in Runs : attempt[q] > 0}}
    BY <2>3, <1>2
  <2>4. CASE x \in UNION {{<<"checkpoint", r, v>> : v \in checkpoints[r]} : r \in Runs}
    BY <2>4 DEF Told, CheckpointsTold
  <2>5. CASE x \in {<<"interrupt resolved", i>> :
                      i \in {j \in Interrupts : intState[j] \notin {"none", "pending"}}}
    BY <2>5, <1>1
  <2>6. CASE x \in {<<"task state", t, taskState[t]>> :
                      t \in {u \in Tasks : taskState[u] \in {"completed", "cancelled"}}}
    BY <2>6 DEF Told, TasksTold
  <2> QED
    BY <2>1, <2>2, <2>3, <2>4, <2>5, <2>6 DEF Reconstructed
<1> QED
  BY <1>3 DEF AuditTracksState, Told, ClaimsTold, AnswersTold, Recorded

\* The outbox only grows, by the events that are recorded.
LEMMA RecordGrows ==
  ASSUME NEW events, Record(events)
  PROVE  /\ audit \subseteq audit' /\ events \subseteq audit'
         /\ Recorded \subseteq Recorded'
         /\ \A e \in events : e[1] \in Recorded'
  BY DEF Record, Recorded

\* Nothing is told in the empty tables.
LEMMA InitTold == Init => Told
<1> SUFFICES ASSUME Init PROVE Told
  OBVIOUS
<1>1. \A r \in Runs : 1 .. attempt[r] = {}
  BY DEF Init
<1> QED
  BY <1>1 DEF Init, Told, RunsTold, CancelsTold, ClaimsTold, CheckpointsTold,
     AnswersTold, TasksTold, Terminal

\* A table that is left alone stays told while the outbox grows.
LEMMA KeepsTold ==
  ASSUME audit \subseteq audit', Recorded \subseteq Recorded', Told
  PROVE  /\ UNCHANGED state => RunsTold'
         /\ UNCHANGED cancelRequested => CancelsTold'
         /\ UNCHANGED attempt => ClaimsTold'
         /\ UNCHANGED checkpoints => CheckpointsTold'
         /\ UNCHANGED intState => AnswersTold'
         /\ UNCHANGED taskState => TasksTold'
<1>1. UNCHANGED state => RunsTold'
  BY DEF Told, RunsTold
<1>2. UNCHANGED cancelRequested => CancelsTold'
  BY DEF Told, CancelsTold
<1>3. UNCHANGED attempt => ClaimsTold'
  BY DEF Told, ClaimsTold
<1>4. UNCHANGED checkpoints => CheckpointsTold'
  BY DEF Told, CheckpointsTold
<1>5. UNCHANGED intState => AnswersTold'
  BY DEF Told, AnswersTold, ResolvedEvent
<1>6. UNCHANGED taskState => TasksTold'
  BY DEF Told, TasksTold
<1> QED
  BY <1>1, <1>2, <1>3, <1>4, <1>5, <1>6

\* A run that changes its state is told if it is not settled or its event is
\* recorded.
LEMMA RunTold ==
  ASSUME TypeOK, RunsTold, Recorded \subseteq Recorded', NEW r \in Runs, NEW v,
         state' = [state EXCEPT ![r] = v],
         v \in Terminal => <<"run state", r, v>> \in Recorded'
  PROVE  RunsTold'
  BY DEF TypeOK, RunsTold

\* The same of a task.
LEMMA TaskTold ==
  ASSUME TypeOK, TasksTold, Recorded \subseteq Recorded', NEW t, NEW v,
         taskState' = [taskState EXCEPT ![t] = v],
         v \in {"completed", "cancelled"} => <<"task state", t, v>> \in Recorded'
  PROVE  TasksTold'
  BY DEF TypeOK, TasksTold

\* Advance records the one checkpoint it adds.
LEMMA CheckpointTold ==
  ASSUME TypeOK, CheckpointsTold, Recorded \subseteq Recorded',
         NEW r \in Runs, NEW token, NEW v, NEW s, Advance(r, token, v, s),
         <<"checkpoint", r, v + 1>> \in Recorded'
  PROVE  CheckpointsTold'
  BY DEF TypeOK, CheckpointsTold, Advance

\* What the events of a cancellation tell.
LEMMA CancelTold ==
  ASSUME TypeOK, Told, audit \subseteq audit', Recorded \subseteq Recorded',
         NEW r \in Runs, CancelActive(r), CancelActiveEvents(r) \subseteq audit',
         \A e \in CancelActiveEvents(r) : e[1] \in Recorded'
  PROVE  RunsTold' /\ CancelsTold' /\ ClaimsTold' /\ AnswersTold'
<1>1. CancelsTold'
  <2>1. CancelEvent(r) \in CancelActiveEvents(r)
    BY DEF CancelActiveEvents
  <2>2. CancelEvent(r)[1] = <<"cancel requested", r>>
    BY DEF CancelEvent
  <2>3. cancelRequested' = [cancelRequested EXCEPT ![r] = TRUE]
    BY DEF CancelActive
  <2> QED
    BY <2>1, <2>2, <2>3 DEF TypeOK, Told, CancelsTold
<1>2. CASE state[r] = "running" /\ UNCHANGED <<state, leaseVars, intState>>
  BY <1>1, <1>2, KeepsTold DEF leaseVars
<1>3. CASE /\ state[r] \in {"pending", "waiting"}
           /\ state' = [state EXCEPT ![r] = "cancelled"]
           /\ DropLease(r)
           /\ DenyPending(r)
  <2>1. RunStateEvent(r, "cancelled", NoError) \in CancelActiveEvents(r)
    BY <1>3 DEF CancelActiveEvents
  <2>2. RunStateEvent(r, "cancelled", NoError)[1] = <<"run state", r, "cancelled">>
    BY DEF RunStateEvent
  <2>3. RunsTold'
    BY <1>3, <2>1, <2>2, RunTold DEF Told
  <2>4. ClaimsTold'
    BY <1>3, KeepsTold DEF DropLease
  <2>5. \A i \in PendingInterrupts(r) : ResolvedEvent(i, "denied") \in audit'
    BY <1>3 DEF CancelActiveEvents
  <2>6. AnswersTold'
    <3> SUFFICES ASSUME NEW i \in Interrupts, intState'[i] \in {"allowed", "denied"}
                 PROVE  ResolvedEvent(i, intState'[i]) \in audit'
      BY DEF AnswersTold, ResolvedEvent
    <3>1. CASE state[r] = "waiting" /\ i \in PendingInterrupts(r)
      BY <1>3, <2>5, <3>1 DEF DenyPending
    <3>2. CASE ~(state[r] = "waiting" /\ i \in PendingInterrupts(r))
      <4>1. intState'[i] = intState[i]
        BY <1>3, <3>2 DEF DenyPending
      <4> QED
        BY <4>1 DEF Told, AnswersTold
    <3> QED
      BY <3>1, <3>2
  <2> QED
    BY <1>1, <2>3, <2>4, <2>6
<1> QED
  BY <1>2, <1>3 DEF CancelActive

\* Every transaction records what it changes.
LEMMA NextTold == TypeOK /\ Told /\ [Next]_vars => Told'
<1> SUFFICES ASSUME TypeOK, Told, [Next]_vars PROVE Told'
  OBVIOUS
<1>0. ASSUME UNCHANGED <<taskState, state, attempt, cancelRequested, checkpoints,
                         intState, audit>>
      PROVE  Told'
  <2>1. Recorded \subseteq Recorded' /\ audit \subseteq audit'
    BY <1>0 DEF Recorded
  <2> QED
    BY <1>0, <2>1, KeepsTold DEF Told
<1>1. CASE UNCHANGED vars
  BY <1>0, <1>1 DEF vars, taskVars, leaseVars, intVars
<1>2. CASE Tick
  BY <1>0, <1>2 DEF Tick, taskVars, leaseVars, intVars
<1>3. ASSUME NEW t \in Tasks, CreateTask(t) PROVE Told'
  <2>1. TasksTold'
    BY <1>3, RecordGrows, TaskTold DEF CreateTask, Told
  <2> QED
    BY <1>3, <2>1, RecordGrows, KeepsTold DEF CreateTask, leaseVars, intVars, Told
<1>4. ASSUME NEW t \in Tasks, CancelTask(t) PROVE Told'
  <2> DEFINE ended == TaskStateEvent(t, "cancelled")
  <2>1. ended[1] = <<"task state", t, "cancelled">>
    BY DEF TaskStateEvent
  <2>2. taskState' = [taskState EXCEPT ![t] = "cancelled"] /\ UNCHANGED checkpoints
    BY <1>4 DEF CancelTask
  <2>3. CASE /\ Record({ended})
             /\ UNCHANGED <<state, leaseVars, cancelRequested, intState>>
    <3>1. /\ audit \subseteq audit' /\ Recorded \subseteq Recorded'
          /\ ended[1] \in Recorded'
      BY <2>3, RecordGrows
    <3>2. TasksTold'
      BY <2>1, <2>2, <3>1, TaskTold DEF Told
    <3> QED
      BY <2>2, <2>3, <3>1, <3>2, KeepsTold DEF leaseVars, Told
  <2>4. ASSUME NEW r \in Runs, CancelActive(r),
               Record(CancelActiveEvents(r) \cup {ended})
        PROVE  Told'
    <3>1. /\ audit \subseteq audit' /\ Recorded \subseteq Recorded'
          /\ CancelActiveEvents(r) \cup {ended} \subseteq audit'
          /\ \A e \in CancelActiveEvents(r) \cup {ended} : e[1] \in Recorded'
      BY <2>4, RecordGrows
    <3>2. TasksTold'
      BY <2>1, <2>2, <3>1, TaskTold DEF Told
    <3>3. RunsTold' /\ CancelsTold' /\ ClaimsTold' /\ AnswersTold'
      BY <2>4, <3>1, CancelTold
    <3> QED
      BY <2>2, <3>1, <3>2, <3>3, KeepsTold DEF Told
  <2> QED
    BY <1>4, <2>3, <2>4 DEF CancelTask, ActiveRuns
<1>5. ASSUME NEW r \in Runs, NEW t \in Tasks, CreateRun(r, t) PROVE Told'
  <2>1. audit \subseteq audit' /\ Recorded \subseteq Recorded'
    BY <1>5, RecordGrows DEF CreateRun
  <2>2. RunsTold'
    BY <1>5, <2>1, RunTold DEF CreateRun, Told, Terminal
  <2> QED
    BY <1>5, <2>1, <2>2, KeepsTold DEF CreateRun, leaseVars, intVars, Told
<1>6. ASSUME NEW r \in Runs, NEW s \in Stamp, ClaimRun(r, s) PROVE Told'
  <2>1. /\ audit \subseteq audit' /\ Recorded \subseteq Recorded'
        /\ <<"run claimed", r, attempt[r] + 1>> \in Recorded'
    <3> DEFINE claimed == <<<<"run claimed", r, attempt[r] + 1>>, r>>
    <3>1. Record({claimed})
      BY <1>6 DEF ClaimRun
    <3>2. /\ audit \subseteq audit' /\ Recorded \subseteq Recorded'
          /\ claimed[1] \in Recorded'
      BY <3>1, RecordGrows
    <3>3. claimed[1] = <<"run claimed", r, attempt[r] + 1>>
      OBVIOUS
    <3> QED
      BY <3>2, <3>3
  <2>2. RunsTold'
    BY <1>6, <2>1, RunTold DEF ClaimRun, Told, Terminal
  <2>3. ClaimsTold'
    <3> SUFFICES ASSUME NEW q \in Runs, NEW n \in 1 .. attempt'[q]
                 PROVE  <<"run claimed", q, n>> \in Recorded'
      BY DEF ClaimsTold
    <3>1. CASE q = r /\ n = attempt[r] + 1
      BY <2>1, <3>1
    <3>2. CASE ~(q = r /\ n = attempt[r] + 1)
      <4>1. attempt[q] \in Nat /\ attempt[r] \in Nat
        BY Bounds DEF TypeOK
      <4>2. attempt'[q] = IF q = r THEN attempt[r] + 1 ELSE attempt[q]
        BY <1>6 DEF ClaimRun, TypeOK
      <4>3. n \in 1 .. attempt[q]
        BY <3>2, <4>1, <4>2
      <4> QED
        BY <2>1, <4>3 DEF Told, ClaimsTold
    <3> QED
      BY <3>1, <3>2
  <2> QED
    BY <1>6, <2>1, <2>2, <2>3, KeepsTold DEF ClaimRun, taskVars, intVars, Told
<1>7. ASSUME NEW r \in Runs, NEW token \in Token, NEW s \in Stamp,
             WorkerCall(r, token, s)
      PROVE  Told'
  <2>1. CASE RenewLease(r, token, s)
    <3>1. audit \subseteq audit' /\ Recorded \subseteq Recorded'
      BY <2>1, RecordGrows DEF RenewLease
    <3> QED
      BY <2>1, <3>1, KeepsTold DEF RenewLease, taskVars, intVars, Told
  <2>2. ASSUME NEW v \in 0 .. MaxVersion, SaveCheckpoint(r, token, v, s)
        PROVE  Told'
    <3>1. /\ audit \subseteq audit' /\ Recorded \subseteq Recorded'
          /\ CheckpointEvent(r, v + 1)[1] \in Recorded'
      BY <2>2, RecordGrows DEF SaveCheckpoint
    <3>2. CheckpointsTold'
      BY <2>2, <3>1, CheckpointTold DEF SaveCheckpoint, CheckpointEvent, Told
    <3> QED
      BY <2>2, <3>1, <3>2, KeepsTold
      DEF SaveCheckpoint, taskVars, leaseVars, intVars, Told
  <2>3. ASSUME NEW v \in 0 .. MaxVersion, NEW i \in Interrupts,
               Suspend(r, token, v, i, s)
        PROVE  Told'
    <3>1. /\ audit \subseteq audit' /\ Recorded \subseteq Recorded'
          /\ CheckpointEvent(r, v + 1)[1] \in Recorded'
      BY <2>3, RecordGrows DEF Suspend
    <3>2. CheckpointsTold'
      BY <2>3, <3>1, CheckpointTold DEF Suspend, CheckpointEvent, Told
    <3>3. RunsTold'
      BY <2>3, <3>1, RunTold DEF Suspend, Told, Terminal
    <3>4. AnswersTold'
      BY <2>3, <3>1 DEF Suspend, Told, AnswersTold, TypeOK, ResolvedEvent
    <3> QED
      BY <2>3, <3>1, <3>2, <3>3, <3>4, KeepsTold DEF Suspend, DropLease, taskVars, Told
  <2>4. CASE CompleteRun(r, token, s)
    <3> DEFINE t == taskOf[r]
    <3>1. /\ audit \subseteq audit' /\ Recorded \subseteq Recorded'
          /\ RunStateEvent(r, "completed", NoError)[1] \in Recorded'
          /\ TaskStateEvent(t, "completed")[1] \in Recorded'
      BY <2>4, RecordGrows DEF CompleteRun
    <3>2. RunsTold'
      BY <2>4, <3>1, RunTold DEF CompleteRun, Settle, RunStateEvent, Told
    <3>3. TasksTold'
      <4>1. CASE taskState' = [taskState EXCEPT ![t] = "completed"]
        BY <3>1, <4>1, TaskTold DEF TaskStateEvent, Told
      <4>2. CASE UNCHANGED taskState
        BY <3>1, <4>2, KeepsTold
      <4> QED
        BY <2>4, <4>1, <4>2 DEF CompleteRun
    <3> QED
      BY <2>4, <3>1, <3>2, <3>3, KeepsTold
      DEF CompleteRun, Settle, DropLease, intVars, Told
  <2>5. ASSUME NEW e \in Errors, FailRun(r, token, e, s) PROVE Told'
    <3>1. /\ audit \subseteq audit' /\ Recorded \subseteq Recorded'
          /\ RunStateEvent(r, "failed", e)[1] \in Recorded'
      BY <2>5, RecordGrows DEF FailRun
    <3>2. RunsTold'
      BY <2>5, <3>1, RunTold DEF FailRun, Settle, RunStateEvent, Told
    <3> QED
      BY <2>5, <3>1, <3>2, KeepsTold DEF FailRun, Settle, DropLease, taskVars, intVars, Told
  <2>6. CASE FinishCancelled(r, token, s)
    <3>1. /\ audit \subseteq audit' /\ Recorded \subseteq Recorded'
          /\ RunStateEvent(r, "cancelled", NoError)[1] \in Recorded'
      BY <2>6, RecordGrows DEF FinishCancelled
    <3>2. RunsTold'
      BY <2>6, <3>1, RunTold DEF FinishCancelled, Settle, RunStateEvent, Told
    <3> QED
      BY <2>6, <3>1, <3>2, KeepsTold
      DEF FinishCancelled, Settle, DropLease, taskVars, intVars, Told
  <2> QED
    BY <1>7, <2>1, <2>2, <2>3, <2>4, <2>5, <2>6 DEF WorkerCall
<1>8. ASSUME NEW i \in Interrupts, NEW allow \in BOOLEAN, ResolveInterrupt(i, allow)
      PROVE  Told'
  <2> DEFINE r == intRun[i]
             target == IF allow THEN "allowed" ELSE "denied"
             cancelled == RunStateEvent(r, "cancelled", NoError)
             recorded == {ResolvedEvent(i, target)} \cup IF allow THEN {} ELSE {cancelled}
  <2>1. Record(recorded)
    BY <1>8 DEF ResolveInterrupt
  <2>2. /\ audit \subseteq audit' /\ Recorded \subseteq Recorded'
        /\ recorded \subseteq audit'
        /\ \A e \in recorded : e[1] \in Recorded'
    BY <2>1, RecordGrows
  <2>3. AnswersTold'
    <3> SUFFICES ASSUME NEW j \in Interrupts, intState'[j] \in {"allowed", "denied"}
                 PROVE  ResolvedEvent(j, intState'[j]) \in audit'
      BY DEF AnswersTold, ResolvedEvent
    <3>1. intState' = [intState EXCEPT ![i] = target]
      BY <1>8 DEF ResolveInterrupt
    <3>2. CASE j = i
      BY <2>2, <3>1, <3>2 DEF TypeOK
    <3>3. CASE j # i
      BY <2>2, <3>1, <3>3 DEF TypeOK, Told, AnswersTold
    <3> QED
      BY <3>2, <3>3
  <2>4. RunsTold'
    <3>1. state' = [state EXCEPT ![r] = ResolvedRunState(target)]
      BY <1>8 DEF ResolveInterrupt
    <3>2. ResolvedRunState(target) = IF allow THEN "pending" ELSE "cancelled"
      BY DEF ResolvedRunState
    <3>3. ~allow => <<"run state", r, "cancelled">> \in Recorded'
      <4> SUFFICES ASSUME ~allow PROVE <<"run state", r, "cancelled">> \in Recorded'
        OBVIOUS
      <4>1. cancelled \in recorded
        OBVIOUS
      <4>2. cancelled[1] = <<"run state", r, "cancelled">>
        BY DEF RunStateEvent
      <4> QED
        BY <2>2, <4>1, <4>2
    <3>4. CASE r \in Runs
      <4> DEFINE next == ResolvedRunState(target)
      <4>1. next \in Terminal => <<"run state", r, next>> \in Recorded'
        BY <3>2, <3>3 DEF Terminal
      <4>2. state' = [state EXCEPT ![r] = next]
        BY <3>1
      <4> HIDE DEF next, r
      <4> QED
        BY <2>2, <3>4, <4>1, <4>2, RunTold DEF Told
    <3>5. CASE r \notin Runs
      BY <2>2, <3>1, <3>5 DEF TypeOK, Told, RunsTold
    <3> QED
      BY <3>4, <3>5
  <2> QED
    BY <1>8, <2>2, <2>3, <2>4, KeepsTold DEF ResolveInterrupt, taskVars, leaseVars, Told
<1>9. ASSUME NEW o \in Operators, NEW r \in Runs, ReopenRead(o, r) PROVE Told'
  BY <1>0, <1>9 DEF ReopenRead, taskVars, leaseVars, intVars
<1>10. ASSUME NEW o \in Operators, NEW ev \in Evidence, ReopenCommit(o, ev)
       PROVE  Told'
  <2> DEFINE r == reopening[o].run
             t == taskOf[r]
  <2>1. audit \subseteq audit' /\ Recorded \subseteq Recorded'
    BY <1>10, RecordGrows DEF ReopenCommit
  <2>2. r \in Runs
    BY <1>10 DEF ReopenCommit, TypeOK
  <2>3. RunsTold'
    BY <1>10, <2>1, <2>2, RunTold DEF ReopenCommit, Told, Terminal
  <2>4. CancelsTold'
    BY <1>10, <2>1, <2>2 DEF ReopenCommit, Told, CancelsTold, TypeOK
  <2>5. TasksTold'
    <3>1. CASE taskState' = [taskState EXCEPT ![t] = "open"]
      BY <2>1, <3>1, TaskTold DEF Told
    <3>2. CASE UNCHANGED taskState
      BY <2>1, <3>2, KeepsTold
    <3> QED
      BY <1>10, <3>1, <3>2 DEF ReopenCommit
  <2> QED
    BY <1>10, <2>1, <2>3, <2>4, <2>5, KeepsTold DEF ReopenCommit, leaseVars, intVars, Told
<1>11. ASSUME NEW o \in Operators, ReopenAbort(o) PROVE Told'
  BY <1>0, <1>11 DEF ReopenAbort, taskVars, leaseVars, intVars
<1>12. ASSUME NEW r \in Runs, RequestCancel(r) PROVE Told'
  <2>1. /\ audit \subseteq audit' /\ Recorded \subseteq Recorded'
        /\ CancelActiveEvents(r) \subseteq audit'
        /\ \A e \in CancelActiveEvents(r) : e[1] \in Recorded'
    BY <1>12, RecordGrows DEF RequestCancel
  <2>2. RunsTold' /\ CancelsTold' /\ ClaimsTold' /\ AnswersTold'
    BY <1>12, <2>1, CancelTold DEF RequestCancel
  <2> QED
    BY <1>12, <2>1, <2>2, KeepsTold DEF RequestCancel, taskVars, Told
<1> QED
  BY <1>1, <1>2, <1>3, <1>4, <1>5, <1>6, <1>7, <1>8, <1>9, <1>10, <1>11, <1>12
  DEF Next

\* The outbox explains every state of the tables: no method of the store, in
\* whatever order they are called and whoever calls them, settles, cancels,
\* claims, checkpoints or answers without its event (AuditTracksState).
THEOREM OutboxExplains == Spec => []AuditTracksState
<1>1. Init => TypeOK /\ Told
  BY InitTypeOK, InitTold
<1>2. (TypeOK /\ Told) /\ [Next]_vars => (TypeOK /\ Told)'
  BY NextTypeOK, NextTold
<1>3. TypeOK /\ Told => AuditTracksState
  BY ToldExplains
<1> QED
  BY <1>1, <1>2, <1>3, PTL DEF Spec
=============================================================================
