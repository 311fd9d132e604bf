-------------------------- MODULE DurableRunProofs --------------------------
(***************************************************************************)
(* Machine-checked proofs about DurableRun: through crashes, stalled and   *)
(* superseded workers, time-outs, cancellations and reopenings, the runner *)
(* uses the control store only through its methods, executes no effect     *)
(* twice or without its approval, and settles a run as its checkpoint says.*)
(* With one worker, a run that ended by itself has no effect left open.    *)
(* And about RunEffects, which shares no state with it: an effect that a   *)
(* host executes for a run is executed once, and told as it is recorded.   *)
(***************************************************************************)
EXTENDS DurableRun, RunEffects, FiniteSetTheorems, SequenceTheorems, TLAPS

\* The theorems about the control store, for the one run of the runner.
Control == INSTANCE ExecutionStoreProofs WITH Tasks <- {Task}, Runs <- {Run}

-----------------------------------------------------------------------------
(* Types *)

Checkpoint ==
  [phase : Phases \cup {"none"}, iter : 0 .. MaxIterations, next : 1 .. MaxTools + 1,
   wait : {"none", "approval", "input"}, result : Results \cup {"none"}]

\* Where a worker is, and why it fails.
Stops == {"idle", "load", "loop", "cancelling", "act", "model", "tools", "failing",
          "controlled", "expiring", "requesting", "settle"}
Causes == {"phase timeout", "recovery required", "orphaned effect", "event conflict",
           "duplicate result", "unanswered"}

MemoryTypeOK ==
  /\ policy \in Policies
  /\ saved \in Checkpoint
  /\ tape \in [Effects -> {"none", "intent"} \cup Endings]
  /\ reply \in [Iterations -> Replies \cup {NoReply}]
  /\ events \subseteq {"run:completed", "run:cancelled", "run:failed"}
  /\ pc \in [Workers -> Stops]
  /\ token \in [Workers -> 0 .. MaxAttempt]
  /\ mem \in [Workers -> Checkpoint]
  /\ calls \in [Workers -> [0 .. MaxTools -> Stages]]
  /\ cause \in [Workers -> Causes \cup {"none", "cancel", "deadline"}]
  /\ live \in [Effects -> Nat]
  /\ faults \in 0 .. MaxFaults

-----------------------------------------------------------------------------
(* Checkpoints, on the tape and in a worker's memory *)

After(c) == c.phase \in {"after_llm", "after_tool"}

\* How many tools of an iteration a checkpoint takes for done.
DoneOf(c, i) == IF i < c.iter THEN reply[i][2] ELSE IF After(c) THEN c.next - 1 ELSE 0

Backed(c) ==
  \A i \in Iterations : i < c.iter \/ (i = c.iter /\ After(c)) =>
    /\ tape[<<i, 0>>] \in Endings
    /\ DoneOf(c, i) \in 0 .. MaxTools
    /\ \A k \in 1 .. DoneOf(c, i) : \/ tape[<<i, k>>] \in Endings
                                    \/ intState[<<"input", <<i, k>>>>] = "allowed"

\* What a phase says of the rest of the checkpoint.
Shaped(c) ==
  /\ c.phase = "before_llm" \/ After(c) => c.iter < MaxIterations
  /\ ~After(c) => c.next = 1 /\ c.wait = "none"
  /\ c.wait = "approval" => <<c.iter, c.next>> \notin Inputs
  /\ c.phase = "terminal" => c = Terminal(c, c.result) /\ c.result \in Results

Sound(c) == Shaped(c) /\ Backed(c)
ContentSound == Sound(saved) /\ \A w \in Workers : Sound(mem[w])

-----------------------------------------------------------------------------
(* Workers *)

\* The calls a worker has under way belong to its checkpoint, and those it has
\* not made yet may be made.
CallsFit(w) ==
  /\ pc[w] \notin {"idle", "model", "tools", "failing"} => calls[w] = NoCalls
  /\ pc[w] = "model" =>
       mem[w].phase = "before_llm" /\ \A k \in 1 .. MaxTools : calls[w][k] = "none"
  /\ pc[w] = "tools" =>
       /\ After(mem[w])
       /\ \A k \in 1 .. MaxTools : calls[w][k] # "none" =>
            k >= mem[w].next /\ \A j \in mem[w].next .. k : calls[w][j] # "none"
  /\ \A k \in 0 .. MaxTools : calls[w][k] # "none" => mem[w].iter \in Iterations
  /\ \A k \in 0 .. MaxTools : calls[w][k] \in {"answered", "recovered", "done"} =>
       tape[<<mem[w].iter, k>>] \in Endings
  /\ \A k \in 1 .. MaxTools : calls[w][k] = "todo" =>
       LET slot == <<mem[w].iter, k>> IN
       slot \notin Inputs /\ (slot \in Approvals => intState[<<"approval", slot>>] = "allowed")

\* A terminal checkpoint is announced before it is settled, and only a worker
\* that has more to do fails.
StopFits(w) ==
  /\ pc[w] = "settle" => mem[w].phase = "terminal" /\ Announced(mem[w].result) \in events
  /\ pc[w] \in {"act", "model", "tools", "failing", "controlled"} => mem[w].phase # "terminal"
  /\ pc[w] = "failing" => cause[w] \in Causes

\* A claim belongs to one worker.
TokensDistinct ==
  \A w \in Workers :
    /\ token[w] <= attempt[Run]
    /\ \A u \in Workers : token[u] = token[w] /\ token[w] > 0 => u = w

\* The owner of the run remembers the newest checkpoint.
OwnerSynced ==
  \A w \in Workers :
    pc[w] \notin {"idle", "load"} /\ token[w] = attempt[Run] => mem[w] = saved

-----------------------------------------------------------------------------
(* The end of the run *)

FailedId == <<"run state", Run, "failed">>
Failures == {a \in audit : a[1] = FailedId}

\* A run that is not settled is not at its end, and one that failed for anything
\* else than its end is not either.
EndsAreSettled ==
  /\ state[Run] \in {"none", "pending", "waiting"} => saved.phase # "terminal"
  /\ state[Run] = "failed" /\ error[Run] # "agent termination" => saved.phase # "terminal"

\* The outbox holds one failure of a run at most: the one an operator has seen
\* is the one the run has.
FailuresAgree ==
  /\ \A a, b \in Failures : a[2] = b[2]
  /\ state[Run] = "failed" => \E a \in Failures : a[2][2] = error[Run]
  /\ \A o \in Operators : reopening[o] # NoCall =>
       \E a \in Failures : a[2][2] \in UncertainErrors

\* What has been executed is on the tape, once.
LiveOnTape == \A e \in Effects : live[e] <= 1 /\ (tape[e] = "none" => live[e] = 0)

RunInv ==
  /\ Control!IInv
  /\ MemoryTypeOK /\ ContentSound
  /\ \A w \in Workers : CallsFit(w) /\ StopFits(w)
  /\ TokensDistinct /\ OwnerSynced
  /\ EndsAreSettled /\ FailuresAgree /\ TerminalAgrees
  /\ LiveOnTape /\ ApprovedBeforeLive

-----------------------------------------------------------------------------
(* The control store *)

\* The two instances of the store are the same machine.
LEMMA SameStore ==
  /\ [Store!Next]_(Store!vars) <=> [Control!Next]_(Control!vars)
  /\ Store!Init <=> Control!Init
<1>1. [Store!Next]_(Store!vars) <=> [Control!Next]_(Control!vars)
  BY DEF
      Store!vars, Control!vars, Store!taskVars, Control!taskVars,
      Store!leaseVars, Control!leaseVars, Store!intVars, Control!intVars,
      Store!Next, Control!Next, Store!Tick, Control!Tick, Store!CreateTask,
      Control!CreateTask, Store!CancelTask, Control!CancelTask,
      Store!CreateRun, Control!CreateRun, Store!ClaimRun, Control!ClaimRun,
      Store!WorkerCall, Control!WorkerCall, Store!ResolveInterrupt,
      Control!ResolveInterrupt, Store!ReopenRead, Control!ReopenRead,
      Store!ReopenCommit, Control!ReopenCommit, Store!ReopenAbort,
      Control!ReopenAbort, Store!RequestCancel, Control!RequestCancel,
      Store!Stamp, Control!Stamp, Store!Token, Control!Token, Store!Errors,
      Control!Errors, Store!Claimable, Control!Claimable, Store!Admissible,
      Control!Admissible, Store!ActiveRuns, Control!ActiveRuns,
      Store!Active, Control!Active, Store!Record, Control!Record,
      Store!Agrees, Control!Agrees, Store!RenewLease, Control!RenewLease,
      Store!SaveCheckpoint, Control!SaveCheckpoint, Store!Suspend,
      Control!Suspend, Store!CompleteRun, Control!CompleteRun,
      Store!FailRun, Control!FailRun, Store!FinishCancelled,
      Control!FinishCancelled, Store!Advance, Control!Advance,
      Store!HoldsLease, Control!HoldsLease, Store!CheckpointEvent,
      Control!CheckpointEvent, Store!PendingInterrupts,
      Control!PendingInterrupts, Store!DropLease, Control!DropLease,
      Store!ResolvedRunState, Control!ResolvedRunState, Store!ResolvedEvent,
      Control!ResolvedEvent, Store!RunStateEvent, Control!RunStateEvent,
      Store!TaskStateEvent, Control!TaskStateEvent, Store!CancelEvent,
      Control!CancelEvent, Store!Settle, Control!Settle, Store!Completable,
      Control!Completable, Store!CancelActive, Control!CancelActive,
      Store!CancelActiveEvents, Control!CancelActiveEvents,
      Store!DenyPending, Control!DenyPending
<1>2. Store!Init <=> Control!Init
  BY DEF Store!Init, Control!Init
<1> QED
  BY <1>1, <1>2

\* What is proved of the store holds of the store of the runner.
LEMMA ControlStarts == Store!Init => Control!IInv
  BY SameStore, StoreConstants, Control!InitIInv
  DEF Store!StoreAssumption, Control!StoreAssumption

LEMMA ControlSteps == Control!IInv /\ [Store!Next]_(Store!vars) => Control!IInv'
  BY SameStore, StoreConstants, Control!NextIInv
  DEF Store!StoreAssumption, Control!StoreAssumption

LEMMA ControlKnows == Control!IInv => Store!TypeOK /\ Store!LeaseIffRunning
  BY DEF Control!IInv,
      Store!TypeOK, Control!TypeOK, Store!LeaseIffRunning,
      Control!LeaseIffRunning, Store!TaskStates, Control!TaskStates,
      Store!RunStates, Control!RunStates, Store!Token, Control!Token,
      Store!Errors, Control!Errors

LEMMA StoreTypes ==
  ASSUME Control!IInv
  PROVE  /\ now \in Nat
         /\ state \in [{Run} -> Store!RunStates]
         /\ attempt \in [{Run} -> 0 .. MaxAttempt] /\ version \in [{Run} -> 0 .. MaxVersion]
         /\ lease \in [{Run} -> 0 .. MaxAttempt] /\ cancelRequested \in [{Run} -> BOOLEAN]
         /\ error \in [{Run} -> Store!Errors \cup {NoError}]
         /\ intState \in [Interrupts -> {"none", "pending", "allowed", "denied"}]
         /\ reopening \in [Operators -> {NoCall} \cup [run : {Run}, attempt : 0 .. MaxAttempt]]
         /\ now \in Store!Stamp
<1>1. Store!TypeOK
  BY ControlKnows
<1>2. MaxLag \in Nat
  BY StoreConstants DEF Store!StoreAssumption
<1> QED
  BY <1>1, <1>2 DEF Store!TypeOK, Store!Stamp

\* Whoever writes to the run presents the token of its latest claim.
LEMMA WriterOwns ==
  ASSUME Control!IInv, NEW w \in Workers, NEW s, Store!HoldsLease(Run, token[w], s)
  PROVE  /\ state[Run] = "running" /\ token[w] = attempt[Run] /\ token[w] > 0
         /\ token[w] \in Store!Token
<1>1. Store!LeaseIffRunning /\ attempt[Run] \in 0 .. MaxAttempt
  BY ControlKnows, StoreTypes
<1> QED
  BY <1>1 DEF Store!LeaseIffRunning, Store!HoldsLease, Store!Token

-----------------------------------------------------------------------------
(* What the store's methods do to the end of the run *)

\* No method but fail_run tells of a failure.
LEMMA OtherEvents ==
  ASSUME NEW ev, Store!Record(ev), \A e \in ev : e[1] # FailedId
  PROVE  Failures' = Failures
  BY DEF Store!Record, Failures

LEMMA FailuresKept ==
  ASSUME FailuresAgree, Failures' = Failures, UNCHANGED reopening,
         state'[Run] = "failed" => state[Run] = "failed" /\ error'[Run] = error[Run]
  PROVE  FailuresAgree'
  BY DEF FailuresAgree

EndInv == EndsAreSettled /\ FailuresAgree /\ TerminalAgrees

\* Announcing changes nothing that was settled.
LEMMA EndQuiet ==
  ASSUME EndInv, UNCHANGED <<state, error, audit, reopening, saved>>, events \subseteq events'
  PROVE  EndInv'
<1> USE DEF EndInv
<1>1. Failures' = Failures
  BY DEF Failures
<1>2. EndsAreSettled' /\ FailuresAgree'
  BY <1>1, FailuresKept DEF EndsAreSettled
<1>3. TerminalAgrees'
  BY DEF TerminalAgrees, Terminal
<1> QED
  BY <1>2, <1>3

\* A running run has no end yet.
LEMMA EndRunning ==
  ASSUME FailuresAgree, state'[Run] = "running", Failures' = Failures, UNCHANGED reopening
  PROVE  EndInv'
<1>1. FailuresAgree'
  BY FailuresKept
<1>2. EndsAreSettled' /\ TerminalAgrees'
  BY DEF EndsAreSettled, TerminalAgrees
<1> QED
  BY <1>1, <1>2 DEF EndInv

\* A run that is cancelled before anybody owns it is not at its end.
LEMMA CancelIs ==
  ASSUME Control!IInv, EndInv, Store!CancelActive(Run), UNCHANGED <<saved, reopening, error>>,
         Failures' = Failures, events \subseteq events'
  PROVE  EndInv' /\ attempt' = attempt
         /\ \A x \in Interrupts : intState[x] = "allowed" => intState'[x] = "allowed"
<1> USE DEF EndInv
<1>1. CASE state[Run] = "running" /\ UNCHANGED <<state, attempt, intState>>
  BY <1>1, EndRunning
<1>2. CASE /\ state[Run] \in {"pending", "waiting"}
           /\ state' = [state EXCEPT ![Run] = "cancelled"] /\ UNCHANGED attempt
           /\ Store!DenyPending(Run)
  <2>1. state'[Run] = "cancelled" /\ saved'.phase # "terminal"
    BY <1>2, StoreTypes DEF EndsAreSettled
  <2>2. FailuresAgree'
    BY <2>1, FailuresKept
  <2>3. EndsAreSettled' /\ TerminalAgrees'
    BY <2>1 DEF EndsAreSettled, TerminalAgrees
  <2>4. \A x \in Interrupts : intState[x] = "allowed" => intState'[x] = "allowed"
    BY <1>2 DEF Store!DenyPending, Store!PendingInterrupts
  <2> QED
    BY <1>2, <2>2, <2>3, <2>4
<1> QED
  BY <1>1, <1>2 DEF Store!CancelActive, Store!DropLease, Store!leaseVars

\* The events of a cancellation are not failures.
LEMMA CancelEventsAre ==
  /\ \A e \in Store!CancelActiveEvents(Run) : e[1] # FailedId
  /\ \A s : Store!TaskStateEvent(Task, s)[1] # FailedId
<1>1. FailedId[1] = "run state" /\ FailedId[3] = "failed"
  BY DEF FailedId
<1>2. \A s : Store!TaskStateEvent(Task, s)[1] # FailedId
  <2>1. \A s : Store!TaskStateEvent(Task, s)[1][1] = "task state"
    BY DEF Store!TaskStateEvent
  <2> QED
    BY <1>1, <2>1
<1>3. ASSUME NEW e \in Store!CancelActiveEvents(Run) PROVE e[1] # FailedId
  <2>1. CASE e = Store!CancelEvent(Run)
    <3>1. e[1][1] = "cancel requested"
      BY <2>1 DEF Store!CancelEvent
    <3> QED
      BY <1>1, <3>1
  <2>2. CASE e = Store!RunStateEvent(Run, "cancelled", NoError)
    <3>1. e[1][3] = "cancelled"
      BY <2>2 DEF Store!RunStateEvent
    <3> QED
      BY <1>1, <3>1
  <2>3. CASE \E i \in Store!PendingInterrupts(Run) : e = Store!ResolvedEvent(i, "denied")
    <3>1. PICK i \in Store!PendingInterrupts(Run) : e = Store!ResolvedEvent(i, "denied")
      BY <2>3
    <3>2. e[1][1] = "interrupt resolved"
      BY <3>1 DEF Store!ResolvedEvent
    <3> QED
      BY <1>1, <3>2
  <2> QED
    BY <2>1, <2>2, <2>3 DEF Store!CancelActiveEvents
<1> QED
  BY <1>2, <1>3

\* What an operator, an approver, a user or the clock does.
LEMMA OutsideKeepsEnd ==
  ASSUME Control!IInv, EndInv, Outside
  PROVE  /\ [Store!Next]_(Store!vars) /\ EndInv' /\ attempt' = attempt
         /\ \A x \in Interrupts : intState[x] = "allowed" => intState'[x] = "allowed"
<1> DEFINE Goal == /\ [Store!Next]_(Store!vars) /\ EndInv' /\ attempt' = attempt
                   /\ \A x \in Interrupts : intState[x] = "allowed" => intState'[x] = "allowed"
<1>a. FailedId[1] = "run state" /\ FailedId[3] = "failed"
  BY DEF FailedId
<1>b. UNCHANGED <<saved, events>>
  BY DEF Outside, LeaveWorkers
<1>c. state[Run] \in Store!RunStates /\ state \in [{Run} -> Store!RunStates]
  BY StoreTypes
<1>1. CASE Store!Tick
  <2>1. UNCHANGED <<state, error, audit, reopening, attempt, intState>>
    BY <1>1 DEF Store!Tick, Store!leaseVars, Store!intVars
  <2> QED
    BY <1>1, <1>b, <2>1, EndQuiet DEF Store!Next
<1>2. CASE Store!CreateTask(Task)
  <2>1. UNCHANGED <<state, error, reopening, attempt, intState>>
    BY <1>2 DEF Store!CreateTask, Store!leaseVars, Store!intVars
  <2>2. Failures' = Failures
    <3> DEFINE ev == <<<<"task created", Task>>, Task>>
    <3>1. Store!Record({ev})
      BY <1>2 DEF Store!CreateTask
    <3>2. ev[1][1] = "task created"
      OBVIOUS
    <3> HIDE DEF ev
    <3> QED
      BY <1>a, <3>1, <3>2, OtherEvents
  <2>3. FailuresAgree' /\ EndsAreSettled' /\ TerminalAgrees'
    BY <1>b, <2>1, <2>2, FailuresKept DEF EndInv, EndsAreSettled, TerminalAgrees, Terminal
  <2> QED
    BY <1>2, <2>1, <2>3 DEF EndInv, Store!Next
<1>3. CASE Store!CreateRun(Run, Task)
  <2>1. /\ state[Run] = "none" /\ state' = [state EXCEPT ![Run] = "pending"]
        /\ UNCHANGED <<error, reopening, attempt, intState>>
    BY <1>3 DEF Store!CreateRun, Store!leaseVars, Store!intVars
  <2>2. Failures' = Failures
    <3> DEFINE ev == <<<<"run created", Run>>, Task>>
    <3>1. Store!Record({ev})
      BY <1>3 DEF Store!CreateRun
    <3>2. ev[1][1] = "run created"
      OBVIOUS
    <3> HIDE DEF ev
    <3> QED
      BY <1>a, <3>1, <3>2, OtherEvents
  <2>3. state'[Run] = "pending"
    BY <1>c, <2>1
  <2>4. FailuresAgree' /\ EndsAreSettled' /\ TerminalAgrees'
    BY <1>b, <2>1, <2>2, <2>3, FailuresKept DEF EndInv, EndsAreSettled, TerminalAgrees
  <2> QED
    BY <1>3, <2>1, <2>4 DEF EndInv, Store!Next
<1>4. CASE Store!RequestCancel(Run)
  <2>1. Store!CancelActive(Run) /\ UNCHANGED <<error, reopening>>
    BY <1>4 DEF Store!RequestCancel
  <2>2. Failures' = Failures
    BY <1>4, CancelEventsAre, OtherEvents DEF Store!RequestCancel
  <2> QED
    BY <1>4, <1>b, <2>1, <2>2, CancelIs DEF Store!Next
<1>5. CASE Store!CancelTask(Task)
  <2>1. UNCHANGED <<error, reopening>>
    BY <1>5 DEF Store!CancelTask
  <2>2. CASE /\ Store!Record({Store!TaskStateEvent(Task, "cancelled")})
             /\ UNCHANGED <<state, attempt, intState>>
    <3>1. Failures' = Failures
      BY <2>2, CancelEventsAre, OtherEvents
    <3>2. FailuresAgree' /\ EndsAreSettled' /\ TerminalAgrees'
      BY <1>b, <2>1, <2>2, <3>1, FailuresKept DEF EndInv, EndsAreSettled, TerminalAgrees, Terminal
    <3> QED
      BY <1>5, <2>2, <3>2 DEF EndInv, Store!Next
  <2>3. CASE /\ Store!CancelActive(Run)
             /\ Store!Record(Store!CancelActiveEvents(Run) \cup
                             {Store!TaskStateEvent(Task, "cancelled")})
    <3>1. Failures' = Failures
      BY <2>3, CancelEventsAre, OtherEvents
    <3> QED
      BY <1>5, <1>b, <2>1, <2>3, <3>1, CancelIs DEF Store!Next
  <2> QED
    BY <1>5, <2>2, <2>3 DEF Store!CancelTask, Store!ActiveRuns, Store!leaseVars
<1>6. ASSUME NEW i \in Interrupts, NEW allow \in BOOLEAN, Store!ResolveInterrupt(i, allow)
      PROVE  Goal
  <2> DEFINE target == IF allow THEN "allowed" ELSE "denied"
  <2>1. /\ state[intRun[i]] = "waiting" /\ intState[i] = "pending"
        /\ state' = [state EXCEPT ![intRun[i]] = Store!ResolvedRunState(target)]
        /\ intState' = [intState EXCEPT ![i] = target]
        /\ UNCHANGED <<error, reopening, attempt>>
    BY <1>6 DEF Store!ResolveInterrupt, Store!leaseVars
  <2>2. Failures' = Failures
    <3>1. Store!ResolvedEvent(i, target)[1] # FailedId
      <4>1. Store!ResolvedEvent(i, target)[1][1] = "interrupt resolved"
        BY DEF Store!ResolvedEvent
      <4> QED
        BY <1>a, <4>1
    <3>2. Store!RunStateEvent(intRun[i], "cancelled", NoError)[1] # FailedId
      <4>1. Store!RunStateEvent(intRun[i], "cancelled", NoError)[1][3] = "cancelled"
        BY DEF Store!RunStateEvent
      <4> QED
        BY <1>a, <4>1
    <3> DEFINE ev == {Store!ResolvedEvent(i, target)} \cup
                     IF allow THEN {}
                     ELSE {Store!RunStateEvent(intRun[i], "cancelled", NoError)}
    <3>3. Store!Record(ev)
      BY <1>6 DEF Store!ResolveInterrupt
    <3>4. \A e \in ev : e[1] # FailedId
      BY <3>1, <3>2
    <3> HIDE DEF ev
    <3> QED
      BY <3>3, <3>4, OtherEvents
  <2>3. state'[Run] = state[Run] \/ (state[Run] = "waiting" /\ state'[Run] \in {"pending", "cancelled"})
    BY <1>c, <2>1 DEF Store!ResolvedRunState
  <2>4. FailuresAgree' /\ EndsAreSettled' /\ TerminalAgrees'
    BY <1>b, <2>1, <2>2, <2>3, FailuresKept DEF EndInv, EndsAreSettled, TerminalAgrees, Terminal
  <2>5. \A x \in Interrupts : intState[x] = "allowed" => intState'[x] = "allowed"
    BY <2>1, StoreTypes
  <2> QED
    BY <1>6, <2>1, <2>4, <2>5 DEF EndInv, Store!Next
<1>7. ASSUME NEW o \in Operators, Store!ReopenRead(o, Run) PROVE Goal
  <2>1. /\ state[Run] = "failed" /\ error[Run] \in UncertainErrors
        /\ \A q \in Operators : q # o => reopening'[q] = reopening[q]
        /\ UNCHANGED <<state, error, audit, attempt, intState>>
    BY <1>7, StoreTypes DEF Store!ReopenRead, Store!leaseVars, Store!intVars
  <2>2. Failures' = Failures /\ \E a \in Failures : a[2][2] \in UncertainErrors
    BY <2>1 DEF Failures, EndInv, FailuresAgree
  <2>3. FailuresAgree'
    BY <2>1, <2>2 DEF EndInv, FailuresAgree
  <2>4. EndsAreSettled' /\ TerminalAgrees'
    BY <1>b, <2>1 DEF EndInv, EndsAreSettled, TerminalAgrees, Terminal
  <2> QED
    BY <1>7, <2>1, <2>3, <2>4 DEF EndInv, Store!Next
<1>8. ASSUME NEW o \in Operators, NEW evidence \in Evidence, Store!ReopenCommit(o, evidence)
      PROVE  Goal
  <2>1. /\ reopening[o] # NoCall /\ reopening[o].run = Run
        /\ state[Run] = "failed" /\ state' = [state EXCEPT ![Run] = "pending"]
        /\ error' = [error EXCEPT ![Run] = NoError]
        /\ reopening' = [reopening EXCEPT ![o] = NoCall]
        /\ UNCHANGED <<attempt, intState>>
    <3>1. reopening[o] # NoCall /\ reopening[o] \in {NoCall} \cup [run : {Run}, attempt : 0 .. MaxAttempt]
      BY <1>8, StoreTypes DEF Store!ReopenCommit
    <3>2. reopening[o].run = Run
      BY <3>1
    <3> QED
      BY <1>8, <3>1, <3>2 DEF Store!ReopenCommit, Store!leaseVars, Store!intVars
  <2>2. error[Run] \in UncertainErrors
    BY <2>1 DEF EndInv, FailuresAgree
  <2>3. saved.phase # "terminal"
    BY <2>1, <2>2 DEF EndInv, EndsAreSettled, UncertainErrors
  <2>4. Failures' = Failures
    <3> DEFINE ev == <<<<"run reopened", reopening[o].run, reopening[o].attempt>>, evidence>>
    <3>1. Store!Record({ev})
      BY <1>8 DEF Store!ReopenCommit
    <3>2. ev[1][1] = "run reopened"
      OBVIOUS
    <3> HIDE DEF ev
    <3> QED
      BY <1>a, <3>1, <3>2, OtherEvents
  <2>5. state'[Run] = "pending"
    BY <1>c, <2>1
  <2>6. FailuresAgree'
    BY <2>1, <2>4, <2>5, StoreTypes DEF EndInv, FailuresAgree
  <2>7. EndsAreSettled' /\ TerminalAgrees'
    BY <1>b, <2>3, <2>5 DEF EndsAreSettled, TerminalAgrees
  <2> QED
    BY <1>8, <2>1, <2>6, <2>7 DEF EndInv, Store!Next
<1> QED
  BY <1>1, <1>2, <1>3, <1>4, <1>5, <1>6, <1>7, <1>8 DEF Outside

-----------------------------------------------------------------------------
(* What a worker's calls do to the store *)

LEMMA CallIsAStep ==
  ASSUME Control!IInv, NEW w \in Workers, NEW s \in Store!Stamp,
         Store!HoldsLease(Run, token[w], s), Store!WorkerCall(Run, token[w], s)
  PROVE  [Store!Next]_(Store!vars)
  BY WriterOwns DEF Store!Next

LEMMA ClaimIs ==
  ASSUME Control!IInv, EndInv, NEW s \in Store!Stamp, Store!ClaimRun(Run, s)
  PROVE  /\ [Store!Next]_(Store!vars) /\ EndInv'
         /\ intState' = intState
         /\ attempt' \in [{Run} -> 0 .. MaxAttempt] /\ attempt'[Run] = attempt[Run] + 1
<1>1. /\ state' = [state EXCEPT ![Run] = "running"]
      /\ attempt' = [attempt EXCEPT ![Run] = @ + 1] /\ attempt[Run] < MaxAttempt
      /\ UNCHANGED <<intState, reopening>>
  BY DEF Store!ClaimRun, Store!intVars
<1>2. Failures' = Failures
  <2> DEFINE ev == <<<<"run claimed", Run, attempt[Run] + 1>>, Run>>
  <2>1. Store!Record({ev})
    BY DEF Store!ClaimRun
  <2>2. ev[1][1] = "run claimed" /\ FailedId[1] = "run state"
    BY DEF FailedId
  <2> HIDE DEF ev
  <2> QED
    BY <2>1, <2>2, OtherEvents
<1>3. state'[Run] = "running"
  BY <1>1, StoreTypes
<1>4. EndInv'
  BY <1>1, <1>2, <1>3, EndRunning DEF EndInv
<1>5. attempt' \in [{Run} -> 0 .. MaxAttempt] /\ attempt'[Run] = attempt[Run] + 1
  <2>1. MaxAttempt \in Nat
    BY StoreConstants DEF Store!StoreAssumption
  <2>2. attempt \in [{Run} -> 0 .. MaxAttempt]
    BY StoreTypes
  <2> QED
    BY <1>1, <2>1, <2>2
<1> QED
  BY <1>1, <1>4, <1>5 DEF Store!Next

\* A heartbeat and a checkpoint leave the run running.
LEMMA RenewIs ==
  ASSUME Control!IInv, EndInv, NEW w \in Workers, NEW s \in Store!Stamp,
         Store!RenewLease(Run, token[w], s)
  PROVE  [Store!Next]_(Store!vars) /\ EndInv' /\ UNCHANGED <<attempt, intState>>
<1>1. /\ Store!HoldsLease(Run, token[w], s)
      /\ UNCHANGED <<state, attempt, intState, reopening>>
  BY DEF Store!RenewLease, Store!intVars
<1>2. Failures' = Failures
  <2> DEFINE ev == <<<<"lease renewed", Run, attempt[Run]>>, Run>>
  <2>1. Store!Record({ev})
    BY DEF Store!RenewLease
  <2>2. ev[1][1] = "lease renewed" /\ FailedId[1] = "run state"
    BY DEF FailedId
  <2> HIDE DEF ev
  <2> QED
    BY <2>1, <2>2, OtherEvents
<1>3. state'[Run] = "running"
  BY <1>1, WriterOwns
<1>4. EndInv'
  BY <1>1, <1>2, <1>3, EndRunning DEF EndInv
<1> QED
  BY <1>1, <1>4, CallIsAStep DEF Store!WorkerCall

LEMMA SaveIs ==
  ASSUME Control!IInv, EndInv, NEW w \in Workers, NEW s \in Store!Stamp,
         Store!SaveCheckpoint(Run, token[w], ver[w], s)
  PROVE  /\ [Store!Next]_(Store!vars) /\ EndInv' /\ UNCHANGED <<attempt, intState>>
         /\ token[w] = attempt[Run] /\ token[w] > 0
<1>1. /\ Store!HoldsLease(Run, token[w], s) /\ ver[w] = version[Run]
      /\ UNCHANGED <<state, attempt, intState, reopening>>
  BY DEF Store!SaveCheckpoint, Store!Advance, Store!intVars, Store!leaseVars
<1>2. Failures' = Failures
  <2> DEFINE ev == Store!CheckpointEvent(Run, ver[w] + 1)
  <2>1. Store!Record({ev})
    BY DEF Store!SaveCheckpoint
  <2>2. ev[1][1] = "checkpoint" /\ FailedId[1] = "run state"
    BY DEF FailedId, Store!CheckpointEvent
  <2> HIDE DEF ev
  <2> QED
    BY <2>1, <2>2, OtherEvents
<1>3. state'[Run] = "running" /\ token[w] = attempt[Run] /\ token[w] > 0
  BY <1>1, WriterOwns
<1>4. EndInv'
  BY <1>1, <1>2, <1>3, EndRunning DEF EndInv
<1>5. Store!WorkerCall(Run, token[w], s)
  <2>1. ver[w] \in 0 .. MaxVersion
    BY <1>1, StoreTypes
  <2> QED
    BY <2>1 DEF Store!WorkerCall
<1> QED
  BY <1>1, <1>3, <1>4, <1>5, CallIsAStep

\* A run is suspended with a checkpoint that has more to do.
LEMMA SuspendIs ==
  ASSUME Control!IInv, EndInv, NEW w \in Workers, NEW s \in Store!Stamp, NEW i \in Interrupts,
         Store!Suspend(Run, token[w], ver[w], i, s), saved'.phase # "terminal"
  PROVE  /\ [Store!Next]_(Store!vars) /\ EndInv' /\ UNCHANGED attempt
         /\ \A x \in Interrupts : intState[x] = "allowed" => intState'[x] = "allowed"
         /\ token[w] = attempt[Run] /\ token[w] > 0
<1>1. /\ Store!HoldsLease(Run, token[w], s) /\ ver[w] = version[Run]
      /\ state' = [state EXCEPT ![Run] = "waiting"]
      /\ intState[i] = "none" /\ intState' = [intState EXCEPT ![i] = "pending"]
      /\ UNCHANGED <<attempt, reopening>>
  BY DEF Store!Suspend, Store!Advance, Store!DropLease
<1>2. Failures' = Failures
  <2> DEFINE e == Store!CheckpointEvent(Run, ver[w] + 1)
             d == <<<<"interrupt requested", i>>, Run>>
  <2>1. Store!Record({e, d})
    BY DEF Store!Suspend
  <2>2. e[1][1] = "checkpoint" /\ d[1][1] = "interrupt requested" /\ FailedId[1] = "run state"
    BY DEF FailedId, Store!CheckpointEvent
  <2> HIDE DEF e, d
  <2>3. \A x \in {e, d} : x[1] # FailedId
    BY <2>2
  <2> QED
    BY <2>1, <2>3, OtherEvents
<1>3. state'[Run] = "waiting" /\ token[w] = attempt[Run] /\ token[w] > 0
  BY <1>1, WriterOwns, StoreTypes
<1>4. FailuresAgree'
  BY <1>1, <1>2, <1>3, FailuresKept DEF EndInv
<1>5. EndsAreSettled' /\ TerminalAgrees'
  BY <1>3 DEF EndsAreSettled, TerminalAgrees
<1>6. Store!WorkerCall(Run, token[w], s)
  <2>1. ver[w] \in 0 .. MaxVersion
    BY <1>1, StoreTypes
  <2> QED
    BY <2>1 DEF Store!WorkerCall
<1>7. \A x \in Interrupts : intState[x] = "allowed" => intState'[x] = "allowed"
  BY <1>1, StoreTypes
<1> QED
  BY <1>1, <1>3, <1>4, <1>5, <1>6, <1>7, CallIsAStep DEF EndInv

\* A run is settled with the checkpoint its owner holds.
LEMMA CompletedIs ==
  ASSUME Control!IInv, EndInv, NEW w \in Workers, NEW s \in Store!Stamp,
         Store!CompleteRun(Run, token[w], s), UNCHANGED <<saved, events>>,
         saved = Terminal(saved, "natural"), "run:completed" \in events
  PROVE  [Store!Next]_(Store!vars) /\ EndInv' /\ UNCHANGED <<attempt, intState>>
<1>1. /\ Store!HoldsLease(Run, token[w], s) /\ state' = [state EXCEPT ![Run] = "completed"]
      /\ UNCHANGED <<attempt, intState, reopening>>
  BY DEF Store!CompleteRun, Store!Settle, Store!DropLease, Store!intVars
<1>2. Failures' = Failures
  <2> DEFINE e == Store!RunStateEvent(Run, "completed", NoError)
             d == Store!TaskStateEvent(taskOf[Run], "completed")
  <2>1. Store!Record({e, d})
    BY DEF Store!CompleteRun
  <2>2. e[1][3] = "completed" /\ d[1][1] = "task state"
        /\ FailedId[1] = "run state" /\ FailedId[3] = "failed"
    BY DEF FailedId, Store!RunStateEvent, Store!TaskStateEvent
  <2> HIDE DEF e, d
  <2>3. \A x \in {e, d} : x[1] # FailedId
    BY <2>2
  <2> QED
    BY <2>1, <2>3, OtherEvents
<1>3. state'[Run] = "completed"
  BY <1>1, StoreTypes
<1>4. FailuresAgree'
  BY <1>1, <1>2, <1>3, FailuresKept DEF EndInv
<1>5. EndsAreSettled' /\ TerminalAgrees'
  BY <1>3 DEF EndsAreSettled, TerminalAgrees, Terminal
<1> QED
  BY <1>1, <1>4, <1>5, CallIsAStep DEF EndInv, Store!WorkerCall

LEMMA CancelledIs ==
  ASSUME Control!IInv, EndInv, NEW w \in Workers, NEW s \in Store!Stamp,
         Store!FinishCancelled(Run, token[w], s), UNCHANGED <<saved, events>>,
         saved.result = "cancelled", "run:cancelled" \in events
  PROVE  [Store!Next]_(Store!vars) /\ EndInv' /\ UNCHANGED <<attempt, intState>>
<1>1. /\ Store!HoldsLease(Run, token[w], s) /\ state' = [state EXCEPT ![Run] = "cancelled"]
      /\ UNCHANGED <<attempt, intState, reopening>>
  BY DEF Store!FinishCancelled, Store!Settle, Store!DropLease, Store!intVars
<1>2. Failures' = Failures
  <2> DEFINE e == Store!RunStateEvent(Run, "cancelled", NoError)
  <2>1. Store!Record({e})
    BY DEF Store!FinishCancelled
  <2>2. e[1][3] = "cancelled" /\ FailedId[3] = "failed"
    BY DEF FailedId, Store!RunStateEvent
  <2> HIDE DEF e
  <2> QED
    BY <2>1, <2>2, OtherEvents
<1>3. state'[Run] = "cancelled"
  BY <1>1, StoreTypes
<1>4. FailuresAgree'
  BY <1>1, <1>2, <1>3, FailuresKept DEF EndInv
<1>5. EndsAreSettled' /\ TerminalAgrees'
  BY <1>3 DEF EndsAreSettled, TerminalAgrees
<1> QED
  BY <1>1, <1>4, <1>5, CallIsAStep DEF EndInv, Store!WorkerCall

\* A run fails at its end with the termination, elsewhere with something else;
\* a failure that disagrees with an earlier one is not recorded at all.
LEMMA FailedIs ==
  ASSUME Control!IInv, EndInv, NEW w \in Workers, NEW s \in Store!Stamp,
         NEW e \in UncertainErrors \cup OtherErrors,
         Store!FailRun(Run, token[w], e, s), UNCHANGED saved, events \subseteq events',
         IF e = "agent termination" THEN saved = Terminal(saved, "stopped")
         ELSE saved.phase # "terminal"
  PROVE  [Store!Next]_(Store!vars) /\ EndInv' /\ UNCHANGED <<attempt, intState>>
<1> DEFINE x == Store!RunStateEvent(Run, "failed", e)
<1>1. /\ Store!HoldsLease(Run, token[w], s) /\ state' = [state EXCEPT ![Run] = "failed"]
      /\ error' = [error EXCEPT ![Run] = e]
      /\ UNCHANGED <<attempt, intState, reopening>>
  BY DEF Store!FailRun, Store!Settle, Store!DropLease, Store!intVars
<1>2. state'[Run] = "failed" /\ error'[Run] = e
  BY <1>1, StoreTypes
<1>3. x[1] = FailedId /\ x[2][2] = e
  BY DEF FailedId, Store!RunStateEvent
<1>4. audit' = audit \cup {x} /\ \A a \in audit : a[1] = x[1] => a[2] = x[2]
  BY DEF Store!FailRun, Store!Record, Store!Agrees
<1> HIDE DEF x
<1>5. Failures' = Failures \cup {x} /\ \A a \in Failures : a[2] = x[2]
  BY <1>3, <1>4 DEF Failures
<1>6. FailuresAgree'
  BY <1>1, <1>2, <1>3, <1>5 DEF EndInv, FailuresAgree
<1>7. EndsAreSettled' /\ TerminalAgrees'
  BY <1>2 DEF EndsAreSettled, TerminalAgrees, Terminal
<1>8. e \in Store!Errors
  BY DEF Store!Errors
<1> QED
  BY <1>1, <1>6, <1>7, <1>8, CallIsAStep DEF EndInv, Store!WorkerCall

-----------------------------------------------------------------------------
(* What a step leaves of the rest *)

\* What is recorded stays: an ended effect, the reply of an ended model call, an
\* allowance, an announcement.
Grows ==
  /\ \A e \in Effects : tape[e] \in Endings => tape'[e] = tape[e]
  /\ \A i \in Iterations : tape[<<i, 0>>] \in Endings => reply'[i] = reply[i]
  /\ \A x \in Interrupts : intState[x] = "allowed" => intState'[x] = "allowed"
  /\ events \subseteq events'
  /\ policy' = policy

\* The step is another worker's.
Untouched(u) ==
  pc'[u] = pc[u] /\ mem'[u] = mem[u] /\ calls'[u] = calls[u] /\ cause'[u] = cause[u]

LEMMA Bounds ==
  /\ MaxIterations \in Nat /\ MaxTools \in Nat /\ MaxParallel \in Nat /\ MaxFaults \in Nat
  /\ \A p \in Policies : p.approvals \cup p.inputs \subseteq Slots
  BY RunnerAssumption DEF Slots, Iterations

\* A checkpoint that was right remains right.
LEMMA SoundKept ==
  ASSUME MemoryTypeOK, Grows, NEW c \in Checkpoint, Sound(c)
  PROVE  Sound(c)'
<1>1. Shaped(c)'
  BY DEF Sound, Shaped, After, Grows, Inputs, Terminal
<1>2. ASSUME NEW i \in Iterations, i < c.iter \/ (i = c.iter /\ After(c))
      PROVE  /\ tape'[<<i, 0>>] \in Endings
             /\ DoneOf(c, i)' \in 0 .. MaxTools
             /\ \A k \in 1 .. DoneOf(c, i)' : \/ tape'[<<i, k>>] \in Endings
                                              \/ intState'[<<"input", <<i, k>>>>] = "allowed"
  <2>1. /\ tape[<<i, 0>>] \in Endings /\ DoneOf(c, i) \in 0 .. MaxTools
        /\ \A k \in 1 .. DoneOf(c, i) : \/ tape[<<i, k>>] \in Endings
                                        \/ intState[<<"input", <<i, k>>>>] = "allowed"
    BY <1>2 DEF Sound, Backed
  <2>2. <<i, 0>> \in Effects
    BY Bounds DEF Effects
  <2>3. tape'[<<i, 0>>] \in Endings /\ DoneOf(c, i)' = DoneOf(c, i)
    BY <2>1, <2>2 DEF Grows, DoneOf, After
  <2>4. ASSUME NEW k \in 1 .. DoneOf(c, i)
        PROVE  \/ tape'[<<i, k>>] \in Endings
               \/ intState'[<<"input", <<i, k>>>>] = "allowed"
    <3>1. k \in 1 .. MaxTools
      BY <2>1, Bounds
    <3>2. <<i, k>> \in Effects /\ <<"input", <<i, k>>>> \in Interrupts
      BY <3>1 DEF Effects, Interrupts, Slots
    <3> QED
      BY <2>1, <2>4, <3>2 DEF Grows
  <2> QED
    BY <2>1, <2>3, <2>4
<1>3. Backed(c)'
  BY <1>2 DEF Backed, After, DoneOf
<1> QED
  BY <1>1, <1>3 DEF Sound

LEMMA UntouchedFits ==
  ASSUME MemoryTypeOK, Grows, NEW u \in Workers, Untouched(u), Sound(mem[u]),
         CallsFit(u), StopFits(u)
  PROVE  CallsFit(u)' /\ StopFits(u)' /\ Sound(mem[u])'
<1>1. CallsFit(u)'
  <2>1. /\ pc'[u] \notin {"idle", "model", "tools", "failing"} => calls'[u] = NoCalls
        /\ pc'[u] = "model" =>
             mem'[u].phase = "before_llm" /\ \A k \in 1 .. MaxTools : calls'[u][k] = "none"
        /\ pc'[u] = "tools" =>
             /\ After(mem'[u])
             /\ \A k \in 1 .. MaxTools : calls'[u][k] # "none" =>
                  k >= mem'[u].next /\ \A j \in mem'[u].next .. k : calls'[u][j] # "none"
        /\ \A k \in 0 .. MaxTools : calls'[u][k] # "none" => mem'[u].iter \in Iterations
    BY DEF CallsFit, Untouched, After
  <2>2. ASSUME NEW k \in 0 .. MaxTools, calls'[u][k] \in {"answered", "recovered", "done"}
        PROVE  tape'[<<mem'[u].iter, k>>] \in Endings
    <3>1. calls[u][k] \in {"answered", "recovered", "done"} /\ calls[u][k] # "none"
      BY <2>2 DEF Untouched
    <3>2. <<mem[u].iter, k>> \in Effects /\ tape[<<mem[u].iter, k>>] \in Endings
      BY <3>1 DEF CallsFit, Effects
    <3> QED
      BY <3>2 DEF Grows, Untouched
  <2>3. ASSUME NEW k \in 1 .. MaxTools, calls'[u][k] = "todo"
        PROVE  LET slot == <<mem'[u].iter, k>> IN
               slot \notin Inputs' /\ (slot \in Approvals' => intState'[<<"approval", slot>>] = "allowed")
    <3>1. calls[u][k] = "todo" /\ k \in 0 .. MaxTools
      BY <2>3, Bounds DEF Untouched
    <3>2. mem[u].iter \in Iterations
      BY <3>1 DEF CallsFit
    <3>3. <<"approval", <<mem[u].iter, k>>>> \in Interrupts
      BY <3>2 DEF Interrupts, Slots
    <3> QED
      BY <3>1, <3>3, <2>3 DEF Grows, Untouched, CallsFit, Inputs, Approvals
  <2> QED
    BY <2>1, <2>2, <2>3 DEF CallsFit, NoCalls, After
<1>2. StopFits(u)'
  BY DEF StopFits, Untouched, Grows, Announced
<1>3. Sound(mem[u])'
  <2>1. PICK c \in Checkpoint : c = mem[u]
    BY DEF MemoryTypeOK
  <2>2. Sound(c)'
    BY <2>1, SoundKept
  <2>3. c = mem'[u]
    BY <2>1 DEF Untouched
  <2> QED
    BY <2>2, <2>3 DEF Sound, Shaped, Backed, DoneOf, After
<1> QED
  BY <1>1, <1>2, <1>3

\* A step that executes nothing.
LEMMA LiveKept ==
  ASSUME MemoryTypeOK, LiveOnTape, ApprovedBeforeLive, Grows, UNCHANGED live,
         \A e \in Effects : tape'[e] = "none" => tape[e] = "none"
  PROVE  LiveOnTape' /\ ApprovedBeforeLive'
<1>1. LiveOnTape'
  BY DEF LiveOnTape
<1>2. \A e \in Slots : <<"approval", e>> \in Interrupts
  BY DEF Interrupts
<1> QED
  BY <1>1, <1>2 DEF ApprovedBeforeLive, Grows, Inputs, Approvals

\* Who owns the run has its newest checkpoint, if nobody else writes one.
LEMMA OwnersKept ==
  ASSUME RunInv, NEW w \in Workers, \A u \in Workers \ {w} : Untouched(u),
         UNCHANGED <<token, attempt>>,
         saved' = saved \/ (token[w] = attempt[Run] /\ token[w] > 0),
         pc'[w] \notin {"idle", "load"} /\ token[w] = attempt[Run] => mem'[w] = saved'
  PROVE  TokensDistinct' /\ OwnerSynced'
<1>1. TokensDistinct'
  BY DEF RunInv, TokensDistinct
<1>2. ASSUME NEW u \in Workers, pc'[u] \notin {"idle", "load"}, token[u] = attempt[Run]
      PROVE  mem'[u] = saved'
  <2>1. CASE u = w
    BY <1>2, <2>1
  <2>2. CASE u # w
    <3>1. pc'[u] = pc[u] /\ mem'[u] = mem[u]
      BY <2>2 DEF Untouched
    <3>2. mem[u] = saved
      BY <1>2, <3>1 DEF RunInv, OwnerSynced
    <3>3. saved' = saved
      BY <1>2, <2>2 DEF RunInv, TokensDistinct
    <3> QED
      BY <3>1, <3>2, <3>3
  <2> QED
    BY <2>1, <2>2
<1>3. OwnerSynced'
  BY <1>2 DEF OwnerSynced
<1> QED
  BY <1>1, <1>3

\* What is to be shown of every step.
Kept == RunInv' /\ [Store!Next]_(Store!vars)

LEMMA SoundAt ==
  ASSUME NEW c, Sound(c)'
  PROVE  /\ \A u \in Workers : mem'[u] = c => Sound(mem[u])'
         /\ saved' = c => Sound(saved)'
  BY DEF Sound, Shaped, Backed, DoneOf, After

\* A step of one worker.
LEMMA WorkerStep ==
  ASSUME RunInv, NEW w \in Workers, \A u \in Workers \ {w} : Untouched(u),
         [Store!Next]_(Store!vars), EndInv', Grows, MemoryTypeOK',
         UNCHANGED <<token, attempt>>,
         CallsFit(w)', StopFits(w)',
         NEW c \in Checkpoint, mem'[w] = c, Sound(c),
         NEW d \in Checkpoint, saved' = d, Sound(d),
         d = saved \/ (token[w] = attempt[Run] /\ token[w] > 0),
         pc'[w] \notin {"idle", "load"} /\ token[w] = attempt[Run] => c = d,
         LiveOnTape', ApprovedBeforeLive'
  PROVE  Kept
<1>1. Control!IInv'
  BY ControlSteps DEF RunInv
<1>2. TokensDistinct' /\ OwnerSynced'
  BY OwnersKept
<1>3. Sound(c)' /\ Sound(d)'
  BY SoundKept DEF RunInv
<1>4. Sound(mem[w])' /\ Sound(saved)'
  BY <1>3, SoundAt
<1>5. ASSUME NEW u \in Workers, u # w PROVE CallsFit(u)' /\ StopFits(u)' /\ Sound(mem[u])'
  <2>1. Untouched(u)
    BY <1>5
  <2> QED
    BY <2>1, UntouchedFits DEF RunInv, ContentSound
<1>6. \A u \in Workers : CallsFit(u)' /\ StopFits(u)' /\ Sound(mem[u])'
  BY <1>4, <1>5
<1>7. ContentSound'
  BY <1>4, <1>6 DEF ContentSound
<1> QED
  BY <1>1, <1>2, <1>6, <1>7 DEF Kept, RunInv, EndInv

\* A step of nobody: of the store, or of an operator at the tape.
LEMMA OtherStep ==
  ASSUME RunInv, UNCHANGED <<memVars, saved>>,
         [Store!Next]_(Store!vars), EndInv', Grows, MemoryTypeOK', UNCHANGED attempt,
         LiveOnTape', ApprovedBeforeLive'
  PROVE  Kept
<1>1. Control!IInv'
  BY ControlSteps DEF RunInv
<1>2. TokensDistinct' /\ OwnerSynced'
  BY DEF RunInv, TokensDistinct, OwnerSynced, memVars
<1>3. \A u \in Workers : CallsFit(u)' /\ StopFits(u)' /\ Sound(mem[u])'
  <2>1. \A u \in Workers : Untouched(u)
    BY DEF memVars, Untouched
  <2> QED
    BY <2>1, UntouchedFits DEF RunInv, ContentSound
<1>4. Sound(saved)'
  <2>1. PICK d \in Checkpoint : d = saved
    BY DEF RunInv, MemoryTypeOK
  <2>2. Sound(d)'
    BY <2>1, SoundKept DEF RunInv, ContentSound
  <2> QED
    BY <2>1, <2>2, SoundAt
<1>5. ContentSound'
  BY <1>3, <1>4 DEF ContentSound
<1> QED
  BY <1>1, <1>2, <1>3, <1>5 DEF Kept, RunInv, EndInv

\* A step that only moves a worker on.
LEMMA QuietStep ==
  ASSUME RunInv, NEW w \in Workers, \A u \in Workers \ {w} : Untouched(u),
         UNCHANGED <<storeVars, saved, tapeVars, token, policy>>, mem' = mem,
         events \subseteq events', MemoryTypeOK', CallsFit(w)', StopFits(w)',
         pc[w] \in {"idle", "load"} => pc'[w] \in {"idle", "load"}
  PROVE  Kept
<1>1. [Store!Next]_(Store!vars)
  BY DEF storeVars, Store!vars, Store!taskVars, Store!leaseVars, Store!intVars
<1>2. EndInv'
  BY EndQuiet DEF RunInv, EndInv, storeVars
<1>3. Grows /\ UNCHANGED <<token, attempt>>
  BY DEF Grows, storeVars, tapeVars
<1>4. LiveOnTape' /\ ApprovedBeforeLive'
  BY <1>3, LiveKept DEF RunInv, tapeVars
<1>5. PICK c \in Checkpoint : c = mem[w]
  BY DEF RunInv, MemoryTypeOK
<1>6. PICK d \in Checkpoint : d = saved
  BY DEF RunInv, MemoryTypeOK
<1>7. Sound(c) /\ Sound(d)
  BY <1>5, <1>6 DEF RunInv, ContentSound
<1>8. pc'[w] \notin {"idle", "load"} /\ token[w] = attempt[Run] => c = d
  BY <1>5, <1>6 DEF RunInv, OwnerSynced
<1> QED
  BY <1>1, <1>2, <1>3, <1>4, <1>5, <1>6, <1>7, <1>8, WorkerStep

-----------------------------------------------------------------------------
(* Nobody's steps *)

LEMMA OutsideIs == ASSUME RunInv, Outside, UNCHANGED policy PROVE Kept
<1>1. /\ [Store!Next]_(Store!vars) /\ EndInv' /\ attempt' = attempt
      /\ \A x \in Interrupts : intState[x] = "allowed" => intState'[x] = "allowed"
  BY OutsideKeepsEnd DEF RunInv, EndInv
<1>2. UNCHANGED <<saved, tapeVars, shown, events, memVars, faults>>
  BY DEF Outside, LeaveWorkers
<1>3. Grows
  BY <1>1, <1>2 DEF Grows, tapeVars
<1>4. MemoryTypeOK'
  BY <1>2 DEF RunInv, MemoryTypeOK, tapeVars, memVars, Checkpoint
<1>5. LiveOnTape' /\ ApprovedBeforeLive'
  BY <1>2, <1>3, LiveKept DEF RunInv, tapeVars
<1> QED
  BY <1>1, <1>2, <1>3, <1>4, <1>5, OtherStep

\* An effect that ends.  Its reply was not one before.
LEMMA EndsOnce ==
  ASSUME MemoryTypeOK, NEW e \in Effects, tape[e] \notin Endings,
         NEW how \in {"intent"} \cup Endings, tape' = [tape EXCEPT ![e] = how],
         \/ reply' = reply
         \/ e[2] = 0 /\ \E r \in Replies : reply' = [reply EXCEPT ![e[1]] = r]
  PROVE  /\ tape' \in [Effects -> {"none", "intent"} \cup Endings]
         /\ reply' \in [Iterations -> Replies \cup {NoReply}]
         /\ tape'[e] = how
         /\ \A x \in Effects : tape[x] \in Endings => tape'[x] = tape[x]
         /\ \A x \in Effects : tape'[x] = "none" => tape[x] = "none"
         /\ \A i \in Iterations : tape[<<i, 0>>] \in Endings => reply'[i] = reply[i]
<1>1. tape \in [Effects -> {"none", "intent"} \cup Endings]
      /\ reply \in [Iterations -> Replies \cup {NoReply}]
  BY DEF MemoryTypeOK
<1>2. tape' \in [Effects -> {"none", "intent"} \cup Endings] /\ tape'[e] = how
      /\ (\A x \in Effects : x # e => tape'[x] = tape[x])
  BY <1>1
<1>3. reply' \in [Iterations -> Replies \cup {NoReply}]
  BY <1>1
<1>4. \A x \in Effects : tape'[x] = "none" => tape[x] = "none"
  BY <1>2 DEF Endings
<1>5. ASSUME NEW i \in Iterations, tape[<<i, 0>>] \in Endings PROVE reply'[i] = reply[i]
  <2>1. e = <<e[1], e[2]>>
    BY DEF Effects
  <2>2. e[2] # 0 \/ e[1] # i
    BY <1>5, <2>1
  <2> QED
    BY <1>1, <2>2
<1> QED
  BY <1>2, <1>3, <1>4, <1>5

LEMMA ReconcileIs ==
  ASSUME RunInv, NEW e \in Effects, Reconcile(e), UNCHANGED policy
  PROVE  Kept
<1>1. /\ tape[e] \notin Endings /\ tape' = [tape EXCEPT ![e] = "ok"]
      /\ \/ reply' = reply
         \/ e[2] = 0 /\ \E r \in Replies : reply' = [reply EXCEPT ![e[1]] = r]
      /\ UNCHANGED <<storeVars, saved, live, shown, events, memVars, faults>>
  BY DEF Reconcile, Endings
<1>2. [Store!Next]_(Store!vars)
  BY <1>1 DEF storeVars, Store!vars, Store!taskVars, Store!leaseVars, Store!intVars
<1>3. EndInv' /\ UNCHANGED attempt
  BY <1>1, EndQuiet DEF RunInv, EndInv, storeVars
<1>4. "ok" \in Endings
  BY DEF Endings
<1>5. /\ tape' \in [Effects -> {"none", "intent"} \cup Endings]
      /\ reply' \in [Iterations -> Replies \cup {NoReply}]
      /\ \A x \in Effects : tape[x] \in Endings => tape'[x] = tape[x]
      /\ \A x \in Effects : tape'[x] = "none" => tape[x] = "none"
      /\ \A i \in Iterations : tape[<<i, 0>>] \in Endings => reply'[i] = reply[i]
  BY <1>1, <1>4, EndsOnce DEF RunInv
<1>6. Grows
  BY <1>1, <1>5 DEF Grows, storeVars
<1>7. MemoryTypeOK'
  BY <1>1, <1>5 DEF RunInv, MemoryTypeOK, memVars, Checkpoint
<1>8. LiveOnTape' /\ ApprovedBeforeLive'
  BY <1>1, <1>5, <1>6, LiveKept DEF RunInv
<1> QED
  BY <1>1, <1>2, <1>3, <1>6, <1>7, <1>8, OtherStep

-----------------------------------------------------------------------------
(* Claiming and loading *)

LEMMA ClaimKeeps == ASSUME RunInv, NEW w \in Workers, Claim(w), UNCHANGED policy PROVE Kept
<1>1. PICK s \in Store!Stamp : Store!ClaimRun(Run, s)
  BY DEF Claim
<1>2. /\ [Store!Next]_(Store!vars) /\ EndInv' /\ intState' = intState
      /\ attempt' \in [{Run} -> 0 .. MaxAttempt] /\ attempt'[Run] = attempt[Run] + 1
  BY <1>1, ClaimIs DEF RunInv, EndInv
<1>3. /\ token' = [token EXCEPT ![w] = attempt'[Run]]
      /\ calls' = [calls EXCEPT ![w] = NoCalls] /\ cause' = [cause EXCEPT ![w] = "none"]
      /\ pc' = [pc EXCEPT ![w] = "load"]
      /\ UNCHANGED <<saved, tapeVars, shown, events, mem, ver, faults>>
  BY DEF Claim, Goto
<1>4. Grows
  BY <1>2, <1>3 DEF Grows, tapeVars
<1>5. MemoryTypeOK
  BY DEF RunInv
<1>6. NoCalls \in [0 .. MaxTools -> Stages]
  BY DEF NoCalls, Stages
<1>7. MemoryTypeOK'
  <2>1. pc' \in [Workers -> Stops] /\ token' \in [Workers -> 0 .. MaxAttempt]
        /\ calls' \in [Workers -> [0 .. MaxTools -> Stages]]
        /\ cause' \in [Workers -> Causes \cup {"none", "cancel", "deadline"}]
    BY <1>2, <1>3, <1>5, <1>6 DEF MemoryTypeOK, Stops
  <2> QED
    BY <1>3, <1>5, <2>1 DEF MemoryTypeOK, tapeVars, Checkpoint
<1>8. attempt[Run] \in Nat /\ \A u \in Workers : token[u] \in Nat
  <2>1. attempt[Run] \in 0 .. MaxAttempt /\ MaxAttempt \in Nat
    BY StoreTypes, StoreConstants DEF RunInv, Store!StoreAssumption
  <2> QED
    BY <1>5, <2>1 DEF MemoryTypeOK
<1>9. \A u \in Workers : token[u] <= attempt[Run]
  BY DEF RunInv, TokensDistinct
<1>10. token'[w] = attempt'[Run] /\ \A u \in Workers \ {w} : token'[u] = token[u]
  BY <1>3, <1>5 DEF MemoryTypeOK
<1>11. TokensDistinct'
  BY <1>2, <1>8, <1>9, <1>10 DEF RunInv, TokensDistinct
<1>12. OwnerSynced'
  <2>1. pc'[w] = "load"
    BY <1>3, <1>5 DEF MemoryTypeOK
  <2>2. \A u \in Workers \ {w} : token'[u] # attempt'[Run]
    BY <1>2, <1>8, <1>9, <1>10
  <2> QED
    BY <2>1, <2>2 DEF OwnerSynced
<1>13. \A u \in Workers \ {w} : Untouched(u)
  BY <1>3, <1>5 DEF Untouched, MemoryTypeOK
<1>14. calls'[w] = NoCalls /\ pc'[w] = "load" /\ mem'[w] = mem[w]
  BY <1>3, <1>5 DEF MemoryTypeOK
<1>15. CallsFit(w)' /\ StopFits(w)'
  BY <1>14 DEF CallsFit, StopFits, NoCalls
<1>16. Sound(mem[w])' /\ Sound(saved)'
  <2>1. PICK c \in Checkpoint : c = mem[w]
    BY <1>5 DEF MemoryTypeOK
  <2>2. PICK d \in Checkpoint : d = saved
    BY <1>5 DEF MemoryTypeOK
  <2>3. Sound(c)' /\ Sound(d)'
    BY <1>4, <1>5, <2>1, <2>2, SoundKept DEF RunInv, ContentSound
  <2> QED
    BY <1>3, <1>14, <2>1, <2>2, <2>3, SoundAt
<1>17. ASSUME NEW u \in Workers, u # w PROVE CallsFit(u)' /\ StopFits(u)' /\ Sound(mem[u])'
  <2>1. Untouched(u)
    BY <1>13, <1>17
  <2> QED
    BY <1>4, <2>1, UntouchedFits DEF RunInv, ContentSound
<1>18. ContentSound'
  BY <1>16, <1>17 DEF ContentSound
<1>19. LiveOnTape' /\ ApprovedBeforeLive'
  BY <1>3, <1>4, LiveKept DEF RunInv, tapeVars
<1>20. Control!IInv'
  BY <1>2, ControlSteps DEF RunInv
<1> QED
  BY <1>2, <1>7, <1>11, <1>12, <1>15, <1>17, <1>18, <1>19, <1>20 DEF Kept, RunInv, EndInv

-----------------------------------------------------------------------------
(* Checkpoints that are saved *)

LEMMA NoContentIs ==
  /\ NoContent \in Checkpoint
  /\ NoContent.phase = "none" /\ NoContent.iter = 0 /\ NoContent.next = 1
  /\ NoContent.wait = "none" /\ NoContent.result = "none"
<1>1. 0 \in 0 .. MaxIterations /\ 1 \in 1 .. MaxTools + 1
  BY Bounds
<1> QED
  BY <1>1 DEF NoContent, Checkpoint

LEMMA ReadyIs ==
  ASSUME NEW i \in 0 .. MaxIterations
  PROVE  /\ Ready(i) \in Checkpoint /\ Ready(i).phase = "ready" /\ Ready(i).iter = i
         /\ Ready(i).next = 1 /\ Ready(i).wait = "none"
<1>1. NoContent \in Checkpoint /\ NoContent.next = 1 /\ NoContent.wait = "none"
  BY NoContentIs
<1>2. "ready" \in Phases
  BY DEF Phases
<1> QED
  BY <1>1, <1>2 DEF Ready, Checkpoint

LEMMA TerminalIs ==
  ASSUME NEW m \in Checkpoint, NEW result \in Results
  PROVE  /\ Terminal(m, result) \in Checkpoint
         /\ Terminal(m, result).phase = "terminal" /\ Terminal(m, result).iter = m.iter
         /\ Terminal(m, result).next = 1 /\ Terminal(m, result).wait = "none"
         /\ Terminal(m, result).result = result
         /\ Terminal(m, result) = Terminal(Terminal(m, result), result)
<1>1. NoContent \in Checkpoint /\ NoContent.next = 1 /\ NoContent.wait = "none"
  BY NoContentIs
<1>2. "terminal" \in Phases /\ m.iter \in 0 .. MaxIterations
  BY DEF Phases, Checkpoint
<1>3. PICK c : c = Terminal(m, result)
  OBVIOUS
<1>4. /\ c \in Checkpoint /\ c.phase = "terminal" /\ c.iter = m.iter
      /\ c.next = 1 /\ c.wait = "none" /\ c.result = result
  BY <1>1, <1>2, <1>3 DEF Terminal, Checkpoint
<1>5. Terminal(c, result) = c
  BY <1>3, <1>4 DEF Terminal
<1> QED
  BY <1>3, <1>4, <1>5

\* A run that ends, ends after what it has done.
LEMMA TerminalSound ==
  ASSUME NEW m \in Checkpoint, NEW result \in Results, Sound(m)
  PROVE  Sound(Terminal(m, result))
<1> DEFINE c == Terminal(m, result)
<1>1. /\ c \in Checkpoint /\ c.phase = "terminal" /\ c.iter = m.iter /\ c.next = 1
      /\ c.wait = "none" /\ c.result = result /\ c = Terminal(c, result)
  BY TerminalIs
<1> HIDE DEF c
<1>2. Shaped(c)
  BY <1>1 DEF Shaped, After
<1>3. Backed(c)
  BY <1>1 DEF Sound, Backed, DoneOf, After
<1>4. Sound(c)
  BY <1>2, <1>3 DEF Sound
<1> QED
  BY <1>4 DEF c

\* save_checkpoint by the owner of the run.
LEMMA SaveKeeps ==
  ASSUME RunInv, NEW w \in Workers, NEW c \in Checkpoint, Sound(c), Save(w, c), UNCHANGED policy,
         calls' = [calls EXCEPT ![w] = NoCalls] \/ (calls' = calls /\ calls[w] = NoCalls)
  PROVE  Kept
<1>1. PICK s \in Store!Stamp : Store!SaveCheckpoint(Run, token[w], ver[w], s)
  BY DEF Save
<1>2. /\ saved' = c /\ mem' = [mem EXCEPT ![w] = c] /\ pc' = [pc EXCEPT ![w] = "loop"]
      /\ UNCHANGED <<tapeVars, shown, events, token, cause, faults, policy>>
  BY DEF Save, Goto
<1>3. /\ [Store!Next]_(Store!vars) /\ EndInv' /\ UNCHANGED <<attempt, intState>>
      /\ token[w] = attempt[Run] /\ token[w] > 0
  BY <1>1, SaveIs DEF RunInv, EndInv
<1>4. Grows
  BY <1>2, <1>3 DEF Grows, tapeVars
<1>5. MemoryTypeOK
  BY DEF RunInv
<1>6. NoCalls \in [0 .. MaxTools -> Stages]
  BY DEF NoCalls, Stages
<1>7. calls'[w] = NoCalls /\ pc'[w] = "loop" /\ mem'[w] = c
      /\ calls' \in [Workers -> [0 .. MaxTools -> Stages]]
      /\ pc' \in [Workers -> Stops] /\ mem' \in [Workers -> Checkpoint]
  BY <1>2, <1>5, <1>6 DEF MemoryTypeOK, Stops
<1>8. MemoryTypeOK'
  <2>1. Checkpoint' = Checkpoint
    BY DEF Checkpoint
  <2> QED
    BY <1>2, <1>5, <1>7, <2>1 DEF MemoryTypeOK, tapeVars
<1>9. \A u \in Workers \ {w} : Untouched(u)
  BY <1>2, <1>5 DEF Untouched, MemoryTypeOK
<1>10. CallsFit(w)' /\ StopFits(w)'
  BY <1>7 DEF CallsFit, StopFits, NoCalls
<1>11. LiveOnTape' /\ ApprovedBeforeLive'
  BY <1>2, <1>4, LiveKept DEF RunInv, tapeVars
<1> QED
  BY <1>2, <1>3, <1>4, <1>7, <1>8, <1>9, <1>10, <1>11, WorkerStep

LEMMA LoadKeeps == ASSUME RunInv, NEW w \in Workers, Load(w), UNCHANGED policy PROVE Kept
<1>1. pc[w] = "load" /\ calls[w] = NoCalls
  BY DEF Load, RunInv, CallsFit
<1>2. CASE Save(w, Ready(0)) /\ UNCHANGED calls
  <2>1. PICK c : c = Ready(0)
    OBVIOUS
  <2>2. c \in Checkpoint /\ c.phase = "ready" /\ c.iter = 0 /\ c.next = 1 /\ c.wait = "none"
    BY <2>1, ReadyIs, Bounds
  <2>3. Sound(c)
    BY <2>2, Bounds DEF Sound, Shaped, Backed, After, Iterations
  <2>4. Save(w, c)
    BY <1>2, <2>1 DEF Save
  <2> QED
    BY <1>1, <1>2, <2>2, <2>3, <2>4, SaveKeeps
<1>3. CASE /\ mem' = [mem EXCEPT ![w] = saved] /\ pc' = [pc EXCEPT ![w] = "loop"]
           /\ UNCHANGED <<storeVars, saved, tapeVars, shown, events, token, calls, cause, faults>>
  <2>1. MemoryTypeOK
    BY DEF RunInv
  <2>2. /\ pc'[w] = "loop" /\ mem'[w] = saved
        /\ pc' \in [Workers -> Stops] /\ mem' \in [Workers -> Checkpoint]
    BY <1>3, <2>1 DEF MemoryTypeOK, Stops
  <2>3. MemoryTypeOK'
    <3>1. Checkpoint' = Checkpoint
      BY DEF Checkpoint
    <3> QED
      BY <1>3, <2>1, <2>2, <3>1 DEF MemoryTypeOK, tapeVars
  <2>4. [Store!Next]_(Store!vars)
    BY <1>3 DEF storeVars, Store!vars, Store!taskVars, Store!leaseVars, Store!intVars
  <2>5. EndInv'
    BY <1>3, EndQuiet DEF RunInv, EndInv, storeVars
  <2>6. Grows /\ UNCHANGED <<token, attempt>>
    BY <1>3 DEF Grows, storeVars, tapeVars
  <2>7. LiveOnTape' /\ ApprovedBeforeLive'
    BY <1>3, <2>6, LiveKept DEF RunInv, tapeVars
  <2>8. PICK c \in Checkpoint : c = saved
    BY <2>1 DEF MemoryTypeOK
  <2>9. Sound(c)
    BY <2>8 DEF RunInv, ContentSound
  <2>10. CallsFit(w)' /\ StopFits(w)'
    <3>1. pc'[w] = "loop" /\ calls'[w] = NoCalls
      BY <1>1, <1>3, <2>2
    <3> QED
      BY <3>1 DEF CallsFit, StopFits, NoCalls
  <2>11. \A u \in Workers \ {w} : Untouched(u)
    BY <1>3, <2>1 DEF Untouched, MemoryTypeOK
  <2>12. mem'[w] = c /\ saved' = c
    BY <1>3, <2>2, <2>8
  <2> QED
    BY <2>3, <2>4, <2>5, <2>6, <2>7, <2>8, <2>9, <2>10, <2>11, <2>12, WorkerStep
<1> QED
  BY <1>2, <1>3 DEF Load, Goto

\* The run ends where its checkpoint stands.
LEMMA EndKeeps ==
  ASSUME RunInv, NEW w \in Workers, NEW result \in Results, UNCHANGED <<policy, calls>>,
         calls[w] = NoCalls, Save(w, Terminal(mem[w], result))
  PROVE  Kept
<1>1. mem[w] \in Checkpoint /\ Sound(mem[w])
  BY DEF RunInv, MemoryTypeOK, ContentSound
<1>2. PICK c : c = Terminal(mem[w], result)
  OBVIOUS
<1>3. c \in Checkpoint /\ Sound(c)
  BY <1>1, <1>2, TerminalIs, TerminalSound
<1>4. Save(w, c)
  BY <1>2 DEF Save
<1> QED
  BY <1>3, <1>4, SaveKeeps

LEMMA SaveCancelledKeeps ==
  ASSUME RunInv, NEW w \in Workers, SaveCancelled(w), UNCHANGED policy
  PROVE  Kept
<1>1. calls[w] = NoCalls
  BY DEF SaveCancelled, RunInv, CallsFit
<1> QED
  BY <1>1, EndKeeps DEF SaveCancelled, Results

LEMMA SaveExpiredKeeps ==
  ASSUME RunInv, NEW w \in Workers, SaveExpired(w), UNCHANGED policy
  PROVE  Kept
<1>1. calls[w] = NoCalls
  BY DEF SaveExpired, RunInv, CallsFit
<1> QED
  BY <1>1, EndKeeps DEF SaveExpired, Results

LEMMA ConcludeKeeps ==
  ASSUME RunInv, NEW w \in Workers, Conclude(w), UNCHANGED policy
  PROVE  Kept
<1>1. calls[w] = NoCalls
  BY DEF Conclude, AfterReply, RunInv, CallsFit
<1> QED
  BY <1>1, EndKeeps DEF Conclude, Results

\* The next phase of the same iteration.
LEMMA PhaseIs ==
  ASSUME NEW m \in Checkpoint, NEW phase \in Phases
  PROVE  /\ [m EXCEPT !.phase = phase] \in Checkpoint
         /\ [m EXCEPT !.phase = phase].phase = phase
         /\ [m EXCEPT !.phase = phase].iter = m.iter
         /\ [m EXCEPT !.phase = phase].next = m.next
         /\ [m EXCEPT !.phase = phase].wait = m.wait
  BY DEF Checkpoint

LEMMA StartIterationKeeps ==
  ASSUME RunInv, NEW w \in Workers, StartIteration(w), UNCHANGED policy
  PROVE  Kept
<1>1. calls[w] = NoCalls /\ UNCHANGED calls
  BY DEF StartIteration, RunInv, CallsFit
<1>2. PICK m \in Checkpoint : m = mem[w]
  BY DEF RunInv, MemoryTypeOK
<1>3. Sound(m) /\ m.phase = "ready"
  BY <1>2 DEF StartIteration, RunInv, ContentSound
<1>4. CASE m.iter >= MaxIterations
  BY <1>1, <1>2, <1>4, EndKeeps DEF StartIteration, Results
<1>5. CASE ~(m.iter >= MaxIterations)
  <2>1. PICK c : c = [m EXCEPT !.phase = "before_llm"]
    OBVIOUS
  <2>2. /\ c \in Checkpoint /\ c.phase = "before_llm" /\ c.iter = m.iter
        /\ c.next = m.next /\ c.wait = m.wait
    BY <2>1, PhaseIs DEF Phases
  <2>3. c.iter < MaxIterations
    BY <1>5, <2>2, Bounds DEF Checkpoint
  <2>4. Shaped(c)
    BY <1>3, <2>2, <2>3 DEF Sound, Shaped, After
  <2>5. Backed(c)
    BY <1>3, <2>2 DEF Sound, Backed, DoneOf, After
  <2>6. Save(w, c)
    BY <1>2, <1>5, <2>1 DEF StartIteration, Save
  <2> QED
    BY <1>1, <2>2, <2>4, <2>5, <2>6, SaveKeeps DEF Sound
<1> QED
  BY <1>4, <1>5

LEMMA ModelDoneKeeps ==
  ASSUME RunInv, NEW w \in Workers, ModelDone(w), UNCHANGED policy
  PROVE  Kept
<1>1. PICK m \in Checkpoint : m = mem[w]
  BY DEF RunInv, MemoryTypeOK
<1>2. /\ Sound(m) /\ m.phase = "before_llm" /\ m.iter \in Iterations
      /\ tape[<<m.iter, 0>>] \in Endings
  <2>1. 0 \in 0 .. MaxTools
    BY Bounds
  <2> QED
    BY <1>1, <2>1 DEF ModelDone, RunInv, ContentSound, CallsFit
<1>3. PICK c : c = [m EXCEPT !.phase = "after_llm"]
  OBVIOUS
<1>4. /\ c \in Checkpoint /\ c.phase = "after_llm" /\ c.iter = m.iter
      /\ c.next = 1 /\ c.wait = "none"
  BY <1>2, <1>3, PhaseIs DEF Phases, Sound, Shaped, After
<1>5. Shaped(c)
  BY <1>2, <1>4, Bounds DEF Shaped, After, Iterations
<1>6. ASSUME NEW i \in Iterations, i < c.iter \/ (i = c.iter /\ After(c))
      PROVE  /\ tape[<<i, 0>>] \in Endings
             /\ DoneOf(c, i) \in 0 .. MaxTools
             /\ \A k \in 1 .. DoneOf(c, i) : \/ tape[<<i, k>>] \in Endings
                                             \/ intState[<<"input", <<i, k>>>>] = "allowed"
  <2>1. CASE i < c.iter
    BY <1>2, <1>4, <2>1 DEF Sound, Backed, DoneOf
  <2>2. CASE i = c.iter
    <3>1. DoneOf(c, i) = 0
      BY <1>4, <2>2 DEF DoneOf, After, Checkpoint
    <3> QED
      BY <1>2, <1>4, <2>2, <3>1, Bounds
  <2> QED
    BY <1>6, <2>1, <2>2
<1>7. Backed(c)
  BY <1>6 DEF Backed
<1>8. Save(w, c) /\ calls' = [calls EXCEPT ![w] = NoCalls]
  BY <1>1, <1>3 DEF ModelDone, Save
<1> QED
  BY <1>4, <1>5, <1>7, <1>8, SaveKeeps DEF Sound

\* What the model asked for.
LEMMA ReplyIs ==
  ASSUME MemoryTypeOK, NEW i \in Iterations
  PROVE  reply[i][2] \in 0 .. MaxTools
<1>1. reply[i] \in Replies \cup {NoReply}
  BY DEF MemoryTypeOK
<1>2. CASE \E n \in 1 .. MaxTools : reply[i] = <<"tools", n>>
  BY <1>2, Bounds
<1>3. CASE reply[i] \in {Final, Error, NoReply}
  BY <1>3, Bounds DEF Final, Error, NoReply
<1> QED
  BY <1>1, <1>2, <1>3 DEF Replies

\* A worker that is about to act on a reply.
LEMMA AfterReplyIs ==
  ASSUME RunInv, NEW w \in Workers, AfterReply(w)
  PROVE  /\ calls[w] = NoCalls /\ mem[w].iter \in Iterations /\ Tools(w) \in 0 .. MaxTools
         /\ mem[w].next \in 1 .. MaxTools + 1 /\ mem[w] \in Checkpoint /\ Sound(mem[w])
         /\ After(mem[w])
         /\ tape[<<mem[w].iter, 0>>] \in Endings
         /\ \A k \in 1 .. mem[w].next - 1 :
              \/ tape[<<mem[w].iter, k>>] \in Endings
              \/ intState[<<"input", <<mem[w].iter, k>>>>] = "allowed"
<1>1. MemoryTypeOK /\ mem[w] \in Checkpoint /\ Sound(mem[w]) /\ After(mem[w])
  BY DEF RunInv, MemoryTypeOK, ContentSound, AfterReply, After
<1>2. calls[w] = NoCalls
  BY DEF AfterReply, RunInv, CallsFit
<1>3. mem[w].iter \in Iterations /\ mem[w].next \in 1 .. MaxTools + 1
  BY <1>1, Bounds DEF Sound, Shaped, Checkpoint, Iterations
<1>4. Tools(w) \in 0 .. MaxTools
  BY <1>1, <1>3, ReplyIs DEF Tools, ReplyOf
<1>5. DoneOf(mem[w], mem[w].iter) = mem[w].next - 1
  BY <1>1, <1>3 DEF DoneOf, Iterations
<1>6. /\ tape[<<mem[w].iter, 0>>] \in Endings
      /\ \A k \in 1 .. DoneOf(mem[w], mem[w].iter) :
           \/ tape[<<mem[w].iter, k>>] \in Endings
           \/ intState[<<"input", <<mem[w].iter, k>>>>] = "allowed"
  BY <1>1, <1>3 DEF Sound, Backed
<1> QED
  BY <1>1, <1>2, <1>3, <1>4, <1>5, <1>6

LEMMA AdvanceKeeps ==
  ASSUME RunInv, NEW w \in Workers, Advance(w), UNCHANGED policy
  PROVE  Kept
<1>1. PICK m \in Checkpoint : m = mem[w]
  BY DEF RunInv, MemoryTypeOK
<1>2. /\ AfterReply(w) /\ Tools(w) > 0 /\ m.next > Tools(w)
      /\ calls[w] = NoCalls /\ m.iter \in Iterations /\ Tools(w) \in 0 .. MaxTools
      /\ m.next \in 1 .. MaxTools + 1 /\ Sound(m)
      /\ tape[<<m.iter, 0>>] \in Endings
      /\ \A k \in 1 .. m.next - 1 : \/ tape[<<m.iter, k>>] \in Endings
                                    \/ intState[<<"input", <<m.iter, k>>>>] = "allowed"
  BY <1>1, AfterReplyIs DEF Advance
<1>3. m.iter + 1 \in 0 .. MaxIterations
  BY <1>2, Bounds DEF Iterations
<1>4. PICK c : c = Ready(m.iter + 1)
  OBVIOUS
<1>5. /\ c \in Checkpoint /\ c.phase = "ready" /\ c.iter = m.iter + 1
      /\ c.next = 1 /\ c.wait = "none"
  BY <1>3, <1>4, ReadyIs
<1>6. Shaped(c)
  BY <1>5 DEF Shaped, After
<1>7. ASSUME NEW i \in Iterations, i < c.iter
      PROVE  /\ tape[<<i, 0>>] \in Endings
             /\ DoneOf(c, i) \in 0 .. MaxTools
             /\ \A k \in 1 .. DoneOf(c, i) : \/ tape[<<i, k>>] \in Endings
                                             \/ intState[<<"input", <<i, k>>>>] = "allowed"
  <2>1. CASE i < m.iter
    <3>1. DoneOf(c, i) = reply[i][2] /\ DoneOf(m, i) = reply[i][2]
      BY <1>7, <2>1 DEF DoneOf
    <3> QED
      BY <1>2, <2>1, <3>1 DEF Sound, Backed
  <2>2. CASE i = m.iter
    <3>1. DoneOf(c, i) = Tools(w)
      BY <1>1, <1>7, <2>2 DEF DoneOf, Tools, ReplyOf
    <3>2. \A k \in 1 .. Tools(w) : k \in 1 .. m.next - 1
      BY <1>2, Bounds
    <3> QED
      BY <1>2, <2>2, <3>1, <3>2
  <2> QED
    BY <1>2, <1>5, <1>7, <2>1, <2>2 DEF Iterations
<1>8. Backed(c)
  BY <1>5, <1>7 DEF Backed, After
<1>9. Sound(c)
  BY <1>6, <1>8 DEF Sound
<1>10. CASE Save(w, Ready(m.iter + 1)) /\ UNCHANGED calls
  <2>1. Save(w, c)
    BY <1>4, <1>10 DEF Save
  <2> QED
    BY <1>2, <1>5, <1>9, <1>10, <2>1, SaveKeeps
<1>11. CASE Save(w, Terminal(Ready(m.iter + 1), "stopped")) /\ UNCHANGED calls
  <2>1. PICK d : d = Terminal(c, "stopped")
    OBVIOUS
  <2>2. d \in Checkpoint /\ Sound(d)
    BY <1>5, <1>9, <2>1, TerminalIs, TerminalSound DEF Results
  <2>3. Save(w, d)
    BY <1>4, <1>11, <2>1 DEF Save
  <2> QED
    BY <1>2, <1>11, <2>2, <2>3, SaveKeeps
<1> QED
  BY <1>1, <1>10, <1>11 DEF Advance

\* A checkpoint behind the calls of a reply that have been answered so far.
LEMMA ToolsSound ==
  ASSUME NEW m \in Checkpoint, Sound(m), After(m), NEW next \in 1 .. MaxTools + 1,
         \A k \in 1 .. next - 1 : \/ tape[<<m.iter, k>>] \in Endings
                                  \/ intState[<<"input", <<m.iter, k>>>>] = "allowed",
         NEW c, c = [m EXCEPT !.phase = "after_tool", !.next = next, !.wait = "none"]
  PROVE  c \in Checkpoint /\ Sound(c)
<1>1. "after_tool" \in Phases
  BY DEF Phases
<1>2. /\ c \in Checkpoint /\ c.phase = "after_tool" /\ c.iter = m.iter
      /\ c.next = next /\ c.wait = "none"
  BY <1>1 DEF Checkpoint
<1>3. m.iter < MaxIterations /\ m.iter \in Iterations
  BY Bounds DEF Sound, Shaped, Checkpoint, Iterations
<1>4. Shaped(c)
  BY <1>2, <1>3 DEF Shaped, After
<1>5. ASSUME NEW i \in Iterations, i < c.iter \/ (i = c.iter /\ After(c))
      PROVE  /\ tape[<<i, 0>>] \in Endings
             /\ DoneOf(c, i) \in 0 .. MaxTools
             /\ \A k \in 1 .. DoneOf(c, i) : \/ tape[<<i, k>>] \in Endings
                                             \/ intState[<<"input", <<i, k>>>>] = "allowed"
  <2>1. CASE i < c.iter
    BY <1>2, <2>1 DEF Sound, Backed, DoneOf
  <2>2. CASE i = c.iter
    <3>1. DoneOf(c, i) = next - 1
      BY <1>2, <1>3, <2>2 DEF DoneOf, After, Iterations
    <3>2. next - 1 \in 0 .. MaxTools
      BY Bounds
    <3>3. tape[<<m.iter, 0>>] \in Endings
      BY <1>3 DEF Sound, Backed
    <3> QED
      BY <1>2, <2>2, <3>1, <3>2, <3>3
  <2> QED
    BY <1>5, <2>1, <2>2
<1>6. Backed(c)
  BY <1>5 DEF Backed
<1> QED
  BY <1>2, <1>4, <1>6 DEF Sound

LEMMA TakeInputKeeps ==
  ASSUME RunInv, NEW w \in Workers, TakeInput(w), UNCHANGED policy
  PROVE  Kept
<1>1. PICK m \in Checkpoint : m = mem[w]
  BY DEF RunInv, MemoryTypeOK
<1>2. /\ AfterReply(w) /\ m.next <= Tools(w)
      /\ intState[<<"input", <<m.iter, m.next>>>>] = "allowed"
      /\ UNCHANGED calls
  BY <1>1 DEF TakeInput, ToolsPending, Answered, Slot
<1>3. /\ calls[w] = NoCalls /\ Tools(w) \in 0 .. MaxTools
      /\ m.next \in 1 .. MaxTools + 1 /\ Sound(m) /\ After(m)
      /\ \A k \in 1 .. m.next - 1 : \/ tape[<<m.iter, k>>] \in Endings
                                    \/ intState[<<"input", <<m.iter, k>>>>] = "allowed"
  BY <1>1, <1>2, AfterReplyIs
<1>4. PICK next : next = m.next + 1
  OBVIOUS
<1>5. next \in 1 .. MaxTools + 1
  BY <1>2, <1>3, <1>4, Bounds
<1>6. \A k \in 1 .. next - 1 : k \in 1 .. m.next - 1 \/ k = m.next
  BY <1>3, <1>4, Bounds
<1>7. PICK c : c = [m EXCEPT !.phase = "after_tool", !.next = next, !.wait = "none"]
  OBVIOUS
<1>8. c \in Checkpoint /\ Sound(c)
  BY <1>2, <1>3, <1>5, <1>6, <1>7, ToolsSound
<1>9. Save(w, c)
  <2>1. c = [m EXCEPT !.phase = "after_tool", !.next = @ + 1, !.wait = "none"]
    BY <1>4, <1>7 DEF Checkpoint
  <2> QED
    BY <1>1, <2>1 DEF TakeInput, Save
<1> QED
  BY <1>2, <1>3, <1>8, <1>9, SaveKeeps

\* What gather() has been given is a run of slots from the next one on.
LEMMA BatchIs ==
  ASSUME NEW max \in Nat, NEW next \in 1 .. max + 1, NEW batch, batch \subseteq 1 .. max,
         \A k \in batch : k >= next /\ \A j \in next .. k : j \in batch
  PROVE  \E end \in 1 .. max + 1 : /\ end = next + Cardinality(batch)
                                   /\ \A k \in next .. end - 1 : k \in batch
<1> DEFINE n == Cardinality(batch)
<1>1. IsFiniteSet(batch) /\ n \in Nat
  <2>1. 1 \in Int /\ max \in Int
    OBVIOUS
  <2>2. IsFiniteSet(1 .. max)
    BY <2>1, FS_Interval
  <2>3. IsFiniteSet(batch)
    BY <2>2, FS_Subset
  <2> QED
    BY <2>3, FS_CardinalityType
<1>2. ASSUME NEW k \in next .. next + n - 1, k \notin batch PROVE FALSE
  <2>1. batch \subseteq next .. k - 1
    BY <1>2
  <2>2. IsFiniteSet(next .. k - 1) /\ Cardinality(next .. k - 1) = k - next
    <3>1. next \in Int /\ k - 1 \in Int /\ next <= k
      BY <1>1
    <3>2. /\ IsFiniteSet(next .. k - 1)
          /\ Cardinality(next .. k - 1) = IF next > k - 1 THEN 0 ELSE (k - 1) - next + 1
      BY <3>1, FS_Interval
    <3> QED
      BY <3>1, <3>2
  <2>3. n <= k - next
    BY <2>1, <2>2, FS_Subset
  <2> QED
    BY <1>1, <2>3
<1>3. \A k \in next .. next + n - 1 : k \in batch
  BY <1>2
<1>4. next + n \in 1 .. max + 1
  <2>1. CASE n = 0
    BY <2>1
  <2>2. CASE n > 0
    <3>1. next + n - 1 \in next .. next + n - 1
      BY <1>1, <2>2
    <3> QED
      BY <1>1, <1>3, <3>1
  <2> QED
    BY <1>1, <2>1, <2>2
<1>5. PICK end \in 1 .. max + 1 : end = next + n
  BY <1>4
<1>6. \A k \in next .. end - 1 : k \in next .. next + n - 1
  BY <1>1, <1>5
<1> QED
  BY <1>3, <1>5, <1>6

LEMMA ToolsDoneKeeps ==
  ASSUME RunInv, NEW w \in Workers, ToolsDone(w), UNCHANGED policy
  PROVE  Kept
<1>1. PICK m \in Checkpoint : m = mem[w]
  BY DEF RunInv, MemoryTypeOK
<1>2. PICK batch : batch = {k \in 1 .. MaxTools : calls[w][k] # "none"}
  OBVIOUS
<1>3. /\ pc[w] = "tools" /\ \A k \in batch : calls[w][k] = "done"
      /\ calls' = [calls EXCEPT ![w] = NoCalls]
      /\ Save(w, [m EXCEPT !.phase = "after_tool", !.wait = "none",
                           !.next = m.next + Cardinality(batch)])
  BY <1>1, <1>2 DEF ToolsDone, BatchDone, BatchEnd, Save
<1>4. Sound(m) /\ After(m) /\ m.next \in 1 .. MaxTools + 1 /\ m.iter \in Iterations
  BY <1>1, <1>3, Bounds
  DEF RunInv, ContentSound, CallsFit, Checkpoint, Sound, Shaped, Iterations
<1>5. \A k \in batch : k >= m.next /\ \A j \in m.next .. k : calls[w][j] # "none"
  BY <1>1, <1>2, <1>3 DEF RunInv, CallsFit
<1>6. \A k \in batch : k >= m.next /\ \A j \in m.next .. k : j \in batch
  BY <1>2, <1>4, <1>5, Bounds
<1>7. batch \subseteq 1 .. MaxTools /\ MaxTools \in Nat
  BY <1>2, Bounds
<1>8. PICK next \in 1 .. MaxTools + 1 : /\ next = m.next + Cardinality(batch)
                                        /\ \A k \in m.next .. next - 1 : k \in batch
  BY <1>4, <1>6, <1>7, BatchIs
<1>9. \A k \in batch : tape[<<m.iter, k>>] \in Endings
  <2>1. batch \subseteq 0 .. MaxTools
    BY <1>2, Bounds
  <2> QED
    BY <1>1, <1>3, <2>1 DEF RunInv, CallsFit
<1>10. \A k \in 1 .. m.next - 1 : \/ tape[<<m.iter, k>>] \in Endings
                                  \/ intState[<<"input", <<m.iter, k>>>>] = "allowed"
  <2>1. DoneOf(m, m.iter) = m.next - 1
    BY <1>4 DEF DoneOf, Iterations
  <2> QED
    BY <1>4, <2>1 DEF Sound, Backed
<1>11. \A k \in 1 .. next - 1 : \/ tape[<<m.iter, k>>] \in Endings
                                \/ intState[<<"input", <<m.iter, k>>>>] = "allowed"
  <2>1. \A k \in 1 .. next - 1 : k \in 1 .. m.next - 1 \/ k \in m.next .. next - 1
    BY <1>4, <1>8, Bounds
  <2> QED
    BY <1>8, <1>9, <1>10, <2>1
<1>12. PICK c : c = [m EXCEPT !.phase = "after_tool", !.next = next, !.wait = "none"]
  OBVIOUS
<1>13. c \in Checkpoint /\ Sound(c)
  BY <1>4, <1>8, <1>11, <1>12, ToolsSound
<1>14. Save(w, c)
  <2>1. c = [m EXCEPT !.phase = "after_tool", !.wait = "none", !.next = m.next + Cardinality(batch)]
    BY <1>8, <1>12 DEF Checkpoint
  <2> QED
    BY <1>3, <2>1 DEF Save
<1> QED
  BY <1>3, <1>13, <1>14, SaveKeeps

LEMMA SuspendForKeeps ==
  ASSUME RunInv, NEW w \in Workers, NEW kind \in {"approval", "input"}, SuspendFor(w, kind),
         UNCHANGED policy
  PROVE  Kept
<1>1. PICK m \in Checkpoint : m = mem[w]
  BY DEF RunInv, MemoryTypeOK
<1>2. PICK d : d = [m EXCEPT !.wait = kind]
  OBVIOUS
<1>3. /\ AfterReply(w) /\ m.next <= Tools(w)
      /\ kind = "approval" => <<m.iter, m.next>> \notin Inputs
      /\ saved' = d
      /\ pc' = [pc EXCEPT ![w] = "idle"]
      /\ UNCHANGED <<tapeVars, shown, events, token, mem, ver, calls, cause, faults>>
  BY <1>1, <1>2 DEF SuspendFor, ToolsPending, Slot, Goto
<1>4. PICK s \in Store!Stamp :
        Store!Suspend(Run, token[w], ver[w], <<kind, <<m.iter, m.next>>>>, s)
  BY <1>1 DEF SuspendFor, Slot
<1>5. /\ calls[w] = NoCalls /\ m.iter \in Iterations /\ Tools(w) \in 0 .. MaxTools
      /\ m.next \in 1 .. MaxTools + 1 /\ Sound(m) /\ After(m)
  BY <1>1, <1>3, AfterReplyIs
<1>6. d \in Checkpoint /\ d.wait = kind /\ d.phase = m.phase /\ d.iter = m.iter /\ d.next = m.next
  BY <1>2 DEF Checkpoint
<1>7. Sound(d)
  <2>1. Shaped(d)
    BY <1>3, <1>5, <1>6 DEF Sound, Shaped, After
  <2>2. Backed(d)
    BY <1>5, <1>6 DEF Sound, Backed, DoneOf, After
  <2> QED
    BY <2>1, <2>2 DEF Sound
<1>8. <<kind, <<m.iter, m.next>>>> \in Interrupts
  <2>1. m.next \in 1 .. MaxTools
    BY <1>3, <1>5, Bounds
  <2> QED
    BY <1>5, <2>1 DEF Interrupts, Slots
<1>9. saved'.phase # "terminal"
  BY <1>3, <1>5, <1>6 DEF After
<1>10. /\ [Store!Next]_(Store!vars) /\ EndInv' /\ UNCHANGED attempt
       /\ \A x \in Interrupts : intState[x] = "allowed" => intState'[x] = "allowed"
       /\ token[w] = attempt[Run] /\ token[w] > 0
  BY <1>4, <1>8, <1>9, SuspendIs DEF RunInv, EndInv
<1>11. Grows
  BY <1>3, <1>10 DEF Grows, tapeVars
<1>12. MemoryTypeOK
  BY DEF RunInv
<1>13. pc'[w] = "idle" /\ pc' \in [Workers -> Stops] /\ mem'[w] = m /\ calls'[w] = NoCalls
  BY <1>1, <1>3, <1>5, <1>12 DEF MemoryTypeOK, Stops
<1>14. MemoryTypeOK'
  <2>1. Checkpoint' = Checkpoint
    BY DEF Checkpoint
  <2> QED
    BY <1>3, <1>6, <1>12, <1>13, <2>1 DEF MemoryTypeOK, tapeVars
<1>15. \A u \in Workers \ {w} : Untouched(u)
  BY <1>3, <1>12 DEF Untouched, MemoryTypeOK
<1>16. CallsFit(w)' /\ StopFits(w)'
  BY <1>13 DEF CallsFit, StopFits, NoCalls
<1>17. LiveOnTape' /\ ApprovedBeforeLive'
  BY <1>3, <1>11, LiveKept DEF RunInv, tapeVars
<1> QED
  BY <1>3, <1>5, <1>6, <1>7, <1>10, <1>11, <1>13, <1>14, <1>15, <1>16, <1>17, WorkerStep

-----------------------------------------------------------------------------
(* Steps that only move a worker on *)

\* What QuietStep asks of the store, the tape and the log.
Quietly == UNCHANGED <<storeVars, saved, tapeVars, shown, token, mem, policy>>

\* The calls under way are dropped, or there are none.
LEMMA DropStep ==
  ASSUME RunInv, NEW w \in Workers, Quietly,
         events' \subseteq {"run:completed", "run:cancelled", "run:failed"}, events \subseteq events',
         faults' \in 0 .. MaxFaults,
         NEW stop \in Stops \ {"load"}, pc' = [pc EXCEPT ![w] = stop],
         NEW why \in Causes \cup {"none", "cancel", "deadline"}, cause' = [cause EXCEPT ![w] = why],
         \/ calls' = [calls EXCEPT ![w] = NoCalls]
         \/ calls' = calls /\ (calls[w] = NoCalls \/ stop = "idle"),
         pc[w] \in {"idle", "load"} => stop = "idle",
         stop \notin {"model", "tools"},
         stop = "settle" => mem[w].phase = "terminal" /\ Announced(mem[w].result) \in events',
         stop \in {"act", "failing", "controlled"} => mem[w].phase # "terminal",
         stop = "failing" => why \in Causes
  PROVE  Kept
<1>1. MemoryTypeOK
  BY DEF RunInv
<1>2. NoCalls \in [0 .. MaxTools -> Stages]
  BY DEF NoCalls, Stages
<1>3. /\ calls' \in [Workers -> [0 .. MaxTools -> Stages]] /\ pc' \in [Workers -> Stops]
      /\ cause' \in [Workers -> Causes \cup {"none", "cancel", "deadline"}]
  BY <1>1, <1>2 DEF MemoryTypeOK
<1>4. MemoryTypeOK'
  <2>1. Checkpoint' = Checkpoint
    BY DEF Checkpoint
  <2> QED
    BY <1>1, <1>3, <2>1 DEF MemoryTypeOK, Quietly, tapeVars
<1>5. \A u \in Workers \ {w} : Untouched(u)
  BY <1>1 DEF Untouched, MemoryTypeOK, Quietly
<1>6. pc'[w] = stop /\ cause'[w] = why /\ mem' = mem
      /\ (calls'[w] = NoCalls \/ (stop = "idle" /\ calls' = calls))
  BY <1>1 DEF MemoryTypeOK, Quietly
<1>7. StopFits(w)'
  BY <1>6 DEF StopFits
<1>8. CallsFit(w)'
  <2>1. CASE calls'[w] = NoCalls
    BY <1>6, <2>1 DEF CallsFit, NoCalls
  <2>2. CASE stop = "idle" /\ calls' = calls
    <3>1. UNCHANGED <<mem, tape, intState, policy>>
      BY DEF Quietly, tapeVars, storeVars
    <3>2. CallsFit(w)
      BY DEF RunInv
    <3> QED
      BY <1>6, <2>2, <3>1, <3>2 DEF CallsFit, Inputs, Approvals
  <2> QED
    BY <1>6, <2>1, <2>2
<1> QED
  BY <1>4, <1>5, <1>6, <1>7, <1>8, QuietStep DEF Quietly

LEMMA LookKeeps ==
  ASSUME RunInv, NEW w \in Workers, Look(w), UNCHANGED policy
  PROVE  Kept
<1>1. MemoryTypeOK /\ pc[w] = "loop" /\ calls[w] = NoCalls
  BY DEF Look, RunInv, CallsFit
<1>2. Quietly /\ UNCHANGED <<calls, cause, faults>>
  BY DEF Look, Quietly
<1>3. PICK why \in Causes \cup {"none", "cancel", "deadline"} : cause[w] = why
  BY <1>1 DEF MemoryTypeOK
<1>4. cause' = [cause EXCEPT ![w] = why]
  BY <1>1, <1>2, <1>3 DEF MemoryTypeOK
<1>5. PICK stop \in {"cancelling", "settle", "act"} :
        /\ pc' = [pc EXCEPT ![w] = stop]
        /\ stop = "settle" => mem[w].phase = "terminal"
                              /\ events' = events \cup {Announced(mem[w].result)}
        /\ stop # "settle" => events' = events
        /\ stop = "act" => mem[w].phase # "terminal"
  <2>1. CASE mem[w].phase = "terminal" /\ UNCHANGED events /\ pc' = [pc EXCEPT ![w] = "cancelling"]
    BY <2>1
  <2>2. CASE /\ mem[w].phase = "terminal" /\ events' = events \cup {Announced(mem[w].result)}
             /\ pc' = [pc EXCEPT ![w] = "settle"]
    BY <2>2
  <2>3. CASE mem[w].phase # "terminal" /\ UNCHANGED events /\ pc' = [pc EXCEPT ![w] = "cancelling"]
    BY <2>3
  <2>4. CASE mem[w].phase # "terminal" /\ UNCHANGED events /\ pc' = [pc EXCEPT ![w] = "act"]
    BY <2>4
  <2> QED
    BY <2>1, <2>2, <2>3, <2>4 DEF Look, Goto
<1>6. Announced(mem[w].result) \in {"run:completed", "run:cancelled", "run:failed"}
  BY DEF Announced
<1>7. /\ events' \subseteq {"run:completed", "run:cancelled", "run:failed"}
      /\ events \subseteq events' /\ faults' \in 0 .. MaxFaults
  BY <1>1, <1>2, <1>5, <1>6 DEF MemoryTypeOK
<1>8. stop \in Stops \ {"load"}
  BY DEF Stops
<1> QED
  BY <1>1, <1>2, <1>4, <1>5, <1>7, <1>8, DropStep

LEMMA NotAnsweredKeeps ==
  ASSUME RunInv, NEW w \in Workers, NotAnswered(w), UNCHANGED policy
  PROVE  Kept
<1>1. /\ MemoryTypeOK /\ pc[w] = "act" /\ calls[w] = NoCalls /\ mem[w].phase # "terminal"
  BY DEF NotAnswered, ToolsPending, AfterReply, RunInv, CallsFit, StopFits
<1>2. /\ Quietly /\ UNCHANGED <<events, calls, faults>>
      /\ cause' = [cause EXCEPT ![w] = "unanswered"] /\ pc' = [pc EXCEPT ![w] = "failing"]
  BY DEF NotAnswered, Quietly, Goto
<1>3. "failing" \in Stops \ {"load"} /\ "unanswered" \in Causes
  BY DEF Stops, Causes
<1>4. events \subseteq {"run:completed", "run:cancelled", "run:failed"} /\ faults \in 0 .. MaxFaults
  BY <1>1 DEF MemoryTypeOK
<1> QED
  BY <1>1, <1>2, <1>3, <1>4, DropStep

LEMMA FaultIs == ASSUME MemoryTypeOK, Fault PROVE faults' \in 0 .. MaxFaults
  BY Bounds DEF MemoryTypeOK, Fault

LEMMA PhaseTimeoutKeeps ==
  ASSUME RunInv, NEW w \in Workers, PhaseTimeout(w), UNCHANGED policy
  PROVE  Kept
<1>1. /\ MemoryTypeOK /\ pc[w] \in {"model", "tools"} /\ mem[w].phase # "terminal"
  BY DEF PhaseTimeout, RunInv, StopFits
<1>2. /\ Quietly /\ UNCHANGED events /\ calls' = [calls EXCEPT ![w] = NoCalls]
      /\ cause' = [cause EXCEPT ![w] = "phase timeout"] /\ pc' = [pc EXCEPT ![w] = "failing"]
  BY DEF PhaseTimeout, Fail, Quietly, Goto
<1>3. "failing" \in Stops \ {"load"} /\ "phase timeout" \in Causes
  BY DEF Stops, Causes
<1>4. /\ events \subseteq {"run:completed", "run:cancelled", "run:failed"}
      /\ faults' \in 0 .. MaxFaults
  BY <1>1, FaultIs DEF MemoryTypeOK, PhaseTimeout
<1> QED
  BY <1>1, <1>2, <1>3, <1>4, DropStep

LEMMA ControlledKeeps ==
  ASSUME RunInv, NEW w \in Workers, NEW why \in {"cancel", "deadline"}, Controlled(w, why),
         UNCHANGED policy
  PROVE  Kept
<1>1. /\ MemoryTypeOK /\ pc[w] \in {"model", "tools"} /\ mem[w].phase # "terminal"
  BY DEF Controlled, RunInv, StopFits
<1>2. /\ Quietly /\ UNCHANGED events /\ calls' = [calls EXCEPT ![w] = NoCalls]
      /\ cause' = [cause EXCEPT ![w] = why] /\ pc' = [pc EXCEPT ![w] = "controlled"]
  BY DEF Controlled, Quietly, Goto
<1>3. "controlled" \in Stops \ {"load"}
  BY DEF Stops
<1>4. /\ events \subseteq {"run:completed", "run:cancelled", "run:failed"}
      /\ faults' \in 0 .. MaxFaults
  BY <1>1, FaultIs DEF MemoryTypeOK, Controlled
<1> QED
  BY <1>1, <1>2, <1>3, <1>4, DropStep

LEMMA SettleCancelledKeeps ==
  ASSUME RunInv, NEW w \in Workers, SettleCancelled(w), UNCHANGED policy
  PROVE  Kept
<1>1. MemoryTypeOK /\ pc[w] = "settle" /\ calls[w] = NoCalls
  BY DEF SettleCancelled, RunInv, CallsFit
<1>2. /\ Quietly /\ UNCHANGED <<events, calls, cause, faults>>
      /\ pc' = [pc EXCEPT ![w] = "cancelling"]
  BY DEF SettleCancelled, Quietly, Goto
<1>3. PICK why \in Causes \cup {"none", "cancel", "deadline"} : cause[w] = why
  BY <1>1 DEF MemoryTypeOK
<1>4. cause' = [cause EXCEPT ![w] = why]
  BY <1>1, <1>2, <1>3 DEF MemoryTypeOK
<1>5. PICK stop \in Stops \ {"load"} : stop = "cancelling"
  BY DEF Stops
<1>6. /\ events' \subseteq {"run:completed", "run:cancelled", "run:failed"}
      /\ events \subseteq events' /\ faults' \in 0 .. MaxFaults
  BY <1>1, <1>2 DEF MemoryTypeOK
<1>7. /\ pc' = [pc EXCEPT ![w] = stop] /\ stop \notin {"model", "tools"}
      /\ pc[w] \notin {"idle", "load"}
      /\ stop \notin {"settle", "act", "failing", "controlled"}
      /\ calls' = calls /\ calls[w] = NoCalls
  BY <1>1, <1>2, <1>5
<1> QED
  BY <1>2, <1>4, <1>6, <1>7, DropStep

\* A worker that gives up, loses its heartbeat or stops.
LEMMA LeaveStep ==
  ASSUME RunInv, NEW w \in Workers, Leave(w), UNCHANGED <<storeVars, policy>>,
         events' = events \/ events' = events \cup {"run:failed"},
         calls' = calls \/ calls' = [calls EXCEPT ![w] = NoCalls],
         faults' \in 0 .. MaxFaults
  PROVE  Kept
<1>1. MemoryTypeOK
  BY DEF RunInv
<1>2. Quietly /\ UNCHANGED cause /\ pc' = [pc EXCEPT ![w] = "idle"]
  BY DEF Leave, Quietly, Goto
<1>3. PICK why \in Causes \cup {"none", "cancel", "deadline"} : cause[w] = why
  BY <1>1 DEF MemoryTypeOK
<1>4. cause' = [cause EXCEPT ![w] = why]
  BY <1>1, <1>2, <1>3 DEF MemoryTypeOK
<1>5. PICK stop \in Stops \ {"load"} : stop = "idle"
  BY DEF Stops
<1>6. events' \subseteq {"run:completed", "run:cancelled", "run:failed"} /\ events \subseteq events'
  BY <1>1 DEF MemoryTypeOK
<1>7. /\ pc' = [pc EXCEPT ![w] = stop] /\ stop \notin {"model", "tools"}
      /\ pc[w] \in {"idle", "load"} => stop = "idle"
      /\ stop # "settle" /\ stop \notin {"act", "failing", "controlled"} /\ stop # "failing"
      /\ \/ calls' = [calls EXCEPT ![w] = NoCalls]
         \/ calls' = calls /\ (calls[w] = NoCalls \/ stop = "idle")
  BY <1>2, <1>5
<1> QED
  BY <1>2, <1>4, <1>6, <1>7, DropStep

LEMMA GiveUpKeeps ==
  ASSUME RunInv, NEW w \in Workers, GiveUp(w), UNCHANGED policy
  PROVE  Kept
<1>1. faults' \in 0 .. MaxFaults
  BY DEF GiveUp, RunInv, MemoryTypeOK
<1> QED
  BY <1>1, LeaveStep DEF GiveUp

LEMMA HeartbeatLostKeeps ==
  ASSUME RunInv, NEW w \in Workers, HeartbeatLost(w), UNCHANGED policy
  PROVE  Kept
<1>1. faults' \in 0 .. MaxFaults
  BY DEF HeartbeatLost, RunInv, MemoryTypeOK
<1> QED
  BY <1>1, LeaveStep DEF HeartbeatLost

LEMMA CrashKeeps ==
  ASSUME RunInv, NEW w \in Workers, Crash(w), UNCHANGED policy
  PROVE  Kept
<1>1. faults' \in 0 .. MaxFaults
  BY FaultIs DEF Crash, RunInv
<1> QED
  BY <1>1, LeaveStep DEF Crash

LEMMA CallModelKeeps ==
  ASSUME RunInv, NEW w \in Workers, CallModel(w), UNCHANGED policy
  PROVE  Kept
<1>1. PICK row : row = [NoCalls EXCEPT ![0] = "todo"]
  OBVIOUS
<1>2. /\ row \in [0 .. MaxTools -> Stages]
      /\ \A k \in 1 .. MaxTools : row[k] = "none"
      /\ \A k \in 0 .. MaxTools : row[k] \in {"todo", "none"}
  <2>1. NoCalls \in [0 .. MaxTools -> Stages] /\ \A k \in 0 .. MaxTools : NoCalls[k] = "none"
    BY DEF NoCalls, Stages
  <2>2. 0 \in 0 .. MaxTools /\ (\A k \in 1 .. MaxTools : k # 0 /\ k \in 0 .. MaxTools)
    BY Bounds
  <2>3. "todo" \in Stages
    BY DEF Stages
  <2> QED
    BY <1>1, <2>1, <2>2, <2>3
<1>3. /\ MemoryTypeOK /\ pc[w] = "act" /\ mem[w].phase = "before_llm" /\ mem[w].iter \in Iterations
  <2>1. MemoryTypeOK /\ pc[w] = "act" /\ mem[w].phase = "before_llm" /\ Sound(mem[w])
    BY DEF CallModel, RunInv, ContentSound
  <2>2. mem[w].iter \in 0 .. MaxIterations
    BY <2>1 DEF MemoryTypeOK, Checkpoint
  <2>3. mem[w].iter < MaxIterations
    BY <2>1 DEF Sound, Shaped
  <2> QED
    BY <2>1, <2>2, <2>3, Bounds DEF Iterations
<1>4. /\ calls' = [calls EXCEPT ![w] = row] /\ pc' = [pc EXCEPT ![w] = "model"]
      /\ UNCHANGED <<storeVars, saved, tapeVars, shown, events, token, mem, ver, cause, faults>>
  BY <1>1 DEF CallModel, Goto
<1>5. /\ calls'[w] = row /\ pc'[w] = "model"
      /\ calls' \in [Workers -> [0 .. MaxTools -> Stages]] /\ pc' \in [Workers -> Stops]
  BY <1>2, <1>3, <1>4 DEF MemoryTypeOK, Stops
<1>6. MemoryTypeOK'
  <2>1. Checkpoint' = Checkpoint
    BY DEF Checkpoint
  <2> QED
    BY <1>3, <1>4, <1>5, <2>1 DEF MemoryTypeOK, tapeVars
<1>7. \A u \in Workers \ {w} : Untouched(u)
  BY <1>3, <1>4 DEF Untouched, MemoryTypeOK
<1>8. CallsFit(w)' /\ StopFits(w)'
  <2>1. \A k \in 1 .. MaxTools : calls'[w][k] = "none"
    BY <1>2, <1>5
  <2>2. \A k \in 0 .. MaxTools : calls'[w][k] \in {"todo", "none"}
    BY <1>2, <1>5
  <2>3. mem' = mem
    BY <1>4
  <2> QED
    BY <1>3, <1>5, <2>1, <2>2, <2>3 DEF CallsFit, StopFits
<1> QED
  BY <1>3, <1>4, <1>5, <1>6, <1>7, <1>8, QuietStep

LEMMA CallToolsKeeps ==
  ASSUME RunInv, NEW w \in Workers, CallTools(w), UNCHANGED policy
  PROVE  Kept
<1>1. PICK m \in Checkpoint : m = mem[w]
  BY DEF RunInv, MemoryTypeOK
<1>2. /\ AfterReply(w) /\ m.next <= Tools(w) /\ Slot(w) = <<m.iter, m.next>>
      /\ m.wait = "none" \/ (m.wait = "approval" /\ Answered(w))
      /\ ~Boundary(w, Slot(w))
  BY <1>1 DEF CallTools, ToolsPending, Slot
<1>3. /\ m.iter \in Iterations /\ Tools(w) \in 0 .. MaxTools /\ m.next \in 1 .. MaxTools + 1
      /\ Sound(m) /\ After(m) /\ MemoryTypeOK
  BY <1>1, <1>2, AfterReplyIs DEF RunInv
<1>4. PICK batch : batch = Batch(w)
  OBVIOUS
<1>5. /\ batch \subseteq m.next .. Tools(w) /\ batch \subseteq 1 .. MaxTools
      /\ \A k \in batch : k >= m.next /\ \A j \in m.next .. k : j \in batch
      /\ \A k \in batch : /\ <<m.iter, k>> \notin Inputs
                          /\ <<m.iter, k>> \in Approvals =>
                               intState[<<"approval", <<m.iter, k>>>>] = "allowed"
  <2>1. CASE m.wait = "approval"
    <3>1. batch = {m.next}
      BY <1>1, <1>4, <2>1 DEF Batch
    <3>2. m.next \in m.next .. Tools(w) /\ m.next \in 1 .. MaxTools
      BY <1>2, <1>3, Bounds
    <3>3. \A j \in m.next .. m.next : j = m.next
      BY <1>3
    <3>4. <<m.iter, m.next>> \notin Inputs
      BY <1>3, <2>1 DEF Sound, Shaped
    <3>5. intState[<<"approval", <<m.iter, m.next>>>>] = "allowed"
      BY <1>1, <1>2, <2>1 DEF Answered
    <3> QED
      BY <1>3, <3>1, <3>2, <3>3, <3>4, <3>5
  <2>2. CASE m.wait = "none"
    <3>1. batch = {k \in m.next .. Tools(w) :
                     /\ k < m.next + MaxParallel
                     /\ \A j \in m.next .. k : ~Boundary(w, <<m.iter, j>>)}
      BY <1>1, <1>4, <2>2 DEF Batch
    <3>2. \A slot : Boundary(w, slot) <=> slot \in Approvals \cup Inputs
      BY <1>1, <2>2 DEF Boundary
    <3>3. \A k \in m.next .. Tools(w) : k \in 1 .. MaxTools /\ k >= m.next /\ k \in m.next .. k
      BY <1>3, Bounds
    <3>4. ASSUME NEW k \in batch, NEW j \in m.next .. k PROVE j \in batch
      <4>1. j \in m.next .. Tools(w) /\ j < m.next + MaxParallel
        BY <1>3, <3>1, Bounds
      <4>2. \A i \in m.next .. j : i \in m.next .. k
        BY <1>3, <3>1, Bounds
      <4> QED
        BY <3>1, <4>1, <4>2
    <3>5. \A k \in batch : <<m.iter, k>> \notin Approvals \cup Inputs
      BY <3>1, <3>2, <3>3
    <3> QED
      BY <3>1, <3>3, <3>4, <3>5
  <2> QED
    BY <1>2, <2>1, <2>2
<1>6. PICK row : row = [k \in 0 .. MaxTools |-> IF k \in batch THEN "todo" ELSE "none"]
  OBVIOUS
<1>7. /\ row \in [0 .. MaxTools -> Stages]
      /\ \A k \in 0 .. MaxTools : row[k] \in {"todo", "none"} /\ (row[k] = "todo" <=> k \in batch)
  BY <1>6 DEF Stages
<1>8. /\ calls' = [calls EXCEPT ![w] = row] /\ pc' = [pc EXCEPT ![w] = "tools"]
      /\ UNCHANGED <<storeVars, saved, tapeVars, shown, events, token, mem, ver, cause, faults>>
  BY <1>4, <1>6 DEF CallTools, Goto
<1>9. /\ calls'[w] = row /\ pc'[w] = "tools" /\ mem'[w] = m
      /\ calls' \in [Workers -> [0 .. MaxTools -> Stages]] /\ pc' \in [Workers -> Stops]
  BY <1>1, <1>3, <1>7, <1>8 DEF MemoryTypeOK, Stops
<1>10. MemoryTypeOK'
  <2>1. Checkpoint' = Checkpoint
    BY DEF Checkpoint
  <2> QED
    BY <1>3, <1>8, <1>9, <2>1 DEF MemoryTypeOK, tapeVars
<1>11. \A u \in Workers \ {w} : Untouched(u)
  BY <1>3, <1>8 DEF Untouched, MemoryTypeOK
<1>12. CallsFit(w)'
  <2>1. \A k \in 1 .. MaxTools : calls'[w][k] # "none" =>
          k >= m.next /\ \A j \in m.next .. k : calls'[w][j] # "none"
    <3>1. ASSUME NEW k \in 1 .. MaxTools, row[k] # "none"
          PROVE  k >= m.next /\ \A j \in m.next .. k : row[j] # "none"
      <4>1. k \in batch
        BY <1>7, <3>1, Bounds
      <4>2. \A j \in m.next .. k : j \in batch /\ j \in 0 .. MaxTools
        BY <1>5, <4>1, Bounds
      <4> QED
        BY <1>5, <1>7, <4>1, <4>2
    <3> QED
      BY <1>9, <3>1
  <2>2. \A k \in 0 .. MaxTools : calls'[w][k] \in {"todo", "none"}
    BY <1>7, <1>9
  <2>3. \A k \in 1 .. MaxTools : calls'[w][k] = "todo" =>
          /\ <<m.iter, k>> \notin Inputs'
          /\ <<m.iter, k>> \in Approvals' => intState'[<<"approval", <<m.iter, k>>>>] = "allowed"
    <3>1. ASSUME NEW k \in 1 .. MaxTools, row[k] = "todo" PROVE k \in batch
      BY <1>7, <3>1, Bounds
    <3>2. intState' = intState /\ policy' = policy
      BY <1>8 DEF storeVars
    <3> QED
      BY <1>5, <1>9, <3>1, <3>2 DEF Inputs, Approvals
  <2> QED
    BY <1>3, <1>9, <2>1, <2>2, <2>3 DEF CallsFit, After
<1>13. StopFits(w)'
  BY <1>3, <1>9 DEF StopFits, After
<1>14. pc[w] = "act"
  BY <1>2 DEF AfterReply
<1> QED
  BY <1>8, <1>9, <1>10, <1>11, <1>12, <1>13, <1>14, QuietStep

-----------------------------------------------------------------------------
(* Calls *)

\* A call goes on to its next stage, or raises.
LEMMA CallFits ==
  ASSUME RunInv, NEW w \in Workers, NEW k \in 0 .. MaxTools, calls[w][k] # "none", Grows,
         NEW stage \in Stages \ {"todo"}, calls' = [calls EXCEPT ![w][k] = stage], mem' = mem,
         \/ stage # "none" /\ UNCHANGED <<pc, cause>>
         \/ /\ stage = "none"
            /\ IF pc[w] \in {"model", "tools"} THEN \E e \in Causes : Fail(w, e)
               ELSE UNCHANGED <<pc, cause>>,
         stage \in {"answered", "recovered", "done"} =>
           tape'[<<mem[w].iter, k>>] \in Endings
  PROVE  /\ CallsFit(w)' /\ StopFits(w)' /\ \A u \in Workers \ {w} : Untouched(u)
         /\ pc' \in [Workers -> Stops] /\ calls' \in [Workers -> [0 .. MaxTools -> Stages]]
         /\ cause' \in [Workers -> Causes \cup {"none", "cancel", "deadline"}]
         /\ pc[w] \in {"idle", "load"} => pc'[w] \in {"idle", "load"}
<1>1. MemoryTypeOK /\ CallsFit(w) /\ StopFits(w)
  BY DEF RunInv
<1>2. /\ calls \in [Workers -> [0 .. MaxTools -> Stages]] /\ pc \in [Workers -> Stops]
      /\ cause \in [Workers -> Causes \cup {"none", "cancel", "deadline"}]
  BY <1>1 DEF MemoryTypeOK
<1>3. calls' \in [Workers -> [0 .. MaxTools -> Stages]]
      /\ calls'[w][k] = stage /\ (\A j \in 0 .. MaxTools : j # k => calls'[w][j] = calls[w][j])
  BY <1>2
<1>4. pc[w] \in {"idle", "model", "tools", "failing"}
  BY <1>1, <1>2 DEF CallsFit, NoCalls, Stops
<1>5. \/ pc'[w] = pc[w] /\ UNCHANGED <<pc, cause>> /\ (stage = "none" => pc[w] \in {"idle", "failing"})
      \/ /\ pc'[w] = "failing" /\ pc[w] \in {"model", "tools"} /\ cause'[w] \in Causes
         /\ \E e \in Causes : pc' = [pc EXCEPT ![w] = "failing"] /\ cause' = [cause EXCEPT ![w] = e]
  BY <1>2, <1>4 DEF Fail, Goto
<1>6. pc' \in [Workers -> Stops]
      /\ cause' \in [Workers -> Causes \cup {"none", "cancel", "deadline"}]
  BY <1>2, <1>5 DEF Stops
<1>7. \A u \in Workers \ {w} : Untouched(u)
  BY <1>2, <1>5 DEF Untouched
<1>8. StopFits(w)'
  BY <1>1, <1>4, <1>5 DEF StopFits
<1>9. CallsFit(w)'
  <2>1. pc'[w] = "model" =>
          mem'[w].phase = "before_llm" /\ \A j \in 1 .. MaxTools : calls'[w][j] = "none"
    <3>1. pc'[w] = "model" => pc[w] = "model" /\ mem[w].phase = "before_llm"
            /\ (\A j \in 1 .. MaxTools : calls[w][j] = "none")
      BY <1>1, <1>5 DEF CallsFit
    <3>2. \A j \in 1 .. MaxTools : j \in 0 .. MaxTools
      BY Bounds
    <3> QED
      BY <1>3, <3>1, <3>2
  <2>2. pc'[w] = "tools" =>
          /\ After(mem'[w])
          /\ \A i \in 1 .. MaxTools : calls'[w][i] # "none" =>
               i >= mem'[w].next /\ \A j \in mem'[w].next .. i : calls'[w][j] # "none"
    <3>1. pc'[w] = "tools" =>
            /\ pc[w] = "tools" /\ After(mem[w]) /\ stage # "none"
            /\ \A i \in 1 .. MaxTools : calls[w][i] # "none" =>
                 i >= mem[w].next /\ \A j \in mem[w].next .. i : calls[w][j] # "none"
      BY <1>1, <1>5 DEF CallsFit
    <3>2. \A i \in 1 .. MaxTools : \A j \in mem[w].next .. i : j \in 0 .. MaxTools
      <4>1. mem[w].next \in 1 .. MaxTools + 1
        BY <1>1 DEF MemoryTypeOK, Checkpoint
      <4> QED
        BY <4>1, Bounds
    <3>3. \A i \in 1 .. MaxTools : i \in 0 .. MaxTools
      BY Bounds
    <3>4. pc'[w] = "tools" => \A i \in 0 .. MaxTools : calls'[w][i] # "none" <=> calls[w][i] # "none"
      BY <1>3, <3>1
    <3> QED
      BY <3>1, <3>2, <3>3, <3>4 DEF After
  <2>3. \A j \in 0 .. MaxTools : calls'[w][j] # "none" => mem'[w].iter \in Iterations
    BY <1>1, <1>3 DEF CallsFit
  <2>4. ASSUME NEW j \in 0 .. MaxTools, calls'[w][j] \in {"answered", "recovered", "done"}
        PROVE  tape'[<<mem'[w].iter, j>>] \in Endings
    <3>1. CASE j = k
      BY <1>3, <2>4, <3>1
    <3>2. CASE j # k
      <4>1. calls[w][j] \in {"answered", "recovered", "done"}
        BY <1>3, <2>4, <3>2
      <4>2. mem[w].iter \in Iterations /\ tape[<<mem[w].iter, j>>] \in Endings
        BY <1>1, <4>1 DEF CallsFit
      <4>3. <<mem[w].iter, j>> \in Effects
        BY <4>2 DEF Effects
      <4> QED
        BY <4>2, <4>3 DEF Grows
    <3> QED
      BY <3>1, <3>2
  <2>5. ASSUME NEW j \in 1 .. MaxTools, calls'[w][j] = "todo"
        PROVE  LET slot == <<mem'[w].iter, j>> IN
               slot \notin Inputs' /\ (slot \in Approvals' => intState'[<<"approval", slot>>] = "allowed")
    <3>1. j \in 0 .. MaxTools /\ calls[w][j] = "todo"
      BY <1>3, <2>5, Bounds
    <3>2. mem[w].iter \in Iterations
      BY <1>1, <3>1 DEF CallsFit
    <3>3. <<"approval", <<mem[w].iter, j>>>> \in Interrupts
      BY <3>2 DEF Interrupts, Slots
    <3> QED
      BY <1>1, <3>1, <3>3 DEF CallsFit, Grows, Inputs, Approvals
  <2> QED
    BY <1>4, <1>5, <2>1, <2>2, <2>3, <2>4, <2>5 DEF CallsFit
<1> QED
  BY <1>3, <1>4, <1>5, <1>6, <1>7, <1>8, <1>9

\* Which effect a call under way is for.
LEMMA CallIs ==
  ASSUME RunInv, NEW w \in Workers, NEW k \in 0 .. MaxTools, calls[w][k] # "none"
  PROVE  /\ MemoryTypeOK /\ mem[w].iter \in Iterations /\ <<mem[w].iter, k>> \in Effects
         /\ calls[w][k] \in {"answered", "recovered", "done"} => tape[<<mem[w].iter, k>>] \in Endings
<1>1. MemoryTypeOK /\ CallsFit(w)
  BY DEF RunInv
<1>2. mem[w].iter \in Iterations
  BY <1>1 DEF CallsFit
<1> QED
  BY <1>1, <1>2 DEF CallsFit, Effects

\* What a step of a call leaves alone: the store, and every checkpoint.
Call(w) == UNCHANGED <<storeVars, saved, events, token, mem, ver, faults, policy>>

LEMMA CallStep ==
  ASSUME RunInv, NEW w \in Workers, Call(w), Grows,
         CallsFit(w)', StopFits(w)', \A u \in Workers \ {w} : Untouched(u),
         pc' \in [Workers -> Stops], calls' \in [Workers -> [0 .. MaxTools -> Stages]],
         cause' \in [Workers -> Causes \cup {"none", "cancel", "deadline"}],
         tape' \in [Effects -> {"none", "intent"} \cup Endings],
         reply' \in [Iterations -> Replies \cup {NoReply}],
         live' \in [Effects -> Nat],
         pc[w] \in {"idle", "load"} => pc'[w] \in {"idle", "load"},
         LiveOnTape', ApprovedBeforeLive'
  PROVE  Kept
<1>1. MemoryTypeOK
  BY DEF RunInv
<1>2. MemoryTypeOK'
  <2>1. Checkpoint' = Checkpoint
    BY DEF Checkpoint
  <2> QED
    BY <1>1, <2>1 DEF MemoryTypeOK, Call
<1>3. [Store!Next]_(Store!vars)
  BY DEF Call, storeVars, Store!vars, Store!taskVars, Store!leaseVars, Store!intVars
<1>4. EndInv' /\ UNCHANGED <<token, attempt>>
  BY EndQuiet DEF RunInv, EndInv, Call, storeVars
<1>5. PICK c \in Checkpoint : c = mem[w]
  BY <1>1 DEF MemoryTypeOK
<1>6. PICK d \in Checkpoint : d = saved
  BY <1>1 DEF MemoryTypeOK
<1>7. Sound(c) /\ Sound(d)
  BY <1>5, <1>6 DEF RunInv, ContentSound
<1>8. pc'[w] \notin {"idle", "load"} /\ token[w] = attempt[Run] => c = d
  BY <1>5, <1>6 DEF RunInv, OwnerSynced
<1>9. mem'[w] = c /\ saved' = d
  BY <1>5, <1>6 DEF Call
<1> QED
  BY <1>2, <1>3, <1>4, <1>5, <1>6, <1>7, <1>8, <1>9, WorkerStep

\* A call that executes nothing and ends nothing.
LEMMA TapeKept ==
  ASSUME RunInv, NEW w \in Workers, Call(w), UNCHANGED tapeVars
  PROVE  /\ Grows /\ LiveOnTape' /\ ApprovedBeforeLive'
         /\ tape' \in [Effects -> {"none", "intent"} \cup Endings]
         /\ reply' \in [Iterations -> Replies \cup {NoReply}]
         /\ live' \in [Effects -> Nat]
<1>1. Grows
  BY DEF Grows, Call, tapeVars, storeVars
<1>2. LiveOnTape' /\ ApprovedBeforeLive'
  BY <1>1, LiveKept DEF RunInv, tapeVars
<1> QED
  BY <1>1, <1>2 DEF RunInv, MemoryTypeOK, tapeVars

LEMMA RecoverKeeps ==
  ASSUME RunInv, NEW w \in Workers, NEW k \in 0 .. MaxTools, Recover(w, k), UNCHANGED policy
  PROVE  Kept
<1>1. Call(w) /\ UNCHANGED tapeVars /\ calls[w][k] # "none" /\ mem' = mem
  BY DEF Recover, Call
<1>2. /\ Grows /\ LiveOnTape' /\ ApprovedBeforeLive'
      /\ tape' \in [Effects -> {"none", "intent"} \cup Endings]
      /\ reply' \in [Iterations -> Replies \cup {NoReply}]
      /\ live' \in [Effects -> Nat]
  BY <1>1, TapeKept
<1>3. PICK stage \in {"none", "recovered"} :
        /\ calls' = [calls EXCEPT ![w][k] = stage]
        /\ \/ stage # "none" /\ UNCHANGED <<pc, cause>> /\ tape[<<mem[w].iter, k>>] \in Endings
           \/ /\ stage = "none"
              /\ IF pc[w] \in {"model", "tools"} THEN \E e \in Causes : Fail(w, e)
                 ELSE UNCHANGED <<pc, cause>>
  <2>1. CASE tape[<<mem[w].iter, k>>] = "intent" /\ Raise(w, k, "orphaned effect")
    BY <2>1 DEF Raise, Causes
  <2>2. CASE tape[<<mem[w].iter, k>>] # "intent" /\ UNCHANGED <<pc, cause>>
             /\ calls' = [calls EXCEPT ![w][k] = "recovered"]
    <3>1. tape[<<mem[w].iter, k>>] \in {"none", "intent"} \cup Endings /\ tape[<<mem[w].iter, k>>] # "none"
      BY <1>1, CallIs DEF MemoryTypeOK, Recover, Admissible
    <3> QED
      BY <2>2, <3>1
  <2> QED
    BY <2>1, <2>2 DEF Recover
<1>4. stage \in Stages \ {"todo"} /\
      (stage \in {"answered", "recovered", "done"} => tape'[<<mem[w].iter, k>>] \in Endings)
  BY <1>1, <1>3 DEF Stages, tapeVars
<1>5. /\ CallsFit(w)' /\ StopFits(w)' /\ \A u \in Workers \ {w} : Untouched(u)
      /\ pc' \in [Workers -> Stops] /\ calls' \in [Workers -> [0 .. MaxTools -> Stages]]
      /\ cause' \in [Workers -> Causes \cup {"none", "cancel", "deadline"}]
      /\ pc[w] \in {"idle", "load"} => pc'[w] \in {"idle", "load"}
  BY <1>1, <1>2, <1>3, <1>4, CallFits
<1> QED
  BY <1>1, <1>2, <1>5, CallStep

LEMMA CompletedKeeps ==
  ASSUME RunInv, NEW w \in Workers, NEW k \in 0 .. MaxTools, Completed(w, k), UNCHANGED policy
  PROVE  Kept
<1>1. /\ Call(w) /\ UNCHANGED tapeVars /\ calls[w][k] # "none" /\ mem' = mem
      /\ calls[w][k] \in {"answered", "recovered", "done"}
  BY DEF Completed, Call
<1>2. /\ Grows /\ LiveOnTape' /\ ApprovedBeforeLive'
      /\ tape' \in [Effects -> {"none", "intent"} \cup Endings]
      /\ reply' \in [Iterations -> Replies \cup {NoReply}]
      /\ live' \in [Effects -> Nat]
  BY <1>1, TapeKept
<1>3. PICK stage \in {"none", "done"} :
        /\ calls' = [calls EXCEPT ![w][k] = stage]
        /\ \/ stage # "none" /\ UNCHANGED <<pc, cause>>
           \/ /\ stage = "none"
              /\ IF pc[w] \in {"model", "tools"} THEN \E e \in Causes : Fail(w, e)
                 ELSE UNCHANGED <<pc, cause>>
  <2>1. CASE Raise(w, k, "event conflict")
    BY <2>1 DEF Raise, Causes
  <2>2. CASE UNCHANGED <<pc, cause>> /\ calls' = [calls EXCEPT ![w][k] = "done"]
    BY <2>2
  <2> QED
    BY <2>1, <2>2 DEF Completed
<1>4. stage \in Stages \ {"todo"} /\
      (stage \in {"answered", "recovered", "done"} => tape'[<<mem[w].iter, k>>] \in Endings)
  BY <1>1, <1>3, CallIs DEF Stages, tapeVars
<1>5. /\ CallsFit(w)' /\ StopFits(w)' /\ \A u \in Workers \ {w} : Untouched(u)
      /\ pc' \in [Workers -> Stops] /\ calls' \in [Workers -> [0 .. MaxTools -> Stages]]
      /\ cause' \in [Workers -> Causes \cup {"none", "cancel", "deadline"}]
      /\ pc[w] \in {"idle", "load"} => pc'[w] \in {"idle", "load"}
  BY <1>1, <1>2, <1>3, <1>4, CallFits
<1> QED
  BY <1>1, <1>2, <1>5, CallStep

\* An effect is executed when the tape knows nothing of it, and then it does.
LEMMA ExecuteKeeps ==
  ASSUME RunInv, NEW w \in Workers, NEW k \in 0 .. MaxTools, Execute(w, k), UNCHANGED policy
  PROVE  Kept
<1>1. PICK e : e = <<mem[w].iter, k>>
  OBVIOUS
<1>2. /\ calls[w][k] = "todo" /\ tape[e] = "none" /\ Call(w) /\ UNCHANGED <<pc, cause>> /\ mem' = mem
  BY <1>1 DEF Execute, Admissible, Call
<1>3. /\ MemoryTypeOK /\ mem[w].iter \in Iterations /\ e \in Effects /\ e[1] = mem[w].iter /\ e[2] = k
  BY <1>1, <1>2, CallIs
<1>4. tape[e] \notin Endings /\ "rejected" \in Endings /\ Error \in Replies
  BY <1>2 DEF Endings, Replies
<1>5. PICK how \in {"intent", "rejected"}, stage \in {"live", "answered"} :
        /\ tape' = [tape EXCEPT ![e] = how] /\ calls' = [calls EXCEPT ![w][k] = stage]
        /\ \/ reply' = reply
           \/ e[2] = 0 /\ \E r \in Replies : reply' = [reply EXCEPT ![e[1]] = r]
        /\ stage = "answered" => how = "rejected" /\ live' = live
        /\ stage = "live" => live' = [live EXCEPT ![e] = @ + 1]
  <2>1. CASE /\ tape' = [tape EXCEPT ![e] = "intent"] /\ live' = [live EXCEPT ![e] = @ + 1]
             /\ calls' = [calls EXCEPT ![w][k] = "live"] /\ UNCHANGED reply
    BY <2>1
  <2>2. CASE /\ tape' = [tape EXCEPT ![e] = "rejected"]
             /\ reply' = IF k = 0 THEN [reply EXCEPT ![mem[w].iter] = Error] ELSE reply
             /\ calls' = [calls EXCEPT ![w][k] = "answered"] /\ UNCHANGED live
    <3>1. \/ reply' = reply
          \/ e[2] = 0 /\ \E r \in Replies : reply' = [reply EXCEPT ![e[1]] = r]
      BY <1>3, <1>4, <2>2
    <3> QED
      BY <2>2, <3>1
  <2> QED
    BY <1>1, <2>1, <2>2 DEF Execute
<1>6. /\ tape' \in [Effects -> {"none", "intent"} \cup Endings]
      /\ reply' \in [Iterations -> Replies \cup {NoReply}]
      /\ tape'[e] = how
      /\ \A x \in Effects : tape[x] \in Endings => tape'[x] = tape[x]
      /\ \A x \in Effects : tape'[x] = "none" => tape[x] = "none"
      /\ \A i \in Iterations : tape[<<i, 0>>] \in Endings => reply'[i] = reply[i]
  BY <1>3, <1>4, <1>5, EndsOnce
<1>7. Grows
  BY <1>2, <1>6 DEF Grows, Call, storeVars
<1>8. live' \in [Effects -> Nat] /\ (\A x \in Effects : x # e => live'[x] = live[x])
      /\ live'[e] \in {live[e], live[e] + 1}
  <2>1. live \in [Effects -> Nat]
    BY <1>3 DEF MemoryTypeOK
  <2> QED
    BY <1>3, <1>5, <2>1
<1>9. LiveOnTape'
  <2>1. live[e] = 0
    BY <1>2, <1>3 DEF RunInv, LiveOnTape
  <2>2. tape'[e] # "none"
    BY <1>6
  <2> QED
    BY <1>6, <1>8, <2>1, <2>2 DEF RunInv, LiveOnTape
<1>10. ApprovedBeforeLive'
  <2>1. UNCHANGED <<intState, policy>>
    BY <1>2 DEF Call, storeVars
  <2>2. e \in Slots => e \notin Inputs /\ (e \in Approvals => intState[<<"approval", e>>] = "allowed")
    <3>1. e \in Slots => k \in 1 .. MaxTools
      BY <1>1 DEF Slots
    <3> QED
      BY <1>1, <1>2, <3>1 DEF RunInv, CallsFit
  <2>3. Slots \subseteq Effects
    BY Bounds DEF Slots, Effects
  <2> QED
    BY <1>8, <2>1, <2>2, <2>3 DEF RunInv, ApprovedBeforeLive, Inputs, Approvals
<1>11. stage \in Stages \ {"todo"} /\ stage # "none" /\ calls[w][k] # "none"
       /\ (stage \in {"answered", "recovered", "done"} => tape'[<<mem[w].iter, k>>] \in Endings)
  BY <1>1, <1>2, <1>4, <1>5, <1>6 DEF Stages
<1>12. /\ CallsFit(w)' /\ StopFits(w)' /\ \A u \in Workers \ {w} : Untouched(u)
       /\ pc' \in [Workers -> Stops] /\ calls' \in [Workers -> [0 .. MaxTools -> Stages]]
       /\ cause' \in [Workers -> Causes \cup {"none", "cancel", "deadline"}]
       /\ pc[w] \in {"idle", "load"} => pc'[w] \in {"idle", "load"}
  BY <1>2, <1>5, <1>7, <1>11, CallFits
<1> QED
  BY <1>2, <1>6, <1>7, <1>8, <1>9, <1>10, <1>12, CallStep

LEMMA AnswerKeeps ==
  ASSUME RunInv, NEW w \in Workers, NEW k \in 0 .. MaxTools, Answer(w, k), UNCHANGED policy
  PROVE  Kept
<1>1. PICK e : e = <<mem[w].iter, k>>
  OBVIOUS
<1>2. /\ calls[w][k] = "live" /\ calls[w][k] # "none" /\ Call(w) /\ mem' = mem /\ live' = live
  BY DEF Answer, Call
<1>3. /\ MemoryTypeOK /\ mem[w].iter \in Iterations /\ e \in Effects /\ e[1] = mem[w].iter /\ e[2] = k
  BY <1>1, <1>2, CallIs
<1>4. CASE /\ tape[e] = "intent"
           /\ \E how \in {"ok"} \cup IF k = 0 THEN {} ELSE {"unrecordable"} :
                tape' = [tape EXCEPT ![e] = how]
           /\ IF k = 0
              THEN \E r \in Replies : reply' = [reply EXCEPT ![mem[w].iter] = r]
              ELSE UNCHANGED reply
           /\ calls' = [calls EXCEPT ![w][k] = "answered"]
           /\ UNCHANGED <<pc, cause>>
  <2>1. PICK how \in Endings : tape' = [tape EXCEPT ![e] = how]
    BY <1>4 DEF Endings
  <2>2. \/ reply' = reply
        \/ e[2] = 0 /\ \E r \in Replies : reply' = [reply EXCEPT ![e[1]] = r]
    BY <1>3, <1>4
  <2>3. tape[e] \notin Endings
    BY <1>4 DEF Endings
  <2>4. /\ tape' \in [Effects -> {"none", "intent"} \cup Endings]
        /\ reply' \in [Iterations -> Replies \cup {NoReply}]
        /\ tape'[e] = how
        /\ \A x \in Effects : tape[x] \in Endings => tape'[x] = tape[x]
        /\ \A x \in Effects : tape'[x] = "none" => tape[x] = "none"
        /\ \A i \in Iterations : tape[<<i, 0>>] \in Endings => reply'[i] = reply[i]
    BY <1>3, <2>1, <2>2, <2>3, EndsOnce
  <2>5. Grows
    BY <1>2, <2>4 DEF Grows, Call, storeVars
  <2>6. LiveOnTape' /\ ApprovedBeforeLive' /\ live' \in [Effects -> Nat]
    BY <1>2, <2>4, <2>5, LiveKept DEF RunInv, MemoryTypeOK
  <2>7. PICK stage \in Stages \ {"todo"} : stage = "answered"
    BY DEF Stages
  <2>8. /\ calls' = [calls EXCEPT ![w][k] = stage] /\ stage # "none"
        /\ tape'[<<mem[w].iter, k>>] \in Endings
    BY <1>1, <1>4, <2>4, <2>7
  <2>9. /\ CallsFit(w)' /\ StopFits(w)' /\ \A u \in Workers \ {w} : Untouched(u)
        /\ pc' \in [Workers -> Stops] /\ calls' \in [Workers -> [0 .. MaxTools -> Stages]]
        /\ cause' \in [Workers -> Causes \cup {"none", "cancel", "deadline"}]
        /\ pc[w] \in {"idle", "load"} => pc'[w] \in {"idle", "load"}
    BY <1>2, <1>4, <2>5, <2>8, CallFits
  <2> QED
    BY <1>2, <2>4, <2>5, <2>6, <2>9, CallStep
<1>5. CASE Raise(w, k, "duplicate result") /\ UNCHANGED <<tape, reply>>
  <2>1. UNCHANGED tapeVars
    BY <1>2, <1>5 DEF tapeVars
  <2>2. /\ Grows /\ LiveOnTape' /\ ApprovedBeforeLive'
        /\ tape' \in [Effects -> {"none", "intent"} \cup Endings]
        /\ reply' \in [Iterations -> Replies \cup {NoReply}]
        /\ live' \in [Effects -> Nat]
    BY <1>2, <2>1, TapeKept
  <2>3. PICK stage \in Stages \ {"todo"} : stage = "none"
    BY DEF Stages
  <2>4. /\ calls' = [calls EXCEPT ![w][k] = stage]
        /\ IF pc[w] \in {"model", "tools"} THEN \E x \in Causes : Fail(w, x)
           ELSE UNCHANGED <<pc, cause>>
    BY <1>5, <2>3 DEF Raise, Causes
  <2>5. stage \notin {"answered", "recovered", "done"}
    BY <2>3
  <2>6. /\ CallsFit(w)' /\ StopFits(w)' /\ \A u \in Workers \ {w} : Untouched(u)
        /\ pc' \in [Workers -> Stops] /\ calls' \in [Workers -> [0 .. MaxTools -> Stages]]
        /\ cause' \in [Workers -> Causes \cup {"none", "cancel", "deadline"}]
        /\ pc[w] \in {"idle", "load"} => pc'[w] \in {"idle", "load"}
    BY <1>2, <2>2, <2>3, <2>4, <2>5, CallFits
  <2> QED
    BY <1>2, <2>2, <2>6, CallStep
<1> QED
  BY <1>1, <1>4, <1>5 DEF Answer

-----------------------------------------------------------------------------
(* Controlled ends, settlement and failure *)

LEMMA FinishControlledKeeps ==
  ASSUME RunInv, NEW w \in Workers, FinishControlled(w), UNCHANGED policy
  PROVE  Kept
<1>1. MemoryTypeOK /\ pc[w] = "controlled" /\ calls[w] = NoCalls /\ mem[w].phase # "terminal"
  BY DEF FinishControlled, RunInv, CallsFit, StopFits
<1>2. events \subseteq {"run:completed", "run:cancelled", "run:failed"} /\ faults \in 0 .. MaxFaults
  BY <1>1 DEF MemoryTypeOK
<1>3. UNCHANGED <<storeVars, saved, tapeVars, shown, events, token, calls, faults>>
  BY DEF FinishControlled
<1>4. CASE Fail(w, "recovery required") /\ UNCHANGED <<mem, ver>>
  <2>1. Quietly /\ cause' = [cause EXCEPT ![w] = "recovery required"]
        /\ pc' = [pc EXCEPT ![w] = "failing"]
    BY <1>3, <1>4 DEF Quietly, Fail, Goto
  <2>2. "failing" \in Stops \ {"load"} /\ "recovery required" \in Causes
    BY DEF Stops, Causes
  <2> QED
    BY <1>1, <1>2, <1>3, <2>1, <2>2, DropStep
<1>5. CASE /\ mem' = [mem EXCEPT ![w] = saved] /\ UNCHANGED cause
           /\ \E stop \in {"expiring", "cancelling", "requesting"} : Goto(w, stop)
  <2>1. PICK stop \in {"expiring", "cancelling", "requesting"} : pc' = [pc EXCEPT ![w] = stop]
    BY <1>5 DEF Goto
  <2>2. /\ pc'[w] = stop /\ mem'[w] = saved /\ calls'[w] = NoCalls
        /\ pc' \in [Workers -> Stops] /\ mem' \in [Workers -> Checkpoint]
    BY <1>1, <1>3, <1>5, <2>1 DEF MemoryTypeOK, Stops
  <2>3. MemoryTypeOK'
    <3>1. Checkpoint' = Checkpoint
      BY DEF Checkpoint
    <3> QED
      BY <1>1, <1>3, <1>5, <2>2, <3>1 DEF MemoryTypeOK, tapeVars
  <2>4. [Store!Next]_(Store!vars)
    BY <1>3 DEF storeVars, Store!vars, Store!taskVars, Store!leaseVars, Store!intVars
  <2>5. EndInv'
    BY <1>3, EndQuiet DEF RunInv, EndInv, storeVars
  <2>6. Grows /\ UNCHANGED <<token, attempt>>
    BY <1>3 DEF Grows, storeVars, tapeVars
  <2>7. LiveOnTape' /\ ApprovedBeforeLive'
    BY <1>3, <2>6, LiveKept DEF RunInv, tapeVars
  <2>8. PICK c \in Checkpoint : c = saved
    BY <1>1 DEF MemoryTypeOK
  <2>9. Sound(c)
    BY <2>8 DEF RunInv, ContentSound
  <2>10. CallsFit(w)' /\ StopFits(w)'
    BY <2>2 DEF CallsFit, StopFits, NoCalls
  <2>11. \A u \in Workers \ {w} : Untouched(u)
    BY <1>1, <1>3, <1>5, <2>1 DEF Untouched, MemoryTypeOK
  <2>12. mem'[w] = c /\ saved' = c
    BY <1>3, <2>2, <2>8
  <2> QED
    BY <2>3, <2>4, <2>5, <2>6, <2>7, <2>8, <2>9, <2>10, <2>11, <2>12, WorkerStep
<1> QED
  BY <1>4, <1>5 DEF FinishControlled

\* A call of the store after which the worker has nothing to do but to leave, or
\* to end its run.
LEMMA StoreStep ==
  ASSUME RunInv, NEW w \in Workers, [Store!Next]_(Store!vars), EndInv', UNCHANGED attempt,
         \A x \in Interrupts : intState[x] = "allowed" => intState'[x] = "allowed",
         UNCHANGED <<saved, tapeVars, token, mem, calls, cause, faults, policy>>,
         events' = events \/ events' = events \cup {"run:failed"},
         NEW stop \in {"idle", "cancelling"}, pc' = [pc EXCEPT ![w] = stop],
         stop = "cancelling" => calls[w] = NoCalls /\ pc[w] \notin {"idle", "load"}
  PROVE  Kept
<1>1. MemoryTypeOK /\ CallsFit(w)
  BY DEF RunInv
<1>2. Grows
  BY DEF Grows, tapeVars
<1>3. pc'[w] = stop /\ pc' \in [Workers -> Stops]
  BY <1>1 DEF MemoryTypeOK, Stops
<1>4. MemoryTypeOK'
  <2>1. Checkpoint' = Checkpoint
    BY DEF Checkpoint
  <2> QED
    BY <1>1, <1>3, <2>1 DEF MemoryTypeOK, tapeVars
<1>5. LiveOnTape' /\ ApprovedBeforeLive'
  BY <1>2, LiveKept DEF RunInv, tapeVars
<1>6. PICK c \in Checkpoint : c = mem[w]
  BY <1>1 DEF MemoryTypeOK
<1>7. PICK d \in Checkpoint : d = saved
  BY <1>1 DEF MemoryTypeOK
<1>8. /\ Sound(c) /\ Sound(d) /\ mem'[w] = c /\ saved' = d
      /\ pc'[w] \notin {"idle", "load"} /\ token[w] = attempt[Run] => c = d
  BY <1>3, <1>6, <1>7 DEF RunInv, ContentSound, OwnerSynced
<1>9. \A u \in Workers \ {w} : Untouched(u)
  BY <1>1 DEF Untouched, MemoryTypeOK
<1>10. StopFits(w)'
  BY <1>3 DEF StopFits
<1>11. CallsFit(w)'
  <2>1. ASSUME NEW j \in 1 .. MaxTools, calls[w][j] = "todo"
        PROVE  LET slot == <<mem[w].iter, j>> IN
               slot \notin Inputs' /\ (slot \in Approvals' => intState'[<<"approval", slot>>] = "allowed")
    <3>1. j \in 0 .. MaxTools
      BY Bounds
    <3>2. mem[w].iter \in Iterations
      BY <1>1, <2>1, <3>1 DEF CallsFit
    <3>3. <<"approval", <<mem[w].iter, j>>>> \in Interrupts
      BY <3>2 DEF Interrupts, Slots
    <3> QED
      BY <1>1, <2>1, <3>3 DEF CallsFit, Inputs, Approvals
  <2>2. UNCHANGED <<mem, calls, tape>>
    BY DEF tapeVars
  <2> QED
    BY <1>1, <1>3, <2>1, <2>2 DEF CallsFit
<1> QED
  BY <1>2, <1>4, <1>5, <1>6, <1>7, <1>8, <1>9, <1>10, <1>11, WorkerStep

LEMMA RequestOwnCancelKeeps ==
  ASSUME RunInv, NEW w \in Workers, RequestOwnCancel(w), UNCHANGED policy
  PROVE  Kept
<1>1. pc[w] = "requesting" /\ calls[w] = NoCalls
  BY DEF RequestOwnCancel, RunInv, CallsFit
<1>2. /\ Store!RequestCancel(Run) /\ pc' = [pc EXCEPT ![w] = "cancelling"]
      /\ UNCHANGED <<saved, tapeVars, shown, events, token, mem, ver, calls, cause, faults>>
  BY DEF RequestOwnCancel, Goto
<1>3. Store!CancelActive(Run) /\ UNCHANGED <<error, reopening>> /\ Failures' = Failures
  BY <1>2, CancelEventsAre, OtherEvents DEF Store!RequestCancel
<1>4. /\ EndInv' /\ attempt' = attempt
      /\ \A x \in Interrupts : intState[x] = "allowed" => intState'[x] = "allowed"
  BY <1>2, <1>3, CancelIs DEF RunInv, EndInv
<1>5. [Store!Next]_(Store!vars)
  BY <1>2 DEF Store!Next
<1> QED
  BY <1>1, <1>2, <1>4, <1>5, StoreStep

LEMMA SettleKeeps ==
  ASSUME RunInv, NEW w \in Workers, Settle(w), UNCHANGED policy
  PROVE  Kept
<1>1. /\ pc[w] = "settle" /\ mem[w].phase = "terminal" /\ Announced(mem[w].result) \in events
      /\ Sound(mem[w]) /\ mem[w] \in Checkpoint /\ Control!IInv /\ EndInv
  BY DEF Settle, RunInv, StopFits, ContentSound, MemoryTypeOK, EndInv
<1>2. /\ pc' = [pc EXCEPT ![w] = "idle"]
      /\ UNCHANGED <<saved, tapeVars, shown, token, mem, cause, events, calls, faults>>
  BY DEF Settle, Leave, Goto
<1>3. mem[w].result \in Results /\ mem[w] = Terminal(mem[w], mem[w].result)
  BY <1>1 DEF Sound, Shaped
<1>4. PICK s \in Store!Stamp :
        \/ SettlesAs(mem[w].result) = "completed" /\ Store!CompleteRun(Run, token[w], s)
        \/ SettlesAs(mem[w].result) = "cancelled" /\ Store!FinishCancelled(Run, token[w], s)
        \/ SettlesAs(mem[w].result) = "failed" /\ Store!FailRun(Run, token[w], "agent termination", s)
  BY DEF Settle
<1>5. Store!HoldsLease(Run, token[w], s)
  BY <1>4 DEF Store!CompleteRun, Store!FinishCancelled, Store!FailRun, Store!Settle
<1>6. mem[w] = saved
  BY <1>1, <1>5, WriterOwns DEF RunInv, OwnerSynced
<1>7. [Store!Next]_(Store!vars) /\ EndInv' /\ UNCHANGED <<attempt, intState>>
  <2>1. CASE SettlesAs(mem[w].result) = "completed" /\ Store!CompleteRun(Run, token[w], s)
    <3>1. mem[w].result = "natural"
      BY <1>3, <2>1 DEF SettlesAs, Results
    <3>2. saved = Terminal(saved, "natural") /\ "run:completed" \in events
      BY <1>1, <1>3, <1>6, <3>1 DEF Announced
    <3> QED
      BY <1>1, <1>2, <2>1, <3>2, CompletedIs
  <2>2. CASE SettlesAs(mem[w].result) = "cancelled" /\ Store!FinishCancelled(Run, token[w], s)
    <3>1. mem[w].result = "cancelled"
      BY <1>3, <2>2 DEF SettlesAs, Results
    <3>2. saved.result = "cancelled" /\ "run:cancelled" \in events
      BY <1>1, <1>6, <3>1 DEF Announced
    <3> QED
      BY <1>1, <1>2, <2>2, <3>2, CancelledIs
  <2>3. CASE /\ SettlesAs(mem[w].result) = "failed"
             /\ Store!FailRun(Run, token[w], "agent termination", s)
    <3>1. mem[w].result = "stopped"
      BY <1>3, <2>3 DEF SettlesAs, Results
    <3>2. saved = Terminal(saved, "stopped")
      BY <1>3, <1>6, <3>1
    <3>3. PICK e \in UncertainErrors \cup OtherErrors : e = "agent termination"
      BY DEF OtherErrors
    <3>4. Store!FailRun(Run, token[w], e, s)
      BY <2>3, <3>3
    <3>5. UNCHANGED saved /\ events \subseteq events'
      BY <1>2
    <3> QED
      BY <1>1, <3>2, <3>3, <3>4, <3>5, FailedIs
  <2> QED
    BY <1>4, <2>1, <2>2, <2>3
<1> QED
  BY <1>2, <1>7, StoreStep

LEMMA FailRunKeeps ==
  ASSUME RunInv, NEW w \in Workers, FailRun(w), UNCHANGED policy
  PROVE  Kept
<1>1. /\ pc[w] = "failing" /\ cause[w] \in Causes /\ mem[w].phase # "terminal"
      /\ Control!IInv /\ EndInv
  BY DEF FailRun, RunInv, StopFits, EndInv
<1>2. /\ pc' = [pc EXCEPT ![w] = "idle"] /\ events' = events \cup {"run:failed"}
      /\ UNCHANGED <<saved, tapeVars, shown, token, mem, cause, calls, faults>>
  BY DEF FailRun, Leave, Goto
<1>3. PICK s \in Store!Stamp : Store!FailRun(Run, token[w], cause[w], s)
  BY DEF FailRun
<1>4. Store!HoldsLease(Run, token[w], s)
  BY <1>3 DEF Store!FailRun, Store!Settle
<1>5. mem[w] = saved
  BY <1>1, <1>4, WriterOwns DEF RunInv, OwnerSynced
<1>6. PICK e \in UncertainErrors \cup OtherErrors : e = cause[w] /\ e # "agent termination"
  BY <1>1 DEF Causes, UncertainErrors, OtherErrors
<1>7. [Store!Next]_(Store!vars) /\ EndInv' /\ UNCHANGED <<attempt, intState>>
  <2>1. Store!FailRun(Run, token[w], e, s)
    BY <1>3, <1>6
  <2>2. UNCHANGED saved /\ events \subseteq events' /\ saved.phase # "terminal"
    BY <1>1, <1>2, <1>5
  <2> QED
    BY <1>1, <1>6, <2>1, <2>2, FailedIs
<1> QED
  BY <1>2, <1>7, StoreStep

LEMMA HeartbeatKeeps ==
  ASSUME RunInv, NEW w \in Workers, Heartbeat(w), UNCHANGED policy
  PROVE  Kept
<1>1. UNCHANGED <<saved, tapeVars, shown, events, memVars, faults>>
  BY DEF Heartbeat
<1>2. [Store!Next]_(Store!vars) /\ EndInv' /\ UNCHANGED <<attempt, intState>>
  BY RenewIs DEF Heartbeat, RunInv, EndInv
<1>3. Grows
  BY <1>1, <1>2 DEF Grows, tapeVars
<1>4. MemoryTypeOK'
  BY <1>1 DEF RunInv, MemoryTypeOK, tapeVars, memVars, Checkpoint
<1>5. LiveOnTape' /\ ApprovedBeforeLive'
  BY <1>1, <1>3, LiveKept DEF RunInv, tapeVars
<1> QED
  BY <1>1, <1>2, <1>3, <1>4, <1>5, OtherStep

-----------------------------------------------------------------------------
(* The invariant, and what follows *)

LEMMA InitRunInv == Init => RunInv
<1> SUFFICES ASSUME Init PROVE RunInv
  OBVIOUS
<1>1. Control!IInv /\ Store!Init
  BY ControlStarts DEF Init
<1>2. NoContent \in Checkpoint /\ NoContent.phase = "none" /\ NoContent.iter = 0
      /\ NoContent.next = 1 /\ NoContent.wait = "none"
  BY NoContentIs
<1>3. MemoryTypeOK
  <2>1. MaxAttempt \in Nat
    BY StoreConstants DEF Store!StoreAssumption
  <2>2. NoCalls \in [0 .. MaxTools -> Stages]
    BY DEF NoCalls, Stages
  <2>3. 0 \in 0 .. MaxAttempt /\ 0 \in 0 .. MaxFaults /\ "idle" \in Stops
    BY <2>1, Bounds DEF Stops
  <2> QED
    BY <1>2, <2>2, <2>3 DEF Init, MemoryTypeOK
<1>4. ContentSound
  <2>1. Sound(NoContent)
    BY <1>2, Bounds DEF Sound, Shaped, Backed, After, Iterations
  <2> QED
    BY <2>1 DEF Init, ContentSound
<1>5. \A w \in Workers : CallsFit(w) /\ StopFits(w)
  BY DEF Init, CallsFit, StopFits, NoCalls
<1>6. attempt[Run] = 0 /\ state[Run] = "none" /\ audit = {} /\ (\A o \in Operators : reopening[o] = NoCall)
  BY <1>1 DEF Store!Init
<1>7. TokensDistinct /\ OwnerSynced
  BY <1>6 DEF Init, TokensDistinct, OwnerSynced
<1>8. EndsAreSettled /\ FailuresAgree /\ TerminalAgrees
  BY <1>2, <1>6 DEF Init, EndsAreSettled, FailuresAgree, Failures, TerminalAgrees
<1>9. LiveOnTape
  BY DEF Init, LiveOnTape
<1>10. ApprovedBeforeLive
  <2>1. Slots \subseteq Effects
    BY Bounds DEF Slots, Effects
  <2> QED
    BY <2>1 DEF Init, ApprovedBeforeLive
<1> QED
  BY <1>1, <1>3, <1>4, <1>5, <1>7, <1>8, <1>9, <1>10 DEF RunInv

LEMMA ProceedKeeps ==
  ASSUME RunInv, NEW w \in Workers, Proceed(w), UNCHANGED policy
  PROVE  Kept
<1>1. CASE Load(w) \/ Look(w) \/ SaveCancelled(w) \/ StartIteration(w) \/ CallModel(w) \/ ModelDone(w)
  BY <1>1, LoadKeeps, LookKeeps, SaveCancelledKeeps, StartIterationKeeps, CallModelKeeps, ModelDoneKeeps
<1>2. CASE Conclude(w) \/ Advance(w) \/ \E kind \in {"approval", "input"} : SuspendFor(w, kind)
  BY <1>2, ConcludeKeeps, AdvanceKeeps, SuspendForKeeps
<1>3. CASE TakeInput(w) \/ NotAnswered(w) \/ CallTools(w) \/ ToolsDone(w)
  BY <1>3, TakeInputKeeps, NotAnsweredKeeps, CallToolsKeeps, ToolsDoneKeeps
<1>4. CASE \E k \in 0 .. MaxTools : Execute(w, k) \/ Recover(w, k) \/ Completed(w, k)
  BY <1>4, ExecuteKeeps, RecoverKeeps, CompletedKeeps
<1>5. CASE FinishControlled(w) \/ RequestOwnCancel(w) \/ SaveExpired(w) \/ Settle(w)
           \/ SettleCancelled(w) \/ FailRun(w) \/ GiveUp(w) \/ HeartbeatLost(w)
  BY <1>5, FinishControlledKeeps, RequestOwnCancelKeeps, SaveExpiredKeeps, SettleKeeps,
     SettleCancelledKeeps, FailRunKeeps, GiveUpKeeps, HeartbeatLostKeeps
<1> QED
  BY <1>1, <1>2, <1>3, <1>4, <1>5 DEF Proceed

LEMMA NextRunInv == RunInv /\ [Next]_vars => Kept
<1> SUFFICES ASSUME RunInv, [Next]_vars PROVE Kept
  OBVIOUS
<1>1. CASE Outside /\ UNCHANGED policy
  BY <1>1, OutsideIs
<1>2. ASSUME NEW e \in Effects, Reconcile(e), UNCHANGED policy PROVE Kept
  BY <1>2, ReconcileIs
<1>3. ASSUME NEW w \in Workers, UNCHANGED policy,
             \/ Claim(w) \/ Proceed(w) \/ AnswerSome(w) \/ PhaseTimeout(w)
             \/ \E why \in {"cancel", "deadline"} : Controlled(w, why)
             \/ Heartbeat(w) \/ Crash(w)
      PROVE  Kept
  BY <1>3, ClaimKeeps, ProceedKeeps, AnswerKeeps, PhaseTimeoutKeeps, ControlledKeeps,
     HeartbeatKeeps, CrashKeeps DEF AnswerSome
<1>4. CASE UNCHANGED vars
  <2>1. UNCHANGED <<memVars, saved, tapeVars, attempt, intState, events, policy, faults>>
    BY <1>4 DEF vars, storeVars
  <2>2. [Store!Next]_(Store!vars)
    BY <1>4 DEF vars, storeVars, Store!vars, Store!taskVars, Store!leaseVars, Store!intVars
  <2>3. EndInv'
    BY <1>4, EndQuiet DEF RunInv, EndInv, vars, storeVars
  <2>4. Grows
    BY <2>1 DEF Grows, tapeVars
  <2>5. MemoryTypeOK'
    BY <2>1 DEF RunInv, MemoryTypeOK, tapeVars, memVars, Checkpoint
  <2>6. LiveOnTape' /\ ApprovedBeforeLive'
    BY <2>1, <2>4, LiveKept DEF RunInv, tapeVars
  <2> QED
    BY <2>1, <2>2, <2>3, <2>4, <2>5, <2>6, OtherStep
<1> QED
  BY <1>1, <1>2, <1>3, <1>4 DEF Next

LEMMA RunInvSound == RunInv => RunSound
<1> SUFFICES ASSUME RunInv PROVE RunSound
  OBVIOUS
<1>1. Store!TypeOK /\ MemoryTypeOK
  BY ControlKnows DEF RunInv
<1>2. /\ saved.phase \in Phases \cup {"none"} /\ saved.iter \in 0 .. MaxIterations
      /\ saved.next \in 1 .. MaxTools + 1 /\ saved.result \in Results \cup {"none"}
  BY <1>1 DEF MemoryTypeOK, Checkpoint
<1>3. TypeOK
  BY <1>1, <1>2 DEF TypeOK, MemoryTypeOK
<1>4. EffectsAtMostOnce
  BY DEF RunInv, LiveOnTape, EffectsAtMostOnce
<1>5. CheckpointsBacked
  BY DEF RunInv, ContentSound, Sound, Backed, DoneOf, After, CheckpointsBacked
<1> QED
  BY <1>3, <1>4, <1>5 DEF RunSound, RunInv

\* No effect is executed twice, without its approval or unrecorded behind a
\* checkpoint, and a settled run's result, checkpoint and announcement agree:
\* for every number of workers, iterations, tools and faults.
THEOREM RunIsSound == Spec => []RunSound
<1>1. RunInv /\ [Next]_vars => RunInv'
  BY NextRunInv DEF Kept
<1> QED
  BY InitRunInv, RunInvSound, <1>1, PTL DEF Spec

\* The runner changes the control store only by calling its methods: what
\* ExecutionStoreProofs proves of the store holds of a store that runners use.
THEOREM RunUsesStore == Spec => Store!Spec
<1>1. RunInv /\ [Next]_vars => RunInv' /\ [Store!Next]_(Store!vars)
  BY NextRunInv DEF Kept
<1>2. Init => Store!Init
  BY DEF Init
<1> QED
  BY InitRunInv, <1>1, <1>2, PTL DEF Spec, Store!Spec
-----------------------------------------------------------------------------
(* One worker: which effects may be open *)

NoneOpen == \A e \in Effects : tape[e] # "intent"

\* The effects of the phase a checkpoint starts.
InPhase(c, e) ==
  /\ e[1] = c.iter
  /\ IF e[2] = 0 THEN c.phase = "before_llm"
     ELSE After(c) /\ c.next <= e[2] /\ e[2] <= reply[c.iter][2]

\* An effect without a result belongs to the phase of the checkpoint, or the
\* run is cancelled.
OpenAt(c) ==
  \A e \in Effects : tape[e] = "intent" =>
    IF c.phase = "terminal" THEN c.result = "cancelled" ELSE InPhase(c, e)

\* The calls of a worker are of the phase of the newest checkpoint.
CallsOpen(w) ==
  \A k \in 0 .. MaxTools : calls[w][k] # "none" =>
    mem[w] = saved /\ InPhase(saved, <<saved.iter, k>>)

\* A run that failed at its end stays so.
FailedAtEnd == error[Run] = "agent termination" => state[Run] = "failed"

\* With one worker nobody else writes a checkpoint or claims the run.
OpenInv(w) ==
  /\ \A e \in Effects : tape[e] = "intent" => live[e] > 0
  /\ OpenAt(saved) /\ CallsOpen(w)
  /\ pc[w] = "expiring" => NoneOpen
  /\ pc[w] # "idle" => token[w] = attempt[Run]
  /\ saved.wait = "input" => <<saved.iter, saved.next>> \in Inputs
  /\ version[Run] = 0 => saved.phase = "none"
  /\ FailedAtEnd

\* The store reopens only what failed otherwise, and counts checkpoints up.
LEMMA StoreEnds ==
  ASSUME Control!IInv, FailedAtEnd, [Store!Next]_(Store!vars)
  PROVE  FailedAtEnd' /\ (version'[Run] = 0 => version[Run] = 0)
<1> DEFINE Goal == FailedAtEnd' /\ (version'[Run] = 0 => version[Run] = 0)
<1>1. /\ state \in [{Run} -> Store!RunStates] /\ version \in [{Run} -> 0 .. MaxVersion]
      /\ error \in [{Run} -> Store!Errors \cup {NoError}]
      /\ reopening \in [Operators -> {NoCall} \cup [run : {Run}, attempt : 0 .. MaxAttempt]]
      /\ MaxVersion \in Nat /\ NoError # "agent termination"
  BY StoreTypes, StoreConstants DEF Store!StoreAssumption, OtherErrors
<1>2. CASE UNCHANGED <<state, error, version>>
  BY <1>2 DEF FailedAtEnd
<1>3. CASE UNCHANGED <<error, version>> /\ (state[Run] # "failed" \/ state'[Run] = "failed")
  BY <1>3 DEF FailedAtEnd
<1>4. CASE \E s \in Store!Stamp, k \in Store!Token : Store!WorkerCall(Run, k, s)
  <2>1. PICK s \in Store!Stamp, k \in Store!Token : Store!WorkerCall(Run, k, s)
    BY <1>4
  <2>2. state[Run] = "running"
    BY <2>1 DEF Store!WorkerCall, Store!RenewLease, Store!SaveCheckpoint, Store!Suspend,
         Store!Advance, Store!CompleteRun, Store!FailRun, Store!FinishCancelled,
         Store!Settle, Store!HoldsLease
  <2>3. CASE Store!RenewLease(Run, k, s) \/ Store!CompleteRun(Run, k, s)
             \/ Store!FinishCancelled(Run, k, s)
    BY <1>3, <2>2, <2>3 DEF Store!RenewLease, Store!CompleteRun, Store!FinishCancelled
  <2>4. CASE \E e \in Store!Errors : Store!FailRun(Run, k, e, s)
    <3>1. state' = [state EXCEPT ![Run] = "failed"] /\ version' = version
      BY <2>4 DEF Store!FailRun, Store!Settle
    <3> QED
      BY <1>1, <3>1 DEF FailedAtEnd
  <2>5. CASE \E v \in 0 .. MaxVersion : Store!Advance(Run, k, v, s) /\ UNCHANGED error
    <3>1. PICK v \in 0 .. MaxVersion : Store!Advance(Run, k, v, s) /\ error' = error
      BY <2>5
    <3>2. version' = [version EXCEPT ![Run] = v + 1]
      BY <3>1 DEF Store!Advance
    <3>3. version \in [{Run} -> 0 .. MaxVersion] /\ MaxVersion \in Nat
      BY <1>1
    <3>4. version'[Run] # 0
      <4>1. version'[Run] = v + 1
        BY <3>2, <3>3
      <4>2. v \in Nat
        BY <3>3
      <4> QED
        BY <4>1, <4>2
    <3>5. FailedAtEnd'
      BY <2>2, <3>1 DEF FailedAtEnd
    <3> QED
      BY <3>4, <3>5
  <2> QED
    BY <2>1, <2>3, <2>4, <2>5 DEF Store!WorkerCall, Store!SaveCheckpoint, Store!Suspend
<1>5. ASSUME NEW o \in Operators, NEW ev \in Evidence, Store!ReopenCommit(o, ev)
      PROVE  Goal
  <2>1. reopening[o] # NoCall /\ reopening[o] \in {NoCall} \cup [run : {Run}, attempt : 0 .. MaxAttempt]
    BY <1>1, <1>5 DEF Store!ReopenCommit
  <2>2. reopening[o].run = Run
    BY <2>1
  <2>3. error' = [error EXCEPT ![Run] = NoError] /\ version' = version
    BY <1>5, <2>2 DEF Store!ReopenCommit
  <2> QED
    BY <1>1, <2>3 DEF FailedAtEnd
<1>6. CASE Store!Tick \/ Store!CreateTask(Task) \/ (\E o \in Operators : Store!ReopenAbort(o))
           \/ (\E o \in Operators : Store!ReopenRead(o, Run)) \/ UNCHANGED Store!vars
  BY <1>2, <1>6 DEF Store!Tick, Store!CreateTask, Store!ReopenAbort, Store!ReopenRead, Store!vars
<1>7. CASE Store!CreateRun(Run, Task) \/ (\E s \in Store!Stamp : Store!ClaimRun(Run, s))
  BY <1>3, <1>7 DEF Store!CreateRun, Store!ClaimRun, Store!Claimable
<1>8. CASE Store!RequestCancel(Run) \/ Store!CancelTask(Task)
  <2>1. UNCHANGED <<error, version>>
    BY <1>8 DEF Store!RequestCancel, Store!CancelTask
  <2>2. state' = state \/ Store!CancelActive(Run)
    BY <1>8 DEF Store!RequestCancel, Store!CancelTask, Store!ActiveRuns
  <2> QED
    BY <1>2, <1>3, <2>1, <2>2 DEF Store!CancelActive
<1>9. ASSUME NEW i \in Interrupts, NEW allow \in BOOLEAN, Store!ResolveInterrupt(i, allow)
      PROVE  Goal
  <2>1. UNCHANGED <<error, version>> /\ state[intRun[i]] = "waiting"
        /\ \E x : state' = [state EXCEPT ![intRun[i]] = x]
    BY <1>9 DEF Store!ResolveInterrupt
  <2>2. state[Run] = "failed" => state'[Run] = "failed"
    BY <1>1, <2>1
  <2> QED
    BY <1>3, <2>1, <2>2
<1> QED
  BY <1>4, <1>5, <1>6, <1>7, <1>8, <1>9 DEF Store!Next

\* A step that leaves checkpoint and tape alone, and starts only calls of the phase.
LEMMA OpenQuiet ==
  ASSUME RunInv, Kept, NEW w \in Workers, OpenInv(w), UNCHANGED <<saved, tapeVars, policy>>,
         \A k \in 0 .. MaxTools : calls'[w][k] # "none" =>
           \/ calls[w][k] # "none" /\ mem'[w] = mem[w]
           \/ mem'[w] = saved /\ InPhase(saved, <<saved.iter, k>>),
         pc'[w] = "expiring" => pc[w] = "expiring" \/ NoneOpen,
         pc'[w] # "idle" => token'[w] = attempt'[Run]
  PROVE  OpenInv(w)'
<1>1. UNCHANGED <<saved, tape, reply, live, policy>>
  BY DEF tapeVars
<1>2. FailedAtEnd' /\ (version'[Run] = 0 => version[Run] = 0)
  BY StoreEnds DEF RunInv, Kept, OpenInv
<1>3. OpenAt(saved)'
  BY <1>1 DEF OpenInv, OpenAt, InPhase, After
<1>4. CallsOpen(w)'
  BY <1>1 DEF OpenInv, CallsOpen, InPhase, After
<1>5. pc'[w] = "expiring" => NoneOpen'
  BY <1>1 DEF OpenInv, NoneOpen
<1> QED
  BY <1>1, <1>2, <1>3, <1>4, <1>5 DEF OpenInv, Inputs

\* A checkpoint is saved that starts a phase all open effects are of.
LEMMA OpenSave ==
  ASSUME RunInv, Kept, NEW w \in Workers, OpenInv(w), NEW c \in Checkpoint, Save(w, c),
         UNCHANGED policy, calls'[w] = NoCalls, OpenAt(c), c.phase # "none", c.wait # "input"
  PROVE  OpenInv(w)'
<1>1. PICK s \in Store!Stamp : Store!SaveCheckpoint(Run, token[w], ver[w], s)
  BY DEF Save
<1>2. /\ saved' = c /\ pc' = [pc EXCEPT ![w] = "loop"] /\ token' = token
      /\ UNCHANGED <<tape, reply, live, policy>>
  BY DEF Save, Goto, tapeVars
<1>3. UNCHANGED attempt /\ token[w] = attempt[Run]
  BY <1>1, SaveIs DEF RunInv, EndInv
<1>4. FailedAtEnd'
  BY StoreEnds DEF RunInv, Kept, OpenInv
<1>5. version'[Run] # 0
  <2>1. version \in [{Run} -> 0 .. MaxVersion] /\ MaxVersion \in Nat
    BY StoreTypes, StoreConstants DEF Store!StoreAssumption, RunInv
  <2>2. version[Run] = ver[w] /\ version' = [version EXCEPT ![Run] = ver[w] + 1]
    BY <1>1 DEF Store!SaveCheckpoint, Store!Advance
  <2> QED
    BY <2>1, <2>2
<1>6. OpenAt(saved)'
  BY <1>2 DEF OpenAt, InPhase, After
<1>7. CallsOpen(w)'
  BY DEF CallsOpen, NoCalls
<1>8. pc'[w] = "loop"
  BY <1>2 DEF RunInv, MemoryTypeOK
<1> QED
  BY <1>2, <1>3, <1>4, <1>5, <1>6, <1>7, <1>8 DEF OpenInv

\* Who saves has the newest checkpoint.
LEMMA SaverOwns ==
  ASSUME RunInv, NEW w \in Workers, NEW c, Save(w, c), pc[w] \notin {"idle", "load"}
  PROVE  mem[w] = saved
<1>1. PICK s \in Store!Stamp : Store!SaveCheckpoint(Run, token[w], ver[w], s)
  BY DEF Save
<1>2. token[w] = attempt[Run]
  BY <1>1, SaveIs DEF RunInv, EndInv
<1> QED
  BY <1>2 DEF RunInv, OwnerSynced

LEMMA NoneOpenAt == ASSUME NoneOpen, NEW c PROVE OpenAt(c)
BY DEF NoneOpen, OpenAt

\* Between phases nothing is open.
LEMMA BetweenPhases ==
  ASSUME NEW w \in Workers, OpenInv(w), saved.phase \notin {"before_llm", "after_llm", "after_tool", "terminal"}
  PROVE  NoneOpen
BY DEF OpenInv, OpenAt, InPhase, After, NoneOpen

\* After a reply only tools that it asks for, from the next one on, are open.
LEMMA OpenTools ==
  ASSUME RunInv, NEW w \in Workers, OpenInv(w), After(saved), NEW e \in Effects, tape[e] = "intent"
  PROVE  \E k \in 1 .. MaxTools : /\ e = <<saved.iter, k>>
                                  /\ saved.next <= k /\ k <= reply[saved.iter][2]
<1>1. e[1] \in Iterations /\ e[2] \in 0 .. MaxTools /\ e = <<e[1], e[2]>>
  BY DEF Effects
<1>2. saved.phase # "terminal" /\ saved.phase # "before_llm"
  BY DEF After
<1>3. InPhase(saved, e)
  BY <1>2 DEF OpenInv, OpenAt
<1>4. e[2] # 0 /\ e[1] = saved.iter /\ saved.next <= e[2] /\ e[2] <= reply[saved.iter][2]
  BY <1>2, <1>3 DEF InPhase
<1>5. e[2] \in 1 .. MaxTools
  BY <1>1, <1>4, Bounds
<1> QED
  BY <1>1, <1>4, <1>5

\* A step that starts no call and at most moves the worker on.
LEMMA OpenMoves ==
  ASSUME RunInv, Kept, NEW w \in Workers, OpenInv(w),
         UNCHANGED <<saved, tapeVars, policy, token, attempt, mem>>,
         \A k \in 0 .. MaxTools : calls'[w][k] # "none" => calls[w][k] # "none",
         NEW stop \in Stops \ {"expiring"}, pc' = [pc EXCEPT ![w] = stop],
         pc[w] # "idle" \/ stop = "idle"
  PROVE  OpenInv(w)'
<1>1. pc'[w] = stop
  BY DEF RunInv, MemoryTypeOK
<1>2. pc'[w] # "idle" => token'[w] = attempt'[Run]
  BY <1>1 DEF OpenInv
<1>3. \A k \in 0 .. MaxTools : calls'[w][k] # "none" => calls[w][k] # "none" /\ mem'[w] = mem[w]
  OBVIOUS
<1> QED
  BY <1>1, <1>2, <1>3, OpenQuiet

\* A call of an effect goes on, without the tape.
LEMMA OpenGoesOn ==
  ASSUME RunInv, Kept, NEW w \in Workers, OpenInv(w),
         UNCHANGED <<saved, tapeVars, policy, token, attempt, mem>>,
         \A k \in 0 .. MaxTools : calls'[w][k] # "none" => calls[w][k] # "none",
         UNCHANGED pc
  PROVE  OpenInv(w)'
<1>1. pc'[w] # "idle" => token'[w] = attempt'[Run]
  BY DEF OpenInv
<1> QED
  BY <1>1, OpenQuiet

LEMMA OutsideOpen ==
  ASSUME RunInv, Kept, NEW w \in Workers, OpenInv(w), Outside, UNCHANGED policy
  PROVE  OpenInv(w)'
<1>1. attempt' = attempt
  BY OutsideKeepsEnd DEF RunInv, EndInv
<1>2. UNCHANGED <<saved, tapeVars, memVars>>
  BY DEF Outside, LeaveWorkers
<1> QED
  BY <1>1, <1>2, OpenGoesOn DEF memVars

LEMMA ClaimOpen ==
  ASSUME RunInv, Kept, NEW w \in Workers, OpenInv(w), Claim(w), UNCHANGED policy
  PROVE  OpenInv(w)'
<1>1. /\ token' = [token EXCEPT ![w] = attempt'[Run]] /\ calls' = [calls EXCEPT ![w] = NoCalls]
      /\ pc' = [pc EXCEPT ![w] = "load"] /\ UNCHANGED <<saved, tapeVars>>
  BY DEF Claim, Goto
<1>2. token'[w] = attempt'[Run] /\ calls'[w] = NoCalls /\ pc'[w] = "load"
  BY <1>1 DEF RunInv, MemoryTypeOK
<1>3. \A k \in 0 .. MaxTools : calls'[w][k] = "none"
  BY <1>2 DEF NoCalls
<1> QED
  BY <1>1, <1>2, <1>3, OpenQuiet

\* The calls of a worker are dropped, or stay.
LEMMA Dropped ==
  ASSUME RunInv, NEW w \in Workers,
         calls' = [calls EXCEPT ![w] = NoCalls] \/ calls' = calls
  PROVE  \A k \in 0 .. MaxTools : calls'[w][k] # "none" => calls[w][k] # "none"
<1>1. CASE calls' = calls
  BY <1>1
<1>2. CASE calls' = [calls EXCEPT ![w] = NoCalls]
  <2>1. calls'[w] = NoCalls
    BY <1>2 DEF RunInv, MemoryTypeOK
  <2> QED
    BY <2>1 DEF NoCalls
<1> QED
  BY <1>1, <1>2

\* Steps that read the store, if at all, and move the worker on.
LEMMA MovesOpen ==
  ASSUME RunInv, Kept, NEW w \in Workers, OpenInv(w), UNCHANGED policy,
         \/ Look(w) \/ NotAnswered(w) \/ PhaseTimeout(w)
         \/ \E why \in {"cancel", "deadline"} : Controlled(w, why)
         \/ SettleCancelled(w) \/ GiveUp(w) \/ HeartbeatLost(w) \/ Crash(w)
  PROVE  OpenInv(w)'
<1>1. UNCHANGED <<saved, tapeVars, token, mem, attempt>>
  BY DEF Look, NotAnswered, PhaseTimeout, Controlled, SettleCancelled, GiveUp, HeartbeatLost,
         Crash, Leave, storeVars
<1>2. calls' = [calls EXCEPT ![w] = NoCalls] \/ calls' = calls
  BY DEF Look, NotAnswered, PhaseTimeout, Controlled, SettleCancelled, GiveUp, HeartbeatLost,
         Crash, Leave
<1>3. pc[w] # "idle"
        /\ \E stop \in {"idle", "cancelling", "settle", "act", "failing", "controlled"} :
             pc' = [pc EXCEPT ![w] = stop]
  <2>1. CASE Look(w)
    BY <2>1 DEF Look, Goto
  <2>2. CASE NotAnswered(w) \/ PhaseTimeout(w) \/ SettleCancelled(w)
    BY <2>2 DEF NotAnswered, ToolsPending, AfterReply, PhaseTimeout, Fail, SettleCancelled, Goto
  <2>3. CASE \E why \in {"cancel", "deadline"} : Controlled(w, why)
    BY <2>3 DEF Controlled, Goto
  <2>4. CASE GiveUp(w) \/ HeartbeatLost(w) \/ Crash(w)
    BY <2>4 DEF GiveUp, HeartbeatLost, Crash, Leave, Goto
  <2> QED
    BY <2>1, <2>2, <2>3, <2>4
<1>4. PICK stop \in Stops \ {"expiring"} : pc' = [pc EXCEPT ![w] = stop]
  BY <1>3 DEF Stops
<1>5. \A k \in 0 .. MaxTools : calls'[w][k] # "none" => calls[w][k] # "none"
  BY <1>2, Dropped
<1> QED
  BY <1>1, <1>3, <1>4, <1>5, OpenMoves

\* Steps that call the store and move the worker on.
LEMMA StoreCallsOpen ==
  ASSUME RunInv, Kept, NEW w \in Workers, OpenInv(w), UNCHANGED policy,
         Settle(w) \/ FailRun(w) \/ RequestOwnCancel(w) \/ Heartbeat(w)
  PROVE  OpenInv(w)'
<1>1. CASE Settle(w)
  <2>1. UNCHANGED attempt
    BY <1>1 DEF Settle, Store!CompleteRun, Store!FinishCancelled, Store!FailRun, Store!Settle,
         Store!DropLease, Store!leaseVars
  <2>2. /\ pc' = [pc EXCEPT ![w] = "idle"]
        /\ UNCHANGED <<saved, tapeVars, token, mem, calls>>
    BY <1>1 DEF Settle, Leave, Goto
  <2>3. "idle" \in Stops \ {"expiring"}
    BY DEF Stops
  <2> QED
    BY <2>1, <2>2, <2>3, OpenMoves
<1>2. CASE FailRun(w)
  <2>1. UNCHANGED attempt
    BY <1>2 DEF FailRun, Store!FailRun, Store!Settle, Store!DropLease, Store!leaseVars
  <2>2. /\ pc' = [pc EXCEPT ![w] = "idle"]
        /\ UNCHANGED <<saved, tapeVars, token, mem, calls>>
    BY <1>2 DEF FailRun, Leave, Goto
  <2>3. "idle" \in Stops \ {"expiring"}
    BY DEF Stops
  <2> QED
    BY <2>1, <2>2, <2>3, OpenMoves
<1>3. CASE RequestOwnCancel(w)
  <2>1. UNCHANGED attempt
    BY <1>3 DEF RequestOwnCancel, Store!RequestCancel, Store!CancelActive, Store!DropLease,
         Store!leaseVars
  <2>2. /\ pc' = [pc EXCEPT ![w] = "cancelling"] /\ pc[w] # "idle"
        /\ UNCHANGED <<saved, tapeVars, token, mem, calls>>
    BY <1>3 DEF RequestOwnCancel, Goto
  <2>3. "cancelling" \in Stops \ {"expiring"}
    BY DEF Stops
  <2> QED
    BY <2>1, <2>2, <2>3, OpenMoves
<1>4. CASE Heartbeat(w)
  <2>1. UNCHANGED attempt
    BY <1>4, RenewIs DEF Heartbeat, RunInv, EndInv
  <2>2. UNCHANGED <<saved, tapeVars, memVars>>
    BY <1>4 DEF Heartbeat
  <2> QED
    BY <2>1, <2>2, OpenGoesOn DEF memVars
<1> QED
  BY <1>1, <1>2, <1>3, <1>4

\* A recorded outcome is returned, or announced.
LEMMA RecoverOpen ==
  ASSUME RunInv, Kept, NEW w \in Workers, OpenInv(w), UNCHANGED policy,
         NEW k \in 0 .. MaxTools, Recover(w, k) \/ Completed(w, k)
  PROVE  OpenInv(w)'
<1>1. UNCHANGED <<saved, tapeVars, token, mem, attempt>>
  BY DEF Recover, Completed, storeVars
<1>2. \/ \E stage \in {"recovered", "done"} : calls' = [calls EXCEPT ![w][k] = stage] /\ pc' = pc
      \/ \E e : Raise(w, k, e)
  BY DEF Recover, Completed
<1>3. calls[w][k] # "none"
  BY DEF Recover, Completed
<1>4. calls \in [Workers -> [0 .. MaxTools -> Stages]] /\ pc \in [Workers -> Stops]
  BY DEF RunInv, MemoryTypeOK
<1>5. \A j \in 0 .. MaxTools : calls'[w][j] # "none" => calls[w][j] # "none"
  <2>1. PICK stage : calls' = [calls EXCEPT ![w][k] = stage]
    BY <1>2 DEF Raise
  <2>2. \A j \in 0 .. MaxTools \ {k} : calls'[w][j] = calls[w][j]
    BY <1>4, <2>1
  <2> QED
    BY <1>3, <2>2
<1>6. CASE UNCHANGED pc
  BY <1>1, <1>5, <1>6, OpenGoesOn
<1>7. CASE pc[w] \in {"model", "tools"} /\ pc' = [pc EXCEPT ![w] = "failing"]
  <2>1. "failing" \in Stops \ {"expiring"}
    BY DEF Stops
  <2> QED
    BY <1>1, <1>5, <1>7, <2>1, OpenMoves
<1> QED
  BY <1>2, <1>6, <1>7 DEF Raise, Fail, Goto

\* The runner starts the calls of the phase its checkpoint is in.
LEMMA CallModelOpen ==
  ASSUME RunInv, Kept, NEW w \in Workers, OpenInv(w), CallModel(w), UNCHANGED policy
  PROVE  OpenInv(w)'
<1>1. /\ pc[w] = "act" /\ mem[w].phase = "before_llm"
      /\ UNCHANGED <<saved, tapeVars, token, mem, attempt>>
  BY DEF CallModel, storeVars
<1>2. mem[w] = saved /\ token[w] = attempt[Run]
  BY <1>1 DEF OpenInv, RunInv, OwnerSynced
<1>3. pc' = [pc EXCEPT ![w] = "model"] /\ calls' = [calls EXCEPT ![w] = [NoCalls EXCEPT ![0] = "todo"]]
  BY DEF CallModel, Goto
<1>4. pc'[w] = "model" /\ calls'[w] = [NoCalls EXCEPT ![0] = "todo"]
  BY <1>3 DEF RunInv, MemoryTypeOK
<1>5. ASSUME NEW k \in 0 .. MaxTools, calls'[w][k] # "none"
      PROVE  mem'[w] = saved /\ InPhase(saved, <<saved.iter, k>>)
  <2>1. k = 0
    BY <1>4, <1>5 DEF NoCalls
  <2> QED
    BY <1>1, <1>2, <2>1 DEF InPhase
<1>6. pc'[w] # "idle" => token'[w] = attempt'[Run]
  BY <1>1, <1>2
<1> QED
  BY <1>1, <1>4, <1>5, <1>6, OpenQuiet

LEMMA CallToolsOpen ==
  ASSUME RunInv, Kept, NEW w \in Workers, OpenInv(w), CallTools(w), UNCHANGED policy
  PROVE  OpenInv(w)'
<1>1. /\ pc[w] = "act" /\ AfterReply(w) /\ mem[w].next <= Tools(w)
      /\ mem[w].wait \in {"none", "approval"}
      /\ UNCHANGED <<saved, tapeVars, token, mem, attempt>>
  BY DEF CallTools, ToolsPending, AfterReply, storeVars
<1>2. mem[w] = saved /\ token[w] = attempt[Run]
  BY <1>1 DEF OpenInv, RunInv, OwnerSynced
<1>3. PICK row : row = [k \in 0 .. MaxTools |-> IF k \in Batch(w) THEN "todo" ELSE "none"]
  OBVIOUS
<1>4. pc' = [pc EXCEPT ![w] = "tools"] /\ calls' = [calls EXCEPT ![w] = row]
  BY <1>3 DEF CallTools, Goto
<1>5. pc'[w] = "tools" /\ calls'[w] = row
  BY <1>4 DEF RunInv, MemoryTypeOK
<1>6. After(mem[w]) /\ mem[w].next \in 1 .. MaxTools + 1 /\ Tools(w) \in 0 .. MaxTools
  BY <1>1, AfterReplyIs
<1>7. \A k \in Batch(w) : k \in mem[w].next .. Tools(w)
  BY <1>1, <1>6, Bounds DEF Batch
<1>8. ASSUME NEW k \in 0 .. MaxTools, calls'[w][k] # "none"
      PROVE  mem'[w] = saved /\ InPhase(saved, <<saved.iter, k>>)
  <2>1. k \in Batch(w)
    BY <1>3, <1>5, <1>8
  <2>2. k \in mem[w].next .. Tools(w)
    BY <1>7, <2>1
  <2>3. mem[w].next <= k /\ k <= Tools(w) /\ k # 0
    BY <1>6, <2>2, Bounds
  <2>4. After(saved) /\ saved.next <= k /\ k <= reply[saved.iter][2]
    BY <1>2, <1>6, <2>3 DEF Tools, ReplyOf
  <2> QED
    BY <1>1, <1>2, <2>3, <2>4 DEF InPhase
<1>9. pc'[w] # "idle" => token'[w] = attempt'[Run]
  BY <1>1, <1>2
<1> QED
  BY <1>1, <1>5, <1>8, <1>9, OpenQuiet

\* Only when no effect is open does the runner end an interrupted phase.
LEMMA FinishControlledOpen ==
  ASSUME RunInv, Kept, NEW w \in Workers, OpenInv(w), FinishControlled(w), UNCHANGED policy
  PROVE  OpenInv(w)'
<1>1. /\ pc[w] = "controlled" /\ calls[w] = NoCalls
      /\ UNCHANGED <<saved, tapeVars, token, calls, attempt>>
  BY DEF FinishControlled, storeVars, RunInv, CallsFit
<1>2. \A k \in 0 .. MaxTools : calls'[w][k] = "none"
  BY <1>1 DEF NoCalls
<1>3. PICK stop : pc' = [pc EXCEPT ![w] = stop] /\ (stop = "expiring" => ~Unsettled)
  BY DEF FinishControlled, Fail, Goto
<1>4. pc'[w] = stop
  BY <1>3 DEF RunInv, MemoryTypeOK
<1>5. pc'[w] = "expiring" => NoneOpen
  BY <1>3, <1>4 DEF Unsettled, NoneOpen
<1>6. pc'[w] # "idle" => token'[w] = attempt'[Run]
  BY <1>1 DEF OpenInv
<1> QED
  BY <1>1, <1>2, <1>5, <1>6, OpenQuiet

\* A worker starts from the newest checkpoint, or saves the first.
LEMMA LoadOpen ==
  ASSUME RunInv, Kept, NEW w \in Workers, OpenInv(w), Load(w), UNCHANGED policy
  PROVE  OpenInv(w)'
<1>1. pc[w] = "load" /\ calls[w] = NoCalls /\ calls' = calls
  BY DEF Load, RunInv, CallsFit
<1>2. \A k \in 0 .. MaxTools : calls'[w][k] = "none"
  BY <1>1 DEF NoCalls
<1>3. CASE /\ pc' = [pc EXCEPT ![w] = "loop"]
           /\ UNCHANGED <<storeVars, saved, tapeVars, token>>
  <2>1. pc'[w] = "loop"
    BY <1>3 DEF RunInv, MemoryTypeOK
  <2>2. pc'[w] # "idle" => token'[w] = attempt'[Run]
    BY <1>1, <1>3 DEF OpenInv, storeVars
  <2> QED
    BY <1>2, <1>3, <2>1, <2>2, OpenQuiet
<1>4. CASE version[Run] = 0 /\ Save(w, Ready(0))
  <2>1. PICK c : c = Ready(0)
    OBVIOUS
  <2>2. c \in Checkpoint /\ c.phase = "ready" /\ c.wait = "none"
    BY <2>1, ReadyIs, Bounds
  <2>3. Save(w, c)
    BY <1>4, <2>1 DEF Save
  <2>4. NoneOpen
    BY <1>4, BetweenPhases DEF OpenInv
  <2>5. OpenAt(c)
    BY <2>4, NoneOpenAt
  <2> QED
    BY <1>1, <2>2, <2>3, <2>5, OpenSave
<1> QED
  BY <1>3, <1>4 DEF Load, Goto

\* The run ends at a checkpoint behind which nothing is open, or is cancelled.
LEMMA EndOpen ==
  ASSUME RunInv, Kept, NEW w \in Workers, OpenInv(w), NEW result \in Results,
         UNCHANGED <<policy, calls>>, calls[w] = NoCalls,
         Save(w, Terminal(mem[w], result)), result = "cancelled" \/ NoneOpen
  PROVE  OpenInv(w)'
<1>1. PICK c : c = Terminal(mem[w], result)
  OBVIOUS
<1>2. c \in Checkpoint /\ c.phase = "terminal" /\ c.result = result /\ c.wait = "none"
  BY <1>1, TerminalIs DEF RunInv, MemoryTypeOK
<1>3. OpenAt(c)
  BY <1>2 DEF OpenAt, NoneOpen
<1>4. Save(w, c)
  BY <1>1 DEF Save
<1> QED
  BY <1>2, <1>3, <1>4, OpenSave

LEMMA SaveEndsOpen ==
  ASSUME RunInv, Kept, NEW w \in Workers, OpenInv(w), UNCHANGED policy,
         SaveCancelled(w) \/ SaveExpired(w)
  PROVE  OpenInv(w)'
<1>1. calls[w] = NoCalls /\ UNCHANGED calls
  BY DEF SaveCancelled, SaveExpired, RunInv, CallsFit
<1>2. CASE SaveCancelled(w)
  BY <1>1, <1>2, EndOpen DEF SaveCancelled, Results
<1>3. CASE SaveExpired(w)
  BY <1>1, <1>3, EndOpen DEF SaveExpired, Results, OpenInv
<1> QED
  BY <1>2, <1>3

\* A reply that asks for no tool ends the run, and none is open.
LEMMA ConcludeOpen ==
  ASSUME RunInv, Kept, NEW w \in Workers, OpenInv(w), Conclude(w), UNCHANGED policy
  PROVE  OpenInv(w)'
<1>1. /\ AfterReply(w) /\ calls[w] = NoCalls /\ UNCHANGED calls /\ ReplyOf(w) \in {Error, Final}
      /\ \E result \in {"natural", "stopped"} : Save(w, Terminal(mem[w], result))
  BY AfterReplyIs DEF Conclude
<1>2. PICK result \in Results : Save(w, Terminal(mem[w], result))
  BY <1>1 DEF Results
<1>3. mem[w] = saved
  BY <1>1, <1>2, SaverOwns DEF AfterReply
<1>4. After(saved) /\ saved.next \in 1 .. MaxTools + 1
  BY <1>1, <1>3, AfterReplyIs
<1>5. reply[saved.iter][2] = 0
  BY <1>1, <1>3 DEF ReplyOf, Error, Final
<1>6. NoneOpen
  <2>1. ASSUME NEW e \in Effects, tape[e] = "intent" PROVE FALSE
    <3>1. PICK k \in 1 .. MaxTools : saved.next <= k /\ k <= reply[saved.iter][2]
      BY <1>4, <2>1, OpenTools
    <3> QED
      BY <1>5, <3>1, Bounds
  <2> QED
    BY <2>1 DEF NoneOpen
<1> QED
  BY <1>1, <1>2, <1>6, EndOpen

LEMMA StartIterationOpen ==
  ASSUME RunInv, Kept, NEW w \in Workers, OpenInv(w), StartIteration(w), UNCHANGED policy
  PROVE  OpenInv(w)'
<1>1. pc[w] = "act" /\ mem[w].phase = "ready" /\ calls[w] = NoCalls /\ UNCHANGED calls
  BY DEF StartIteration, RunInv, CallsFit
<1>2. PICK m \in Checkpoint : m = mem[w]
  BY DEF RunInv, MemoryTypeOK
<1>3. mem[w] = saved /\ m.wait = "none"
  <2>1. \E c : Save(w, c)
    BY DEF StartIteration
  <2>2. Shaped(m)
    BY <1>2 DEF RunInv, ContentSound, Sound
  <2> QED
    BY <1>1, <1>2, <2>1, <2>2, SaverOwns DEF Shaped, After
<1>4. NoneOpen
  BY <1>1, <1>3, BetweenPhases
<1>5. CASE m.iter >= MaxIterations
  <2>1. Save(w, Terminal(mem[w], "stopped")) /\ "stopped" \in Results
    BY <1>2, <1>5 DEF StartIteration, Results
  <2> QED
    BY <1>1, <1>4, <2>1, EndOpen
<1>6. CASE ~(m.iter >= MaxIterations)
  <2>1. PICK c : c = [m EXCEPT !.phase = "before_llm"]
    OBVIOUS
  <2>2. c \in Checkpoint /\ c.phase = "before_llm" /\ c.wait = m.wait
    BY <2>1, PhaseIs DEF Phases
  <2>3. Save(w, c)
    BY <1>2, <1>6, <2>1 DEF StartIteration, Save
  <2>4. OpenAt(c)
    BY <1>4, NoneOpenAt
  <2> QED
    BY <1>1, <1>3, <2>2, <2>3, <2>4, OpenSave
<1> QED
  BY <1>5, <1>6

LEMMA ModelDoneOpen ==
  ASSUME RunInv, Kept, NEW w \in Workers, OpenInv(w), ModelDone(w), UNCHANGED policy
  PROVE  OpenInv(w)'
<1>1. PICK m \in Checkpoint : m = mem[w]
  BY DEF RunInv, MemoryTypeOK
<1>2. PICK c : c = [m EXCEPT !.phase = "after_llm"]
  OBVIOUS
<1>3. /\ pc[w] = "model" /\ calls[w][0] = "done" /\ Save(w, c)
      /\ calls' = [calls EXCEPT ![w] = NoCalls]
  BY <1>1, <1>2 DEF ModelDone, Save
<1>4. /\ m = saved /\ m.phase = "before_llm" /\ tape[<<m.iter, 0>>] \in Endings /\ m.wait = "none"
  <2>1. 0 \in 0 .. MaxTools
    BY Bounds
  <2>2. Shaped(m) /\ CallsFit(w)
    BY <1>1 DEF RunInv, ContentSound, Sound
  <2>3. m.phase = "before_llm" /\ tape[<<m.iter, 0>>] \in Endings
    BY <1>1, <1>3, <2>1, <2>2 DEF CallsFit
  <2> QED
    BY <1>1, <1>3, <2>2, <2>3, SaverOwns DEF Shaped, After
<1>5. NoneOpen
  <2>1. ASSUME NEW e \in Effects, tape[e] = "intent" PROVE FALSE
    <3>1. InPhase(saved, e) /\ e = <<e[1], e[2]>>
      BY <1>4, <2>1 DEF OpenInv, OpenAt, Effects
    <3>2. e[1] = m.iter /\ e[2] = 0
      BY <1>4, <3>1 DEF InPhase, After
    <3> QED
      BY <1>4, <2>1, <3>1, <3>2 DEF Endings
  <2> QED
    BY <2>1 DEF NoneOpen
<1>6. c \in Checkpoint /\ c.phase = "after_llm" /\ c.wait = "none"
  BY <1>2, <1>4, PhaseIs DEF Phases
<1>7. OpenAt(c) /\ calls'[w] = NoCalls
  BY <1>3, <1>5, NoneOpenAt DEF RunInv, MemoryTypeOK
<1> QED
  BY <1>3, <1>6, <1>7, OpenSave

LEMMA AdvanceOpen ==
  ASSUME RunInv, Kept, NEW w \in Workers, OpenInv(w), Advance(w), UNCHANGED policy
  PROVE  OpenInv(w)'
<1>1. PICK m \in Checkpoint : m = mem[w]
  BY DEF RunInv, MemoryTypeOK
<1>2. /\ AfterReply(w) /\ m.next > Tools(w) /\ calls[w] = NoCalls /\ UNCHANGED calls
      /\ m.iter \in Iterations /\ Tools(w) \in 0 .. MaxTools /\ m.next \in 1 .. MaxTools + 1
      /\ After(m)
  BY <1>1, AfterReplyIs DEF Advance
<1>3. m = saved
  <2>1. \E c : Save(w, c)
    BY DEF Advance
  <2> QED
    BY <1>1, <1>2, <2>1, SaverOwns DEF AfterReply
<1>4. NoneOpen
  <2>1. Tools(w) = reply[saved.iter][2]
    BY <1>1, <1>3 DEF Tools, ReplyOf
  <2>2. ASSUME NEW e \in Effects, tape[e] = "intent" PROVE FALSE
    <3>1. PICK k \in 1 .. MaxTools : saved.next <= k /\ k <= reply[saved.iter][2]
      BY <1>2, <1>3, <2>2, OpenTools
    <3> QED
      BY <1>2, <1>3, <2>1, <3>1, Bounds
  <2> QED
    BY <2>2 DEF NoneOpen
<1>5. m.iter + 1 \in 0 .. MaxIterations
  BY <1>2, Bounds DEF Iterations
<1>6. PICK c : c = Ready(m.iter + 1)
  OBVIOUS
<1>7. c \in Checkpoint /\ c.phase = "ready" /\ c.wait = "none"
  BY <1>5, <1>6, ReadyIs
<1>8. PICK d : d = Terminal(c, "stopped")
  OBVIOUS
<1>9. d \in Checkpoint /\ d.phase = "terminal" /\ d.wait = "none"
  BY <1>7, <1>8, TerminalIs DEF Results
<1>10. Save(w, c) \/ Save(w, d)
  BY <1>1, <1>6, <1>8 DEF Advance, Save
<1>11. OpenAt(c) /\ OpenAt(d)
  BY <1>4, NoneOpenAt
<1>12. calls'[w] = NoCalls
  BY <1>2
<1> QED
  BY <1>7, <1>9, <1>10, <1>11, <1>12, OpenSave

\* A checkpoint behind the tools that have been answered.
LEMMA ToolsOpen ==
  ASSUME RunInv, Kept, NEW w \in Workers, OpenInv(w), UNCHANGED policy, calls'[w] = NoCalls,
         After(saved), NEW next \in 1 .. MaxTools + 1, NEW c \in Checkpoint, Save(w, c),
         c = [saved EXCEPT !.phase = "after_tool", !.next = next, !.wait = "none"],
         \A k \in 1 .. MaxTools : saved.next <= k /\ k < next => tape[<<saved.iter, k>>] # "intent"
  PROVE  OpenInv(w)'
<1>1. saved \in Checkpoint
  BY DEF RunInv, MemoryTypeOK
<1>2. c.phase = "after_tool" /\ c.iter = saved.iter /\ c.next = next /\ c.wait = "none"
  BY <1>1 DEF Checkpoint
<1>3. ASSUME NEW e \in Effects, tape[e] = "intent" PROVE InPhase(c, e)
  <2>1. PICK k \in 1 .. MaxTools : /\ e = <<saved.iter, k>>
                                   /\ saved.next <= k /\ k <= reply[saved.iter][2]
    BY <1>3, OpenTools
  <2>2. ~(k < next)
    BY <1>3, <2>1
  <2>3. next <= k /\ k # 0
    BY <2>2, Bounds
  <2> QED
    BY <1>2, <2>1, <2>3 DEF InPhase, After
<1>4. OpenAt(c)
  BY <1>2, <1>3 DEF OpenAt
<1> QED
  BY <1>2, <1>4, OpenSave

LEMMA TakeInputOpen ==
  ASSUME RunInv, Kept, NEW w \in Workers, OpenInv(w), TakeInput(w), UNCHANGED policy
  PROVE  OpenInv(w)'
<1>1. PICK m \in Checkpoint : m = mem[w]
  BY DEF RunInv, MemoryTypeOK
<1>2. /\ AfterReply(w) /\ m.next <= Tools(w) /\ m.wait = "input" /\ UNCHANGED calls
      /\ calls[w] = NoCalls /\ m.iter \in Iterations /\ Tools(w) \in 0 .. MaxTools
      /\ m.next \in 1 .. MaxTools + 1 /\ After(m)
  BY <1>1, AfterReplyIs DEF TakeInput, ToolsPending
<1>3. PICK next : next = m.next + 1
  OBVIOUS
<1>4. next \in 1 .. MaxTools + 1 /\ m.next \in 1 .. MaxTools
  BY <1>2, <1>3, Bounds
<1>5. PICK c : c = [m EXCEPT !.phase = "after_tool", !.next = next, !.wait = "none"]
  OBVIOUS
<1>6. Save(w, c)
  <2>1. c = [m EXCEPT !.phase = "after_tool", !.next = @ + 1, !.wait = "none"]
    BY <1>3, <1>5 DEF Checkpoint
  <2> QED
    BY <1>1, <2>1 DEF TakeInput, Save
<1>7. m = saved
  BY <1>1, <1>2, <1>6, SaverOwns DEF AfterReply
<1>8. c \in Checkpoint
  BY <1>4, <1>5 DEF Checkpoint, Phases
<1>9. tape[<<m.iter, m.next>>] # "intent"
  <2>1. <<m.iter, m.next>> \in Inputs
    BY <1>2, <1>7 DEF OpenInv
  <2>2. <<m.iter, m.next>> \in Slots /\ <<m.iter, m.next>> \in Effects
    BY <1>2, <1>4, Bounds DEF Slots, Effects
  <2>3. ~(live[<<m.iter, m.next>>] > 0)
    BY <2>1, <2>2 DEF RunInv, ApprovedBeforeLive
  <2> QED
    BY <2>2, <2>3 DEF OpenInv
<1>10. ASSUME NEW k \in 1 .. MaxTools, saved.next <= k, k < next
       PROVE  tape[<<saved.iter, k>>] # "intent"
  <2>1. k = m.next
    BY <1>3, <1>4, <1>7, <1>10
  <2> QED
    BY <1>7, <1>9, <2>1
<1> QED
  BY <1>2, <1>4, <1>5, <1>6, <1>7, <1>8, <1>10, ToolsOpen

LEMMA ToolsDoneOpen ==
  ASSUME RunInv, Kept, NEW w \in Workers, OpenInv(w), ToolsDone(w), UNCHANGED policy
  PROVE  OpenInv(w)'
<1>1. PICK m \in Checkpoint : m = mem[w]
  BY DEF RunInv, MemoryTypeOK
<1>2. PICK batch : batch = {k \in 1 .. MaxTools : calls[w][k] # "none"}
  OBVIOUS
<1>3. /\ pc[w] = "tools" /\ \A k \in batch : calls[w][k] = "done"
      /\ calls' = [calls EXCEPT ![w] = NoCalls]
      /\ Save(w, [m EXCEPT !.phase = "after_tool", !.wait = "none",
                           !.next = m.next + Cardinality(batch)])
  BY <1>1, <1>2 DEF ToolsDone, BatchDone, BatchEnd, Save
<1>4. After(m) /\ m.next \in 1 .. MaxTools + 1
  BY <1>1, <1>3 DEF RunInv, CallsFit, Checkpoint
<1>5. \A k \in batch : k >= m.next /\ \A j \in m.next .. k : calls[w][j] # "none"
  BY <1>1, <1>2, <1>3 DEF RunInv, CallsFit
<1>6. \A k \in batch : k >= m.next /\ \A j \in m.next .. k : j \in batch
  BY <1>2, <1>4, <1>5, Bounds
<1>7. batch \subseteq 1 .. MaxTools /\ MaxTools \in Nat
  BY <1>2, Bounds
<1>8. PICK next \in 1 .. MaxTools + 1 : /\ next = m.next + Cardinality(batch)
                                        /\ \A k \in m.next .. next - 1 : k \in batch
  BY <1>4, <1>6, <1>7, BatchIs
<1>9. \A k \in batch : tape[<<m.iter, k>>] \in Endings
  <2>1. batch \subseteq 0 .. MaxTools
    BY <1>2, Bounds
  <2> QED
    BY <1>1, <1>3, <2>1 DEF RunInv, CallsFit
<1>10. PICK c : c = [m EXCEPT !.phase = "after_tool", !.next = next, !.wait = "none"]
  OBVIOUS
<1>11. Save(w, c)
  <2>1. c = [m EXCEPT !.phase = "after_tool", !.wait = "none", !.next = m.next + Cardinality(batch)]
    BY <1>8, <1>10 DEF Checkpoint
  <2> QED
    BY <1>3, <2>1 DEF Save
<1>12. m = saved
  BY <1>1, <1>3, <1>11, SaverOwns
<1>13. c \in Checkpoint
  BY <1>8, <1>10 DEF Checkpoint, Phases
<1>14. ASSUME NEW k \in 1 .. MaxTools, saved.next <= k, k < next
       PROVE  tape[<<saved.iter, k>>] # "intent"
  <2>1. k \in m.next .. next - 1
    BY <1>4, <1>8, <1>12, <1>14, Bounds
  <2> QED
    BY <1>8, <1>9, <1>12, <2>1 DEF Endings
<1>15. calls'[w] = NoCalls
  BY <1>3 DEF RunInv, MemoryTypeOK
<1> QED
  BY <1>4, <1>8, <1>10, <1>11, <1>12, <1>13, <1>14, <1>15, ToolsOpen

LEMMA SuspendForOpen ==
  ASSUME RunInv, Kept, NEW w \in Workers, OpenInv(w), NEW kind \in {"approval", "input"},
         SuspendFor(w, kind), UNCHANGED policy
  PROVE  OpenInv(w)'
<1>1. PICK m \in Checkpoint : m = mem[w]
  BY DEF RunInv, MemoryTypeOK
<1>2. PICK d : d = [m EXCEPT !.wait = kind]
  OBVIOUS
<1>3. /\ AfterReply(w)
      /\ kind = "input" => <<m.iter, m.next>> \in Inputs
      /\ saved' = d /\ pc' = [pc EXCEPT ![w] = "idle"]
      /\ UNCHANGED <<tapeVars, token, mem, calls>>
  BY <1>1, <1>2 DEF SuspendFor, ToolsPending, Slot, Goto
<1>4. calls[w] = NoCalls /\ After(m) /\ pc[w] = "act"
  <2>1. pc[w] = "act"
    BY <1>3 DEF AfterReply
  <2> QED
    BY <1>1, <1>3, <2>1, AfterReplyIs
<1>5. m = saved
  BY <1>1, <1>4 DEF OpenInv, RunInv, OwnerSynced
<1>6. d.wait = kind /\ d.phase = m.phase /\ d.iter = m.iter /\ d.next = m.next
  BY <1>2 DEF Checkpoint
<1>7. FailedAtEnd' /\ (version'[Run] = 0 => version[Run] = 0)
  BY StoreEnds DEF RunInv, Kept, OpenInv
<1>8. version'[Run] # 0
  BY <1>4, <1>5, <1>7 DEF OpenInv, After
<1>9. UNCHANGED <<tape, reply, live, policy>>
  BY <1>3 DEF tapeVars
<1>10. OpenAt(saved)'
  <2>1. OpenAt(m)
    BY <1>5 DEF OpenInv
  <2>2. \A e \in Effects : InPhase(m, e) => InPhase(d, e)
    BY <1>6 DEF InPhase, After
  <2>3. m.phase # "terminal" /\ d.phase # "terminal"
    BY <1>4, <1>6 DEF After
  <2>4. OpenAt(d)
    BY <2>1, <2>2, <2>3 DEF OpenAt
  <2> QED
    BY <1>3, <1>9, <2>4 DEF OpenAt, InPhase, After
<1>11. CallsOpen(w)'
  <2>1. calls'[w] = NoCalls
    BY <1>3, <1>4
  <2> QED
    BY <2>1 DEF CallsOpen, NoCalls
<1>12. pc'[w] = "idle"
  BY <1>3 DEF RunInv, MemoryTypeOK
<1>13. \A e \in Effects : tape'[e] = "intent" => live'[e] > 0
  BY <1>9 DEF OpenInv
<1>14. saved'.wait = "input" => <<saved'.iter, saved'.next>> \in Inputs'
  BY <1>3, <1>6, <1>9 DEF Inputs
<1> QED
  BY <1>7, <1>8, <1>10, <1>11, <1>12, <1>13, <1>14 DEF OpenInv

\* A step on the tape: what it opens is of the phase, and a reply changes only
\* while no checkpoint has taken it up.
LEMMA TapeOpen ==
  ASSUME RunInv, Kept, NEW w \in Workers, OpenInv(w),
         UNCHANGED <<saved, policy, token, attempt, mem>>,
         reply' = reply \/ ~After(saved),
         \A x \in Effects : tape'[x] = "intent" =>
           /\ live'[x] > 0
           /\ tape[x] = "intent" \/ (InPhase(saved, x) /\ saved.phase # "terminal"),
         \A k \in 0 .. MaxTools : calls'[w][k] # "none" => calls[w][k] # "none",
         pc'[w] = "expiring" => pc[w] = "expiring" /\ (NoneOpen => NoneOpen'),
         pc'[w] # "idle" => pc[w] # "idle"
  PROVE  OpenInv(w)'
<1>1. ASSUME NEW x, InPhase(saved, x) PROVE InPhase(saved, x)'
  BY <1>1 DEF InPhase, After
<1>2. OpenAt(saved)'
  <2>1. ASSUME NEW x \in Effects, tape'[x] = "intent"
        PROVE  IF saved'.phase = "terminal" THEN saved'.result = "cancelled" ELSE InPhase(saved, x)'
    <3>1. CASE tape[x] = "intent"
      BY <1>1, <3>1 DEF OpenInv, OpenAt
    <3>2. CASE InPhase(saved, x) /\ saved.phase # "terminal"
      BY <1>1, <3>2
    <3> QED
      BY <2>1, <3>1, <3>2
  <2> QED
    BY <2>1 DEF OpenAt, InPhase, After
<1>3. CallsOpen(w)'
  <2>1. ASSUME NEW k \in 0 .. MaxTools, calls'[w][k] # "none"
        PROVE  mem'[w] = saved' /\ InPhase(saved, <<saved.iter, k>>)'
    <3>1. mem[w] = saved /\ InPhase(saved, <<saved.iter, k>>)
      BY <2>1 DEF OpenInv, CallsOpen
    <3> QED
      BY <3>1 DEF InPhase, After
  <2> QED
    BY <2>1 DEF CallsOpen, InPhase, After
<1>4. FailedAtEnd' /\ (version'[Run] = 0 => version[Run] = 0)
  BY StoreEnds DEF RunInv, Kept, OpenInv
<1> QED
  BY <1>2, <1>3, <1>4 DEF OpenInv, Inputs

\* A worker's call that is under way is of the phase.
LEMMA CallPhase ==
  ASSUME RunInv, NEW w \in Workers, OpenInv(w), NEW k \in 0 .. MaxTools, calls[w][k] # "none"
  PROVE  /\ mem[w] = saved /\ InPhase(saved, <<mem[w].iter, k>>) /\ saved.phase # "terminal"
         /\ k = 0 => ~After(saved)
         /\ pc[w] # "expiring"
<1>1. mem[w] = saved /\ InPhase(saved, <<mem[w].iter, k>>)
  BY DEF OpenInv, CallsOpen
<1>2. pc[w] # "expiring"
  <2>1. calls[w] # NoCalls /\ CallsFit(w)
    BY DEF RunInv, NoCalls
  <2> QED
    BY <2>1 DEF CallsFit
<1> QED
  BY <1>1, <1>2 DEF InPhase, After

LEMMA ExecuteOpen ==
  ASSUME RunInv, Kept, NEW w \in Workers, OpenInv(w), NEW k \in 0 .. MaxTools, Execute(w, k),
         UNCHANGED policy
  PROVE  OpenInv(w)'
<1>1. PICK e : e = <<mem[w].iter, k>>
  OBVIOUS
<1>2. /\ calls[w][k] = "todo" /\ tape[e] = "none"
      /\ UNCHANGED <<saved, policy, token, attempt, mem, pc>>
  BY <1>1 DEF Execute, Admissible, storeVars
<1>3. MemoryTypeOK /\ e \in Effects
  BY <1>1, <1>2, CallIs
<1>4. /\ mem[w] = saved /\ InPhase(saved, e) /\ saved.phase # "terminal"
      /\ k = 0 => ~After(saved)
      /\ pc[w] # "expiring"
  BY <1>1, <1>2, CallPhase
<1>5. /\ \/ tape' = [tape EXCEPT ![e] = "intent"] /\ live' = [live EXCEPT ![e] = @ + 1]
         \/ tape' = [tape EXCEPT ![e] = "rejected"] /\ live' = live
      /\ \E stage : calls' = [calls EXCEPT ![w][k] = stage]
      /\ reply' = reply \/ k = 0
  BY <1>1 DEF Execute
<1>6. \A x \in Effects : tape'[x] = "intent" =>
        /\ live'[x] > 0
        /\ tape[x] = "intent" \/ (InPhase(saved, x) /\ saved.phase # "terminal")
  <2>1. live[e] \in Nat /\ \A x \in Effects : tape[x] = "intent" => live[x] > 0
    BY <1>3 DEF OpenInv, MemoryTypeOK
  <2>2. live \in [Effects -> Nat] /\ tape \in [Effects -> {"none", "intent"} \cup Endings]
    BY <1>3 DEF MemoryTypeOK
  <2>3. CASE tape' = [tape EXCEPT ![e] = "intent"] /\ live' = [live EXCEPT ![e] = @ + 1]
    <3>1. live'[e] = live[e] + 1 /\ \A x \in Effects : x # e => live'[x] = live[x] /\ tape'[x] = tape[x]
      BY <1>3, <2>2, <2>3
    <3> QED
      BY <1>4, <2>1, <3>1
  <2>4. CASE tape' = [tape EXCEPT ![e] = "rejected"] /\ live' = live
    <3>1. tape'[e] = "rejected" /\ \A x \in Effects : x # e => tape'[x] = tape[x]
      BY <1>3, <2>2, <2>4
    <3> QED
      BY <2>1, <2>4, <3>1
  <2> QED
    BY <1>5, <2>3, <2>4
<1>7. \A j \in 0 .. MaxTools : calls'[w][j] # "none" => calls[w][j] # "none"
  BY <1>2, <1>3, <1>5 DEF MemoryTypeOK
<1> QED
  BY <1>2, <1>4, <1>5, <1>6, <1>7, TapeOpen

LEMMA AnswerOpen ==
  ASSUME RunInv, Kept, NEW w \in Workers, OpenInv(w), NEW k \in 0 .. MaxTools, Answer(w, k),
         UNCHANGED policy
  PROVE  OpenInv(w)'
<1>1. PICK e : e = <<mem[w].iter, k>>
  OBVIOUS
<1>2. /\ calls[w][k] = "live" /\ UNCHANGED <<saved, policy, token, attempt, mem, live>>
  BY DEF Answer, storeVars
<1>3. MemoryTypeOK /\ e \in Effects
  BY <1>1, <1>2, CallIs
<1>4. (k = 0 => ~After(saved)) /\ pc[w] # "expiring"
  BY <1>2, CallPhase
<1>5. /\ tape' = tape \/ \E how \in {"ok", "unrecordable"} : tape' = [tape EXCEPT ![e] = how]
      /\ \E stage : calls' = [calls EXCEPT ![w][k] = stage]
      /\ reply' = reply \/ k = 0
      /\ pc' = pc \/ (pc[w] \in {"model", "tools"} /\ pc' = [pc EXCEPT ![w] = "failing"])
  BY <1>1 DEF Answer, Raise, Fail, Goto
<1>6. \A x \in Effects : tape'[x] = "intent" => tape[x] = "intent"
  BY <1>3, <1>5 DEF MemoryTypeOK
<1>7. \A x \in Effects : tape'[x] = "intent" => live'[x] > 0
  BY <1>2, <1>6 DEF OpenInv
<1>8. \A j \in 0 .. MaxTools : calls'[w][j] # "none" => calls[w][j] # "none"
  BY <1>2, <1>3, <1>5 DEF MemoryTypeOK
<1>9. pc'[w] # "expiring" /\ (pc'[w] # "idle" => pc[w] # "idle")
  BY <1>3, <1>4, <1>5 DEF MemoryTypeOK
<1> QED
  BY <1>2, <1>4, <1>5, <1>6, <1>7, <1>8, <1>9, TapeOpen

LEMMA ReconcileOpen ==
  ASSUME RunInv, Kept, NEW w \in Workers, OpenInv(w), NEW e \in Effects, Reconcile(e),
         UNCHANGED policy
  PROVE  OpenInv(w)'
<1>1. /\ tape[e] = "intent" /\ tape' = [tape EXCEPT ![e] = "ok"]
      /\ e[2] = 0 \/ reply' = reply
      /\ UNCHANGED <<saved, policy, token, attempt, mem, live, pc, calls>>
  BY DEF Reconcile, storeVars, memVars
<1>2. e[2] = 0 => ~After(saved)
  BY <1>1 DEF OpenInv, OpenAt, InPhase, After
<1>3. \A x \in Effects : tape'[x] = "intent" => tape[x] = "intent"
  BY <1>1 DEF RunInv, MemoryTypeOK
<1>4. \A x \in Effects : tape'[x] = "intent" => live'[x] > 0
  BY <1>1, <1>3 DEF OpenInv
<1>5. NoneOpen => NoneOpen'
  BY <1>3 DEF NoneOpen
<1> QED
  BY <1>1, <1>2, <1>3, <1>4, <1>5, TapeOpen

-----------------------------------------------------------------------------
(* One worker: a run that stopped has nothing open *)

LEMMA InitOpen == ASSUME Init, NEW w \in Workers PROVE OpenInv(w)
<1>1. /\ saved = NoContent /\ tape = [e \in Effects |-> "none"] /\ pc[w] = "idle"
      /\ calls[w] = NoCalls /\ Store!Init
  BY DEF Init
<1>2. \A e \in Effects : tape[e] # "intent"
  BY <1>1
<1>3. saved.phase = "none" /\ saved.wait = "none"
  BY <1>1, NoContentIs
<1>4. CallsOpen(w)
  BY <1>1 DEF CallsOpen, NoCalls
<1>5. FailedAtEnd
  <2>1. error[Run] = NoError /\ NoError # "agent termination"
    BY <1>1, StoreConstants DEF Store!Init, Store!StoreAssumption, OtherErrors
  <2> QED
    BY <2>1 DEF FailedAtEnd
<1> QED
  BY <1>1, <1>2, <1>3, <1>4, <1>5 DEF OpenInv, OpenAt, NoneOpen

LEMMA ProceedOpen ==
  ASSUME RunInv, Kept, NEW w \in Workers, OpenInv(w), Proceed(w), UNCHANGED policy
  PROVE  OpenInv(w)'
<1>1. CASE Load(w) \/ Look(w) \/ SaveCancelled(w) \/ StartIteration(w) \/ CallModel(w) \/ ModelDone(w)
  BY <1>1, LoadOpen, MovesOpen, SaveEndsOpen, StartIterationOpen, CallModelOpen, ModelDoneOpen
<1>2. CASE Conclude(w) \/ Advance(w) \/ \E kind \in {"approval", "input"} : SuspendFor(w, kind)
  BY <1>2, ConcludeOpen, AdvanceOpen, SuspendForOpen
<1>3. CASE TakeInput(w) \/ NotAnswered(w) \/ CallTools(w) \/ ToolsDone(w)
  BY <1>3, TakeInputOpen, MovesOpen, CallToolsOpen, ToolsDoneOpen
<1>4. CASE \E k \in 0 .. MaxTools : Execute(w, k) \/ Recover(w, k) \/ Completed(w, k)
  BY <1>4, ExecuteOpen, RecoverOpen
<1>5. CASE FinishControlled(w) \/ RequestOwnCancel(w) \/ SaveExpired(w) \/ Settle(w)
           \/ SettleCancelled(w) \/ FailRun(w) \/ GiveUp(w) \/ HeartbeatLost(w)
  BY <1>5, FinishControlledOpen, StoreCallsOpen, SaveEndsOpen, MovesOpen
<1> QED
  BY <1>1, <1>2, <1>3, <1>4, <1>5 DEF Proceed

LEMMA NextOpen ==
  ASSUME NEW w, Workers = {w}, RunInv, OpenInv(w), [Next]_vars
  PROVE  OpenInv(w)'
<1>1. Kept /\ w \in Workers
  BY NextRunInv
<1>2. CASE Outside /\ UNCHANGED policy
  BY <1>1, <1>2, OutsideOpen
<1>3. CASE (\E e \in Effects : Reconcile(e)) /\ UNCHANGED policy
  BY <1>1, <1>3, ReconcileOpen
<1>4. CASE UNCHANGED policy /\ (Claim(w) \/ Proceed(w) \/ AnswerSome(w))
  BY <1>1, <1>4, ClaimOpen, ProceedOpen, AnswerOpen DEF AnswerSome
<1>5. CASE /\ UNCHANGED policy
           /\ \/ PhaseTimeout(w) \/ Heartbeat(w) \/ Crash(w)
              \/ \E why \in {"cancel", "deadline"} : Controlled(w, why)
  BY <1>1, <1>5, MovesOpen, StoreCallsOpen
<1>6. CASE UNCHANGED vars
  BY <1>1, <1>6, OpenGoesOn DEF vars, storeVars, memVars
<1> QED
  BY <1>2, <1>3, <1>4, <1>5, <1>6 DEF Next

LEMMA OpenSettled ==
  ASSUME NEW w \in Workers, RunInv, OpenInv(w)
  PROVE  StoppedMeansSettled
<1>1. saved \in Checkpoint
  BY DEF RunInv, MemoryTypeOK
<1>2. ASSUME NEW result \in {"natural", "stopped"}, saved = Terminal(saved, result)
      PROVE  \A e \in Effects : tape[e] # "intent"
  <2>1. saved.phase = "terminal" /\ saved.result = result
    <3>1. PICK c \in Checkpoint : c = saved
      BY <1>1
    <3>2. PICK r \in Results : r = result
      BY DEF Results
    <3>3. Terminal(c, r).phase = "terminal" /\ Terminal(c, r).result = r
      BY TerminalIs
    <3> QED
      BY <1>2, <3>1, <3>2, <3>3
  <2>2. OpenAt(saved) /\ result # "cancelled"
    BY DEF OpenInv
  <2> QED
    BY <2>1, <2>2 DEF OpenAt
<1>3. state[Run] = "completed" => saved = Terminal(saved, "natural")
  BY DEF RunInv, TerminalAgrees
<1>4. error[Run] = "agent termination" => saved = Terminal(saved, "stopped")
  BY DEF OpenInv, FailedAtEnd, RunInv, TerminalAgrees
<1> QED
  BY <1>2, <1>3, <1>4 DEF StoppedMeansSettled

\* A deployment with one worker: a run that completed or stopped has no effect
\* of unknown outcome, whatever crashed, timed out, was cancelled, reconciled or
\* reopened before; FinishControlled fails an interrupted phase for recovery
\* instead of ending it.
THEOREM OneWorkerSettles ==
  ASSUME NEW w, Workers = {w}
  PROVE  Spec => []StoppedMeansSettled
<1> DEFINE I == RunInv /\ OpenInv(w)
<1>1. w \in Workers
  OBVIOUS
<1>2. Init => I
  BY <1>1, InitRunInv, InitOpen
<1>3. I /\ [Next]_vars => I'
  BY NextRunInv, NextOpen DEF Kept
<1>4. I => StoppedMeansSettled
  BY <1>1, OpenSettled
<1> QED
  BY <1>2, <1>3, <1>4, PTL DEF Spec

-----------------------------------------------------------------------------
(* RunEffects *)

Observations == Outcomes \cup {NoEffect, Open, Rejected}

HostCalls ==
  [pc : {"idle", "claim", "read back", "check", "recover", "admit", "refuse", "live",
         "observe", "append", "return"},
   effect : HostEffects \cup {Nothing}, approved : BOOLEAN, token : Nat, leased : BOOLEAN,
   observed : Observations \cup {Nothing}]

HostRuns ==
  [state : {"pending", "running", "waiting", "settled"}, attempt : Nat, cancel : BOOLEAN]

HostTypes ==
  /\ run \in HostRuns
  /\ effectTape \in [HostEffects -> Observations]
  /\ stream \in [HostEffects -> {Nothing} \cup {Shown(o) : o \in Observations \ {NoEffect}}]
  /\ executed \in [HostEffects -> Seq(BOOLEAN)]
  /\ caller \in [Callers -> HostCalls]
  /\ answered \subseteq [effect : HostEffects, observed : Observations \ {NoEffect}]

\* What a call knows of its effect, whoever else observes or reconciles it.
HostCallFits(r) ==
  /\ r.pc # "idle" => r.effect \in HostEffects
  /\ r.pc \in {"refuse", "live", "observe", "append", "return"} =>
       effectTape[r.effect] # NoEffect
  /\ r.pc = "refuse" => executed[r.effect] = <<>>
  /\ r.pc \in {"append", "return"} => r.observed \in {Open, effectTape[r.effect]}
  /\ r.pc = "return" => stream[r.effect] = Shown(r.observed)

\* One execution at most, and none of what was refused.
OneExecution ==
  \A e \in HostEffects :
    \/ executed[e] = <<>>
    \/ /\ \E ok \in BOOLEAN : executed[e] = <<ok>> /\ (e \in Risky => ok)
       /\ effectTape[e] \notin {NoEffect, Rejected}

Untold == \A e \in HostEffects : effectTape[e] = NoEffect => stream[e] = Nothing

HostInv ==
  /\ HostTypes
  /\ \A c \in Callers : HostCallFits(caller[c])
  /\ OneExecution
  /\ Untold
  /\ StreamTold

LEMMA ObservationsDiffer ==
  ASSUME OutcomesAssumption
  PROVE  /\ NoEffect # Open /\ NoEffect # Rejected /\ Open # Rejected
         /\ \A o \in Outcomes : o \notin {NoEffect, Open, Rejected}
         /\ Shown(Open) = Open
         /\ \A o \in Observations \ {NoEffect} : Shown(o) # Nothing
<1>1. NoEffect.status = "none" /\ Open.status = "uncertain" /\ Rejected.status = "rejected"
  BY DEF NoEffect, Open, Rejected
<1>2. Shown(Open) = Open
  BY DEF OutcomesAssumption, Shown, Open
<1> QED
  BY <1>1, <1>2 DEF OutcomesAssumption, Observations

\* What the actions of any caller and of a reconciliation do to the tables.
TablesGrow ==
  \A e \in HostEffects :
    /\ \/ effectTape'[e] = effectTape[e]
       \/ effectTape[e] \in {NoEffect, Open} /\ effectTape'[e] # NoEffect
    /\ stream'[e] = stream[e] \/ stream[e] = Nothing
    /\ executed'[e] = executed[e] \/ effectTape[e] = NoEffect

\* A call that has not moved still fits.
LEMMA CallStillFits ==
  ASSUME OutcomesAssumption, HostTypes, TablesGrow, NEW r \in HostCalls, HostCallFits(r)
  PROVE  HostCallFits(r)'
<1>1. r.pc = "idle" \/ r.effect \in HostEffects
  BY DEF HostCallFits
<1>2. CASE r.pc = "idle"
  BY <1>2 DEF HostCallFits
<1>3. CASE r.pc # "idle"
  <2>1. PICK e \in HostEffects : e = r.effect
    BY <1>1, <1>3
  <2>2. /\ \/ effectTape'[e] = effectTape[e]
           \/ effectTape[e] \in {NoEffect, Open} /\ effectTape'[e] # NoEffect
        /\ stream'[e] = stream[e] \/ stream[e] = Nothing
        /\ executed'[e] = executed[e] \/ effectTape[e] = NoEffect
    BY DEF TablesGrow
  <2>3. r.pc \in {"refuse", "live", "observe", "append", "return"} =>
          effectTape[e] # NoEffect /\ effectTape'[e] # NoEffect
    BY <2>1, <2>2 DEF HostCallFits
  <2>4. r.pc = "refuse" => executed'[e] = <<>>
    BY <2>1, <2>2, <2>3 DEF HostCallFits
  <2>5. r.pc \in {"append", "return"} =>
          r.observed \in {Open, effectTape[e]} /\ r.observed \in {Open, effectTape'[e]}
    BY <2>1, <2>2, <2>3 DEF HostCallFits
  <2>6. r.pc = "return" => stream'[e] = Shown(r.observed)
    <3>1. SUFFICES ASSUME r.pc = "return" PROVE stream[e] # Nothing /\ stream[e] = Shown(r.observed)
      BY <2>2
    <3>2. stream[e] = Shown(r.observed) /\ r.observed \in {Open, effectTape[e]}
      BY <2>1, <2>5, <3>1 DEF HostCallFits
    <3>3. r.observed \in Observations \ {NoEffect}
      BY <2>3, <3>1, <3>2, ObservationsDiffer DEF HostTypes, Observations
    <3> QED
      BY <3>2, <3>3, ObservationsDiffer
  <2> QED
    BY <2>1, <2>3, <2>4, <2>5, <2>6 DEF HostCallFits
<1> QED
  BY <1>2, <1>3

\* A step of one call: the others fit, so it is enough that this one does.
LEMMA OneCallMoves ==
  ASSUME OutcomesAssumption, HostInv, TablesGrow, NEW c \in Callers, NEW r \in HostCalls,
         caller' = [caller EXCEPT ![c] = r], HostCallFits(r)'
  PROVE  caller' \in [Callers -> HostCalls] /\ \A d \in Callers : HostCallFits(caller[d])'
<1>1. caller' \in [Callers -> HostCalls]
  BY DEF HostInv, HostTypes
<1>2. ASSUME NEW d \in Callers PROVE HostCallFits(caller[d])'
  <2>1. PICK x : x = caller'[d]
    OBVIOUS
  <2>2. HostCallFits(x)'
    <3>1. CASE d = c
      BY <2>1, <3>1 DEF HostInv, HostTypes
    <3>2. CASE d # c
      <4>1. x = caller[d] /\ x \in HostCalls
        BY <2>1, <3>2 DEF HostInv, HostTypes
      <4>2. HostCallFits(x)
        BY <4>1 DEF HostInv
      <4> QED
        BY <4>1, <4>2, CallStillFits DEF HostInv
    <3> QED
      BY <3>1, <3>2
  <2> QED
    BY <2>1, <2>2 DEF HostCallFits
<1> QED
  BY <1>1, <1>2

\* A step that leaves the tables, and moves one call.
LEMMA OnlyCallMoves ==
  ASSUME OutcomesAssumption, HostInv, NEW c \in Callers, NEW r \in HostCalls,
         caller' = [caller EXCEPT ![c] = r], HostCallFits(r),
         UNCHANGED <<effectTape, stream, executed>>,
         run' \in HostRuns,
         answered' \subseteq [effect : HostEffects, observed : Observations \ {NoEffect}],
         \A a \in answered' : stream[a.effect] = Shown(a.observed)
  PROVE  HostInv'
<1>1. TablesGrow
  BY DEF TablesGrow
<1>2. HostCallFits(r)'
  BY DEF HostCallFits
<1>3. caller' \in [Callers -> HostCalls] /\ \A d \in Callers : HostCallFits(caller[d])'
  BY <1>1, <1>2, OneCallMoves
<1>4. HostTypes'
  BY <1>3 DEF HostInv, HostTypes
<1>5. OneExecution'
  BY DEF HostInv, OneExecution
<1>6. Untold' /\ StreamTold'
  BY DEF HostInv, Untold, StreamTold
<1> QED
  BY <1>3, <1>4, <1>5, <1>6 DEF HostInv

LEMMA IdleFits ==
  Idle \in HostCalls /\ HostCallFits(Idle)
<1>1. Idle \in HostCalls
  BY DEF Idle, HostCalls
<1>2. Idle.pc = "idle"
  BY DEF Idle
<1> QED
  BY <1>1, <1>2 DEF HostCallFits

\* A call that raises leaves everything as it is.
LEMMA RefusedKeeps ==
  ASSUME OutcomesAssumption, HostInv, NEW c \in Callers, Refused(c),
         UNCHANGED <<effectTape, stream, executed, answered>>,
         run' \in HostRuns
  PROVE  HostInv'
<1>1. caller' = [caller EXCEPT ![c] = Idle]
  BY DEF Refused
<1> QED
  BY <1>1, IdleFits, OnlyCallMoves DEF HostInv, HostTypes, StreamTold

LEMMA HostStarts ==
  ASSUME OutcomesAssumption, HostInit PROVE HostInv
<1>1. HostTypes
  BY IdleFits DEF HostInit, HostTypes, HostRuns, Observations
<1>2. \A c \in Callers : HostCallFits(caller[c])
  BY IdleFits DEF HostInit
<1>3. OneExecution
  BY DEF HostInit, OneExecution
<1>4. Untold /\ StreamTold
  BY DEF HostInit, Untold, StreamTold
<1> QED
  BY <1>1, <1>2, <1>3, <1>4 DEF HostInv

\* What workers, operators and the clock do to the run.
LEMMA RunMoves ==
  ASSUME HostInv, UNCHANGED <<effectTape, stream, caller, executed, answered>>,
         run' \in HostRuns
  PROVE  HostInv'
<1>1. HostTypes'
  BY DEF HostInv, HostTypes
<1>2. \A c \in Callers : HostCallFits(caller[c])'
  BY DEF HostInv, HostCallFits
<1>3. OneExecution' /\ Untold' /\ StreamTold'
  BY DEF HostInv, OneExecution, Untold, StreamTold
<1> QED
  BY <1>1, <1>2, <1>3 DEF HostInv

LEMMA ClaimedIs ==
  ASSUME run \in HostRuns, Claimed PROVE run' \in HostRuns
<1>1. PICK n \in Nat : n = run.attempt + 1
  BY DEF HostRuns
<1>2. run' = [run EXCEPT !.state = "running", !.attempt = n]
  BY <1>1 DEF Claimed
<1> QED
  BY <1>2 DEF HostRuns

LEMMA RunSettlesKeeps ==
  ASSUME HostInv,
         \/ WorkerClaims \/ Expire \/ RequestCancel
         \/ \E s \in {"waiting", "pending", "settled"} : RunSettles(s)
  PROVE  HostInv'
<1>1. run \in HostRuns
  BY DEF HostInv, HostTypes
<1>2. CASE WorkerClaims
  BY <1>1, <1>2, RunMoves, ClaimedIs DEF WorkerClaims
<1>3. CASE Expire
  BY <1>1, <1>3, RunMoves DEF Expire
<1>4. CASE RequestCancel
  BY <1>1, <1>4, RunMoves DEF RequestCancel, HostRuns
<1>5. ASSUME NEW s \in {"waiting", "pending", "settled"}, RunSettles(s) PROVE HostInv'
  BY <1>1, <1>5, RunMoves DEF RunSettles, HostRuns
<1> QED
  BY <1>2, <1>3, <1>4, <1>5

\* The run is read.
LEMMA HostStartKeeps ==
  ASSUME OutcomesAssumption, HostInv, NEW c \in Callers, NEW e \in HostEffects,
         NEW ok \in BOOLEAN, NEW held \in Nat, Start(c, e, ok, held)
  PROVE  HostInv'
<1>1. PICK at \in {"claim", "check"} :
        at = IF run.state = "pending" THEN "claim" ELSE "check"
  OBVIOUS
<1>2. PICK leased : leased = (run.state = "running")
  OBVIOUS
<1>3. leased \in BOOLEAN
  BY <1>2
<1>4. /\ caller' = [caller EXCEPT ![c] =
           [Idle EXCEPT !.pc = at, !.effect = e, !.approved = ok, !.token = held,
                        !.leased = leased]]
      /\ UNCHANGED <<run, effectTape, stream, executed, answered>>
  BY <1>1, <1>2 DEF Start, control
<1>5. PICK idle \in HostCalls : idle = Idle
  BY IdleFits
<1>6. PICK r : r = [idle EXCEPT !.pc = at, !.effect = e, !.approved = ok, !.token = held,
                                !.leased = leased]
  OBVIOUS
<1>7. r \in HostCalls /\ r.pc \in {"claim", "check"} /\ r.effect = e
  BY <1>3, <1>6 DEF HostCalls
<1>8. caller' = [caller EXCEPT ![c] = r]
  BY <1>4, <1>5, <1>6
<1>9. HostCallFits(r)
  BY <1>7 DEF HostCallFits
<1> QED
  BY <1>4, <1>7, <1>8, <1>9, OnlyCallMoves DEF HostInv, HostTypes, StreamTold

\* A call goes on to another step, and only that.
LEMMA MovesTo ==
  ASSUME HostTypes, NEW c \in Callers,
         NEW at \in {"read back", "recover", "admit", "observe", "return"}, MoveTo(c, at)
  PROVE  \E r \in HostCalls :
           /\ caller' = [caller EXCEPT ![c] = r]
           /\ r.pc = at /\ r.effect = caller[c].effect /\ r.observed = caller[c].observed
<1>1. PICK old \in HostCalls : old = caller[c]
  BY DEF HostTypes
<1>2. PICK r : r = [old EXCEPT !.pc = at]
  OBVIOUS
<1>3. /\ r \in HostCalls
      /\ r.pc = at /\ r.effect = old.effect /\ r.observed = old.observed
  BY <1>2 DEF HostCalls
<1>4. caller' = [caller EXCEPT ![c] = r]
  BY <1>1, <1>2 DEF MoveTo
<1> QED
  BY <1>1, <1>3, <1>4

\* Claiming, reading back and the check of the lease.
LEMMA ClaimForCallKeeps ==
  ASSUME OutcomesAssumption, HostInv, NEW c \in Callers, ClaimForCall(c)
  PROVE  HostInv'
<1>1. /\ caller[c].pc = "claim" /\ UNCHANGED <<effectTape, stream, executed, answered>>
      /\ \/ Claimed /\ MoveTo(c, "read back")
         \/ Refused(c) /\ UNCHANGED run
  BY DEF ClaimForCall
<1>2. CASE Claimed /\ MoveTo(c, "read back")
  <2>1. run' \in HostRuns
    BY <1>2, ClaimedIs DEF HostInv, HostTypes
  <2>2. PICK r \in HostCalls :
          /\ caller' = [caller EXCEPT ![c] = r]
          /\ r.pc = "read back" /\ r.effect = caller[c].effect
    BY <1>2, MovesTo DEF HostInv
  <2>3. caller[c].effect \in HostEffects
    BY <1>1 DEF HostInv, HostCallFits
  <2>4. HostCallFits(r)
    BY <2>2, <2>3 DEF HostCallFits
  <2> QED
    BY <1>1, <2>1, <2>2, <2>4, OnlyCallMoves DEF HostInv, HostTypes, StreamTold
<1>3. CASE Refused(c) /\ UNCHANGED run
  BY <1>1, <1>3, RefusedKeeps DEF HostInv, HostTypes
<1> QED
  BY <1>1, <1>2, <1>3

LEMMA ReadBackKeeps ==
  ASSUME OutcomesAssumption, HostInv, NEW c \in Callers, ReadBack(c)
  PROVE  HostInv'
<1>1. PICK held \in Nat : held = IF run.state = "running" THEN run.attempt ELSE 0
  BY DEF HostInv, HostTypes, HostRuns
<1>2. PICK leased : leased = (run.state = "running")
  OBVIOUS
<1>3. leased \in BOOLEAN
  BY <1>2
<1>4. /\ caller[c].pc = "read back"
      /\ UNCHANGED <<run, effectTape, stream, executed, answered>>
      /\ \/ caller' = [caller EXCEPT ![c].pc = "check", ![c].token = held,
                                     ![c].leased = leased]
         \/ Refused(c)
  BY <1>1, <1>2 DEF ReadBack, control
<1>5. CASE caller' = [caller EXCEPT ![c].pc = "check", ![c].token = held,
                                    ![c].leased = leased]
  <2>1. PICK old \in HostCalls : old = caller[c]
    BY DEF HostInv, HostTypes
  <2>2. PICK r : r = [old EXCEPT !.pc = "check", !.token = held, !.leased = leased]
    OBVIOUS
  <2>3. /\ r \in HostCalls
        /\ r.pc = "check" /\ r.effect = old.effect
    BY <1>3, <2>2 DEF HostCalls
  <2>4. caller' = [caller EXCEPT ![c] = r]
    BY <1>5, <2>1, <2>2 DEF HostInv, HostTypes
  <2>5. old.effect \in HostEffects
    BY <1>4, <2>1 DEF HostInv, HostCallFits
  <2>6. HostCallFits(r)
    BY <2>3, <2>5 DEF HostCallFits
  <2> QED
    BY <1>4, <2>3, <2>4, <2>6, OnlyCallMoves DEF HostInv, HostTypes, StreamTold
<1>6. CASE Refused(c)
  BY <1>4, <1>6, RefusedKeeps DEF HostInv, HostTypes
<1> QED
  BY <1>4, <1>5, <1>6

LEMMA CheckKeeps ==
  ASSUME OutcomesAssumption, HostInv, NEW c \in Callers, Check(c)
  PROVE  HostInv'
<1>1. PICK no : no = FALSE
  OBVIOUS
<1>2. no \in BOOLEAN
  BY <1>1
<1>3. /\ caller[c].pc = "check"
      /\ UNCHANGED <<run, effectTape, stream, executed, answered>>
      /\ \/ caller' = [caller EXCEPT ![c].pc = "recover", ![c].leased = no]
         \/ Refused(c)
  BY <1>1 DEF Check, control
<1>4. CASE caller' = [caller EXCEPT ![c].pc = "recover", ![c].leased = no]
  <2>1. PICK old \in HostCalls : old = caller[c]
    BY DEF HostInv, HostTypes
  <2>2. PICK r : r = [old EXCEPT !.pc = "recover", !.leased = no]
    OBVIOUS
  <2>3. /\ r \in HostCalls
        /\ r.pc = "recover" /\ r.effect = old.effect
    BY <1>2, <2>2 DEF HostCalls
  <2>4. caller' = [caller EXCEPT ![c] = r]
    BY <1>4, <2>1, <2>2 DEF HostInv, HostTypes
  <2>5. old.effect \in HostEffects
    BY <1>3, <2>1 DEF HostInv, HostCallFits
  <2>6. HostCallFits(r)
    BY <2>3, <2>5 DEF HostCallFits
  <2> QED
    BY <1>3, <2>3, <2>4, <2>6, OnlyCallMoves DEF HostInv, HostTypes, StreamTold
<1>5. CASE Refused(c)
  BY <1>3, <1>5, RefusedKeeps DEF HostInv, HostTypes
<1> QED
  BY <1>3, <1>4, <1>5

\* recover_effect: what is on the tape is observed.
LEMMA RecoverEffectKeeps ==
  ASSUME OutcomesAssumption, HostInv, NEW c \in Callers, RecoverEffect(c)
  PROVE  HostInv'
<1>1. PICK e \in HostEffects : e = caller[c].effect
  BY DEF RecoverEffect, HostInv, HostCallFits
<1>2. PICK at \in {"admit", "observe"} :
        at = IF effectTape[e] = NoEffect THEN "admit" ELSE "observe"
  OBVIOUS
<1>3. MoveTo(c, at) /\ UNCHANGED <<run, effectTape, stream, executed, answered>>
  BY <1>1, <1>2 DEF RecoverEffect, control
<1>4. PICK r \in HostCalls :
        caller' = [caller EXCEPT ![c] = r] /\ r.pc = at /\ r.effect = e
  <2>1. CASE at = "admit"
    BY <1>1, <1>3, <2>1, MovesTo DEF HostInv
  <2>2. CASE at = "observe"
    BY <1>1, <1>3, <2>2, MovesTo DEF HostInv
  <2> QED
    BY <2>1, <2>2
<1>5. HostCallFits(r)
  BY <1>2, <1>4 DEF HostCallFits
<1> QED
  BY <1>3, <1>4, <1>5, OnlyCallMoves DEF HostInv, HostTypes, StreamTold

\* The intent, and with it the decision: no other call of the process comes between
\* its check and its commit.
LEMMA IntentKeeps ==
  ASSUME OutcomesAssumption, HostInv, NEW c \in Callers, NEW e \in HostEffects,
         e = caller[c].effect, effectTape[e] = NoEffect,
         effectTape' = [effectTape EXCEPT ![e] = Open],
         NEW at \in {"refuse", "live"}, Decided(c, at),
         \/ executed' = executed
         \/ at = "live" /\ \E ok \in BOOLEAN :
              executed' = [executed EXCEPT ![e] = Append(@, ok)] /\ (e \in Risky => ok),
         UNCHANGED <<run, stream, answered>>
  PROVE  HostInv'
<1>1. executed[e] = <<>>
  BY DEF HostInv, OneExecution
<1>2. /\ effectTape' \in [HostEffects -> Observations] /\ effectTape'[e] = Open
      /\ \A f \in HostEffects \ {e} : effectTape'[f] = effectTape[f]
  BY DEF HostInv, HostTypes, Observations
<1>3. /\ executed' \in [HostEffects -> Seq(BOOLEAN)]
      /\ \A f \in HostEffects \ {e} : executed'[f] = executed[f]
      /\ \/ executed'[e] = <<>>
         \/ at = "live" /\ \E ok \in BOOLEAN : executed'[e] = <<ok>> /\ (e \in Risky => ok)
  <2>1. CASE executed' = executed
    BY <1>1, <2>1 DEF HostInv, HostTypes
  <2>2. ASSUME at = "live", NEW ok \in BOOLEAN,
               executed' = [executed EXCEPT ![e] = Append(@, ok)], e \in Risky => ok
        PROVE  /\ executed' \in [HostEffects -> Seq(BOOLEAN)]
               /\ \A f \in HostEffects \ {e} : executed'[f] = executed[f]
               /\ executed'[e] = <<ok>>
    <3>1. executed' = [executed EXCEPT ![e] = <<ok>>]
      BY <1>1, <2>2
    <3>2. <<ok>> \in Seq(BOOLEAN)
      OBVIOUS
    <3> QED
      BY <3>1, <3>2 DEF HostInv, HostTypes
  <2> QED
    BY <2>1, <2>2
<1>4. TablesGrow
  BY <1>2, <1>3, ObservationsDiffer DEF TablesGrow
<1>5. PICK no : no = FALSE
  OBVIOUS
<1>6. PICK old \in HostCalls : old = caller[c]
  BY DEF HostInv, HostTypes
<1>7. PICK r : r = [old EXCEPT !.pc = at, !.approved = no]
  OBVIOUS
<1>8. r \in HostCalls /\ r.pc = at /\ r.effect = e
  <2>1. no \in BOOLEAN
    BY <1>5
  <2>2. r \in HostCalls /\ r.pc = at /\ r.effect = old.effect
    BY <1>7, <2>1 DEF HostCalls
  <2> QED
    BY <1>6, <2>2
<1>9. caller' = [caller EXCEPT ![c] = r]
  <2>1. caller' = [caller EXCEPT ![c].pc = at, ![c].approved = no]
    BY <1>5 DEF Decided
  <2> QED
    BY <1>6, <1>7, <2>1 DEF HostInv, HostTypes
<1>10. HostCallFits(r)'
  BY <1>2, <1>3, <1>8, ObservationsDiffer DEF HostCallFits
<1>11. caller' \in [Callers -> HostCalls] /\ \A d \in Callers : HostCallFits(caller[d])'
  BY <1>4, <1>8, <1>9, <1>10, OneCallMoves
<1>12. HostTypes'
  BY <1>2, <1>3, <1>11 DEF HostInv, HostTypes
<1>13. OneExecution'
  <2>1. ASSUME NEW f \in HostEffects
        PROVE  \/ executed'[f] = <<>>
               \/ /\ \E ok \in BOOLEAN : executed'[f] = <<ok>> /\ (f \in Risky => ok)
                  /\ effectTape'[f] \notin {NoEffect, Rejected}
    <3>1. CASE f = e
      BY <1>2, <1>3, <3>1, ObservationsDiffer
    <3>2. CASE f # e
      BY <1>2, <1>3, <3>2 DEF HostInv, OneExecution
    <3> QED
      BY <3>1, <3>2
  <2> QED
    BY <2>1 DEF OneExecution
<1>14. Untold'
  BY <1>2, ObservationsDiffer DEF HostInv, Untold
<1>15. StreamTold'
  <2>1. ASSUME NEW f \in HostEffects, stream[f] # Nothing
        PROVE  \/ stream[f] = Shown(effectTape'[f])
               \/ stream[f] = Open /\ effectTape'[f] # NoEffect
    <3>1. CASE f = e
      BY <2>1, <3>1 DEF HostInv, Untold
    <3>2. CASE f # e
      BY <1>2, <2>1, <3>2 DEF HostInv, StreamTold
    <3> QED
      BY <3>1, <3>2
  <2> QED
    BY <2>1 DEF HostInv, StreamTold
<1> QED
  BY <1>11, <1>12, <1>13, <1>14, <1>15 DEF HostInv

LEMMA AdmitKeeps ==
  ASSUME OutcomesAssumption, HostInv, NEW c \in Callers, Admit(c)
  PROVE  HostInv'
<1>1. PICK e \in HostEffects : e = caller[c].effect
  BY DEF Admit, HostInv, HostCallFits
<1>2. PICK ok \in BOOLEAN : ok = caller[c].approved
  BY DEF HostInv, HostTypes, HostCalls
<1>3. /\ UNCHANGED <<run, stream, answered>>
      /\ \/ Refused(c) /\ UNCHANGED <<effectTape, executed>>
         \/ /\ effectTape[e] = NoEffect /\ effectTape' = [effectTape EXCEPT ![e] = Open]
            /\ \/ Decided(c, "refuse") /\ UNCHANGED executed
               \/ /\ e \in Risky => ok
                  /\ Decided(c, "live")
                  /\ executed' = [executed EXCEPT ![e] = Append(@, ok)]
  BY <1>1, <1>2 DEF Admit, control, Allows
<1>4. CASE Refused(c) /\ UNCHANGED <<effectTape, executed>>
  BY <1>3, <1>4, RefusedKeeps DEF HostInv, HostTypes
<1>5. CASE /\ effectTape[e] = NoEffect /\ effectTape' = [effectTape EXCEPT ![e] = Open]
           /\ Decided(c, "refuse") /\ UNCHANGED executed
  BY <1>1, <1>3, <1>5, IntentKeeps
<1>6. CASE /\ effectTape[e] = NoEffect /\ effectTape' = [effectTape EXCEPT ![e] = Open]
           /\ e \in Risky => ok
           /\ Decided(c, "live")
           /\ executed' = [executed EXCEPT ![e] = Append(@, ok)]
  BY <1>1, <1>3, <1>6, IntentKeeps
<1> QED
  BY <1>3, <1>4, <1>5, <1>6

\* An open effect gets its outcome, from whoever is first to tell it.
LEMMA OutcomeTold ==
  ASSUME OutcomesAssumption, HostInv, NEW e \in HostEffects, effectTape[e] = Open,
         NEW o \in Outcomes \cup {Rejected}, o = Rejected => executed[e] = <<>>,
         effectTape' = [effectTape EXCEPT ![e] = o],
         UNCHANGED <<stream, executed, answered>>
  PROVE  /\ TablesGrow /\ effectTape' \in [HostEffects -> Observations]
         /\ effectTape'[e] = o /\ o # NoEffect
         /\ OneExecution' /\ Untold' /\ StreamTold'
<1>1. /\ effectTape' \in [HostEffects -> Observations] /\ effectTape'[e] = o
      /\ \A f \in HostEffects \ {e} : effectTape'[f] = effectTape[f]
  BY DEF HostInv, HostTypes, Observations
<1>2. o # NoEffect /\ Open # NoEffect /\ Shown(Open) = Open
  BY ObservationsDiffer
<1>3. TablesGrow
  BY <1>1, <1>2 DEF TablesGrow
<1>4. OneExecution'
  BY <1>1, <1>2 DEF HostInv, OneExecution
<1>5. Untold'
  BY <1>1, <1>2 DEF HostInv, Untold
<1>6. StreamTold'
  <2>1. ASSUME NEW f \in HostEffects, stream[f] # Nothing
        PROVE  \/ stream[f] = Shown(effectTape'[f])
               \/ stream[f] = Open /\ effectTape'[f] # NoEffect
    <3>1. CASE f = e
      <4>1. stream[e] = Open
        BY <1>2, <2>1, <3>1 DEF HostInv, StreamTold
      <4> QED
        BY <1>1, <1>2, <3>1, <4>1
    <3>2. CASE f # e
      BY <1>1, <2>1, <3>2 DEF HostInv, StreamTold
    <3> QED
      BY <3>1, <3>2
  <2> QED
    BY <2>1 DEF HostInv, StreamTold
<1> QED
  BY <1>1, <1>2, <1>3, <1>4, <1>5, <1>6

\* The harness records the outcome, or raises where there is one.
LEMMA FoldKeeps ==
  ASSUME OutcomesAssumption, HostInv, NEW c \in Callers, NEW e \in HostEffects,
         e = caller[c].effect, NEW o \in Outcomes \cup {Rejected},
         o = Rejected => executed[e] = <<>>, Fold(c, o),
         UNCHANGED <<run, stream, executed, answered>>
  PROVE  HostInv'
<1>1. \/ /\ effectTape[e] = Open /\ effectTape' = [effectTape EXCEPT ![e] = o]
         /\ MoveTo(c, "observe")
      \/ Refused(c) /\ UNCHANGED effectTape
  BY DEF Fold
<1>2. CASE Refused(c) /\ UNCHANGED effectTape
  BY <1>2, RefusedKeeps DEF HostInv, HostTypes
<1>3. CASE /\ effectTape[e] = Open /\ effectTape' = [effectTape EXCEPT ![e] = o]
           /\ MoveTo(c, "observe")
  <2>1. /\ TablesGrow /\ effectTape' \in [HostEffects -> Observations]
        /\ effectTape'[e] = o /\ o # NoEffect
        /\ OneExecution' /\ Untold' /\ StreamTold'
    BY <1>3, OutcomeTold
  <2>2. PICK r \in HostCalls :
          /\ caller' = [caller EXCEPT ![c] = r]
          /\ r.pc = "observe" /\ r.effect = caller[c].effect
    BY <1>3, MovesTo DEF HostInv
  <2>3. HostCallFits(r)'
    BY <2>1, <2>2 DEF HostCallFits
  <2>4. caller' \in [Callers -> HostCalls] /\ \A d \in Callers : HostCallFits(caller[d])'
    BY <2>1, <2>2, <2>3, OneCallMoves
  <2>5. HostTypes'
    BY <2>1, <2>4 DEF HostInv, HostTypes
  <2> QED
    BY <2>1, <2>4, <2>5 DEF HostInv
<1> QED
  BY <1>1, <1>2, <1>3

LEMMA OutcomeKeeps ==
  ASSUME OutcomesAssumption, HostInv, NEW c \in Callers,
         Refuse(c) \/ \E o \in Outcomes : ToolReturns(c, o)
  PROVE  HostInv'
<1>1. PICK e \in HostEffects : e = caller[c].effect
  BY DEF Refuse, ToolReturns, HostInv, HostCallFits
<1>2. CASE Refuse(c)
  <2>1. executed[e] = <<>>
    BY <1>1, <1>2 DEF Refuse, HostInv, HostCallFits
  <2> QED
    BY <1>1, <1>2, <2>1, FoldKeeps DEF Refuse, control
<1>3. ASSUME NEW o \in Outcomes, ToolReturns(c, o) PROVE HostInv'
  BY <1>1, <1>3, FoldKeeps, ObservationsDiffer DEF ToolReturns, control
<1> QED
  BY <1>2, <1>3

\* reconcile_orphan: the calls that wait for the effect find it told.
LEMMA ReconcileOrphanKeeps ==
  ASSUME OutcomesAssumption, HostInv, NEW e \in HostEffects, NEW o \in Outcomes,
         ReconcileOrphan(e, o)
  PROVE  HostInv'
<1>1. /\ effectTape[e] = Open /\ effectTape' = [effectTape EXCEPT ![e] = o]
      /\ UNCHANGED <<run, stream, caller, executed, answered>>
  BY DEF ReconcileOrphan, control
<1>2. /\ TablesGrow /\ effectTape' \in [HostEffects -> Observations]
      /\ OneExecution' /\ Untold' /\ StreamTold'
  BY <1>1, OutcomeTold, ObservationsDiffer
<1>3. ASSUME NEW d \in Callers PROVE HostCallFits(caller[d])'
  <2>1. PICK x \in HostCalls : x = caller[d]
    BY DEF HostInv, HostTypes
  <2>2. HostCallFits(x)
    BY <2>1 DEF HostInv
  <2>3. HostCallFits(x)'
    BY <1>2, <2>2, CallStillFits DEF HostInv
  <2> QED
    BY <1>1, <2>1, <2>3 DEF HostCallFits
<1>4. HostTypes'
  BY <1>1, <1>2 DEF HostInv, HostTypes
<1> QED
  BY <1>2, <1>3, <1>4 DEF HostInv

\* What the tape tells is read, and from then on remembered.
LEMMA ObserveKeeps ==
  ASSUME OutcomesAssumption, HostInv, NEW c \in Callers, Observe(c)
  PROVE  HostInv'
<1>1. PICK old \in HostCalls : old = caller[c]
  BY DEF HostInv, HostTypes
<1>2. /\ old.pc = "observe" /\ UNCHANGED <<run, effectTape, stream, executed, answered>>
      /\ HostCallFits(old)
  BY <1>1 DEF Observe, control, HostInv
<1>3. PICK e \in HostEffects : e = old.effect /\ effectTape[e] # NoEffect
  BY <1>2 DEF HostCallFits
<1>4. PICK o \in Observations : o = effectTape[e]
  BY DEF HostInv, HostTypes
<1>5. PICK r : r = [old EXCEPT !.pc = "append", !.observed = o]
  OBVIOUS
<1>6. r \in HostCalls /\ r.pc = "append" /\ r.effect = e /\ r.observed = o
  BY <1>3, <1>5 DEF HostCalls
<1>7. caller' = [caller EXCEPT ![c] = r]
  <2>1. caller' = [caller EXCEPT ![c].pc = "append", ![c].observed = o]
    BY <1>1, <1>3, <1>4 DEF Observe
  <2> QED
    BY <1>1, <1>5, <2>1 DEF HostInv, HostTypes
<1>8. HostCallFits(r)
  BY <1>3, <1>4, <1>6 DEF HostCallFits
<1> QED
  BY <1>2, <1>6, <1>7, <1>8, OnlyCallMoves DEF HostInv, HostTypes, StreamTold

\* append_agent_event: an event that is there is the same one, so what the stream
\* has told stays told.
LEMMA AppendEventKeeps ==
  ASSUME OutcomesAssumption, HostInv, NEW c \in Callers, AppendEvent(c)
  PROVE  HostInv'
<1>1. PICK old \in HostCalls : old = caller[c] /\ HostCallFits(old) /\ old.pc = "append"
  BY DEF HostInv, HostTypes, AppendEvent
<1>2. PICK e \in HostEffects : e = old.effect /\ effectTape[e] # NoEffect
  BY <1>1 DEF HostCallFits
<1>3. PICK o : o = old.observed
  OBVIOUS
<1>4. o \in {Open, effectTape[e]} /\ o \in Observations \ {NoEffect}
  <2>1. o \in {Open, effectTape[e]}
    BY <1>1, <1>2, <1>3 DEF HostCallFits
  <2> QED
    BY <1>2, <2>1, ObservationsDiffer DEF HostInv, HostTypes, Observations
<1>5. /\ UNCHANGED <<run, effectTape, executed, answered>>
      /\ \/ /\ stream[e] \in {Nothing, Shown(o)} /\ stream' = [stream EXCEPT ![e] = Shown(o)]
            /\ MoveTo(c, "return")
         \/ Refused(c) /\ UNCHANGED stream
  BY <1>1, <1>2, <1>3 DEF AppendEvent, Appendable, control
<1>6. CASE Refused(c) /\ UNCHANGED stream
  BY <1>5, <1>6, RefusedKeeps DEF HostInv, HostTypes
<1>7. CASE /\ stream[e] \in {Nothing, Shown(o)} /\ stream' = [stream EXCEPT ![e] = Shown(o)]
           /\ MoveTo(c, "return")
  <2>1. /\ stream' \in [HostEffects -> {Nothing} \cup {Shown(x) : x \in Observations \ {NoEffect}}]
        /\ stream'[e] = Shown(o)
        /\ \A f \in HostEffects \ {e} : stream'[f] = stream[f]
    BY <1>4, <1>7 DEF HostInv, HostTypes
  <2>2. TablesGrow
    BY <1>5, <1>7, <2>1 DEF TablesGrow
  <2>3. PICK r \in HostCalls :
          /\ caller' = [caller EXCEPT ![c] = r]
          /\ r.pc = "return" /\ r.effect = e /\ r.observed = o
    BY <1>1, <1>2, <1>3, <1>7, MovesTo DEF HostInv
  <2>4. HostCallFits(r)'
    BY <1>2, <1>4, <1>5, <2>1, <2>3 DEF HostCallFits
  <2>5. caller' \in [Callers -> HostCalls] /\ \A d \in Callers : HostCallFits(caller[d])'
    BY <2>2, <2>3, <2>4, OneCallMoves
  <2>6. HostTypes'
    BY <1>5, <2>1, <2>5 DEF HostInv, HostTypes
  <2>7. OneExecution'
    BY <1>5 DEF HostInv, OneExecution
  <2>8. Untold'
    BY <1>2, <1>5, <2>1 DEF HostInv, Untold
  <2>9. StreamTold'
    <3>1. stream'[e] = Shown(effectTape[e]) \/ (stream'[e] = Open /\ effectTape[e] # NoEffect)
      BY <1>2, <1>4, <2>1, ObservationsDiffer
    <3>2. ASSUME NEW a \in answered PROVE stream'[a.effect] = Shown(a.observed)
      <4>1. /\ a.effect \in HostEffects /\ a.observed \in Observations \ {NoEffect}
            /\ stream[a.effect] = Shown(a.observed)
        BY DEF HostInv, HostTypes, StreamTold
      <4>2. stream[a.effect] # Nothing
        BY <4>1, ObservationsDiffer
      <4> QED
        BY <1>7, <2>1, <4>1, <4>2
    <3> QED
      BY <1>5, <2>1, <3>1, <3>2 DEF HostInv, StreamTold
  <2> QED
    BY <2>5, <2>6, <2>7, <2>8, <2>9 DEF HostInv
<1> QED
  BY <1>5, <1>6, <1>7

\* The lease is checked once more, and the observation returned or withheld.
LEMMA ReturnKeeps ==
  ASSUME OutcomesAssumption, HostInv, NEW c \in Callers, Return(c)
  PROVE  HostInv'
<1>1. PICK old \in HostCalls : old = caller[c] /\ HostCallFits(old) /\ old.pc = "return"
  BY DEF HostInv, HostTypes, Return
<1>2. PICK e \in HostEffects : e = old.effect /\ effectTape[e] # NoEffect
  BY <1>1 DEF HostCallFits
<1>3. PICK o : o = old.observed
  OBVIOUS
<1>4. o \in Observations \ {NoEffect} /\ stream[e] = Shown(o)
  <2>1. o \in {Open, effectTape[e]}
    BY <1>1, <1>2, <1>3 DEF HostCallFits
  <2>2. o \in Observations \ {NoEffect}
    BY <1>2, <2>1, ObservationsDiffer DEF HostInv, HostTypes, Observations
  <2> QED
    BY <1>1, <1>2, <1>3, <2>2 DEF HostCallFits
<1>5. /\ UNCHANGED <<run, effectTape, stream, executed>>
      /\ answered' \in {answered, answered \cup {[effect |-> e, observed |-> o]}}
      /\ caller' = [caller EXCEPT ![c] = Idle]
  BY <1>1, <1>2, <1>3 DEF Return, Refused, control
<1>6. PICK new : new = [effect |-> e, observed |-> o]
  OBVIOUS
<1>7. /\ new \in [effect : HostEffects, observed : Observations \ {NoEffect}]
      /\ stream[new.effect] = Shown(new.observed)
  BY <1>4, <1>6
<1>8. /\ answered' \subseteq [effect : HostEffects, observed : Observations \ {NoEffect}]
      /\ \A a \in answered' : stream[a.effect] = Shown(a.observed)
  <2>1. answered' \subseteq answered \cup {new}
    BY <1>5, <1>6
  <2>2. /\ answered \subseteq [effect : HostEffects, observed : Observations \ {NoEffect}]
        /\ \A a \in answered : stream[a.effect] = Shown(a.observed)
    BY DEF HostInv, HostTypes, StreamTold
  <2> QED
    BY <1>7, <2>1, <2>2
<1> QED
  BY <1>5, <1>8, IdleFits, OnlyCallMoves DEF HostInv, HostTypes

LEMMA HostStopKeeps ==
  ASSUME OutcomesAssumption, HostInv, NEW c \in Callers, Stop(c)
  PROVE  HostInv'
BY RefusedKeeps DEF Stop, control, HostInv, HostTypes

\* What the run checks follows.
LEMMA HostFollows ==
  ASSUME OutcomesAssumption, HostInv PROVE RunEffectsSound
<1>1. ASSUME NEW e \in HostEffects
      PROVE  /\ Len(executed[e]) <= 1
             /\ e \in Risky => \A n \in DOMAIN executed[e] : executed[e][n]
             /\ executed[e] # <<>> => effectTape[e] # Rejected
  <2>1. CASE executed[e] = <<>>
    BY <2>1
  <2>2. ASSUME NEW ok \in BOOLEAN, executed[e] = <<ok>>, e \in Risky => ok,
               effectTape[e] \notin {NoEffect, Rejected}
        PROVE  /\ Len(executed[e]) <= 1
               /\ e \in Risky => \A n \in DOMAIN executed[e] : executed[e][n]
    <3>1. Len(executed[e]) = 1 /\ DOMAIN executed[e] = {1}
      BY <2>2
    <3>2. e \in Risky => executed[e][1]
      BY <2>2
    <3> QED
      BY <3>1, <3>2
  <2> QED
    BY <2>1, <2>2 DEF HostInv, OneExecution
<1> QED
  BY <1>1 DEF HostInv, RunEffectsSound, ExecutedAsApproved

\* runtime.py execute_effect_for_run, of any callers, effects, outcomes, leases lost,
\* calls that stop and reconciliations between any two of its steps: an effect is
\* executed once at most, and as it was approved; the event stream tells what the
\* tape tells; and who was answered was told the same.
THEOREM HostEffectsAreSound ==
  ASSUME OutcomesAssumption PROVE HostSpec => []RunEffectsSound
<1>1. HostInit => HostInv
  BY HostStarts
<1>2. HostInv /\ [HostNext]_hostVars => HostInv'
  <2> SUFFICES ASSUME HostInv, [HostNext]_hostVars PROVE HostInv'
    OBVIOUS
  <2>1. CASE UNCHANGED hostVars
    BY <2>1, RunMoves DEF hostVars, control, HostInv, HostTypes
  <2>2. CASE \/ WorkerClaims \/ Expire \/ RequestCancel
             \/ \E s \in {"waiting", "pending", "settled"} : RunSettles(s)
    BY <2>2, RunSettlesKeeps
  <2>3. ASSUME NEW c \in Callers, NEW e \in HostEffects, NEW ok \in BOOLEAN,
               NEW held \in 0 .. MaxClaims, Start(c, e, ok, held)
        PROVE  HostInv'
    <3>1. held \in Nat
      OBVIOUS
    <3> QED
      BY <2>3, <3>1, HostStartKeeps
  <2>4. ASSUME NEW c \in Callers, ClaimForCall(c) \/ ReadBack(c) \/ Check(c)
        PROVE  HostInv'
    BY <2>4, ClaimForCallKeeps, ReadBackKeeps, CheckKeeps
  <2>5. ASSUME NEW c \in Callers,
               \/ RecoverEffect(c) \/ Admit(c) \/ Refuse(c)
               \/ \E o \in Outcomes : ToolReturns(c, o)
        PROVE  HostInv'
    BY <2>5, RecoverEffectKeeps, AdmitKeeps, OutcomeKeeps
  <2>6. ASSUME NEW c \in Callers, Observe(c) \/ AppendEvent(c) \/ Return(c) \/ Stop(c)
        PROVE  HostInv'
    BY <2>6, ObserveKeeps, AppendEventKeeps, ReturnKeeps, HostStopKeeps
  <2>7. ASSUME NEW e \in HostEffects, NEW o \in Outcomes, ReconcileOrphan(e, o)
        PROVE  HostInv'
    BY <2>7, ReconcileOrphanKeeps
  <2> QED
    BY <2>1, <2>2, <2>3, <2>4, <2>5, <2>6, <2>7 DEF HostNext
<1>3. HostInv => RunEffectsSound
  BY HostFollows
<1> QED
  BY <1>1, <1>2, <1>3, PTL DEF HostSpec
=============================================================================
