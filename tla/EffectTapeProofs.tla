-------------------------- MODULE EffectTapeProofs --------------------------
(***************************************************************************)
(* Machine-checked proofs about EffectTape: what the event loop of one     *)
(* process guarantees, and what the ledger accounts for in every process,  *)
(* for any calls, effects, spends and crashes.  Then about Workflow: what  *)
(* the order of a plan is, and that its checkpoint is resumed soundly, for *)
(* any plan the compiler accepts and any callers.                          *)
(***************************************************************************)
EXTENDS EffectTape, Workflow, SequenceTheorems, FiniteSetTheorems,
  WellFoundedInduction, TLAPS

\* The types that the arguments below rely on.
Types ==
  /\ intents \in [Effects -> Nat] /\ live \in [Effects -> Nat]
  /\ results \in [Effects -> Seq(Outcomes)]
  /\ rejected \subseteq Effects
  /\ home \in [AllCalls -> Processes]
  /\ pc \in [AllCalls -> {"new"} \cup Awaiting \cup Holding \cup Ended]
  /\ outcome \in [AllCalls -> Outcomes \cup {NoOutcome}]
  /\ running \in [Processes -> AllCalls \cup {NoCall}]

\* A call at a point where it holds the event loop is the one in it.
LoopHeld == \A c \in AllCalls : pc[c] \in Holding => running[home[c]] = c

\* An execution has an intent, a rejection too, and an effect has one intent.
IntentsFirst ==
  \A e \in Effects :
    /\ intents[e] <= 1 /\ live[e] <= intents[e]
    /\ e \in rejected => intents[e] = 1 /\ live[e] = 0

\* What a check has found still holds when the claim is committed.
ChecksHold ==
  \A c \in AllCalls :
    /\ pc[c] \in {"admitting", "rejecting"} => intents[EffectOf[c]] = 0
    /\ pc[c] \in {"refuse", "refusing"} =>
         intents[EffectOf[c]] = 1 /\ live[EffectOf[c]] = 0
    /\ pc[c] = "recording" => results[EffectOf[c]] = <<>>

\* A call on its way to an answer has the recorded outcome.
RecordedOutcome ==
  \A c \in AllCalls :
    pc[c] \in {"spend", "spending", "resource_spent", "budget_overrun", "answered"} =>
      /\ results[EffectOf[c]] # <<>>
      /\ outcome[c] = Head(results[EffectOf[c]])
    
\* A call that is about to record an outcome has one.
HasOutcome ==
  \A c \in AllCalls : pc[c] \in {"result", "recording"} => outcome[c] \in Outcomes

TapeInv == Types /\ LoopHeld /\ IntentsFirst /\ ChecksHold /\ RecordedOutcome /\ HasOutcome

-----------------------------------------------------------------------------

\* The invariant holds at the beginning.
LEMMA InitInv == Init => TapeInv
<1> SUFFICES ASSUME Init PROVE TapeInv
  OBVIOUS
<1>1. Types
  BY TapeAssumption DEF Init, Types
<1>2. \A c \in AllCalls : pc[c] = "new"
  BY DEF Init
<1>3. LoopHeld /\ ChecksHold /\ RecordedOutcome /\ HasOutcome
  BY <1>2 DEF LoopHeld, ChecksHold, RecordedOutcome, HasOutcome, Holding
<1>4. IntentsFirst
  BY DEF Init, IntentsFirst
<1> QED
  BY <1>1, <1>3, <1>4 DEF TapeInv

\* Who takes a step has the event loop of its process, or finds it free; so no
\* other call of that process is at a point where it holds it.
LEMMA SameLoop ==
  ASSUME LoopHeld, NEW c \in AllCalls, Step(c),
         NEW d \in AllCalls, d # c, home[d] = home[c]
  PROVE  pc[d] \notin Holding
<1>1. pc[c] \in Holding \/ running[home[c]] = NoCall
  BY DEF Step, Start, Guarded, CheckIntent, CommitIntent, CheckRejection,
         CommitRejection, Finish, Cancelled, Reconcile, CheckResult, CommitResult,
         ProjectSpend, CheckSpend, CommitSpend, Resumes, Free, Holding
<1>2. running[home[c]] \in {c, NoCall}
  BY <1>1 DEF LoopHeld
<1>3. pc[d] \in Holding => running[home[c]] = d
  BY DEF LoopHeld
<1> QED
  BY <1>2, <1>3, TapeAssumption

\* When all calls share one loop, nobody else holds it.
LEMMA Alone ==
  ASSUME OneLoop, LoopHeld, NEW c \in AllCalls, Step(c)
  PROVE  \A d \in AllCalls : d # c => pc[d] \notin Holding
BY SameLoop DEF OneLoop

\* Every step moves one call to a program point and gives it the loop or not.
LEMMA StepMoves ==
  ASSUME NEW c \in AllCalls, Step(c)
  PROVE  \E p \in {"new"} \cup Awaiting \cup Holding \cup Ended : Goto(c, p)
<1>1. CASE Start(c)
  BY <1>1 DEF Start, Recovered, Awaiting, Holding, Ended
<1>2. CASE Guarded(c) \/ Finish(c) \/ Cancelled(c) \/ Reconcile(c)
  BY <1>2 DEF Guarded, Finish, Cancelled, Reconcile, Awaiting, Holding, Ended
<1>3. CASE CheckIntent(c) \/ CommitIntent(c) \/ CheckRejection(c) \/ CommitRejection(c)
  BY <1>3 DEF CheckIntent, CommitIntent, CheckRejection, CommitRejection, Awaiting,
              Holding, Ended
<1>4. CASE CheckResult(c) \/ CommitResult(c)
  BY <1>4 DEF CheckResult, CommitResult, Holding, Ended
<1>5. CASE ProjectSpend(c) \/ CheckSpend(c) \/ CommitSpend(c)
  BY <1>5 DEF ProjectSpend, CheckSpend, CommitSpend, Holding, Ended
<1> QED
  BY <1>1, <1>2, <1>3, <1>4, <1>5 DEF Step

\* Types are kept by every step.
LEMMA StepTypes ==
  ASSUME Types, HasOutcome, NEW c \in AllCalls, Step(c), home' = home
  PROVE  Types'
<1> USE DEF Types
<1>0. PICK p \in {"new"} \cup Awaiting \cup Holding \cup Ended : Goto(c, p)
  BY StepMoves
<1>1. pc' \in [AllCalls -> {"new"} \cup Awaiting \cup Holding \cup Ended]
  BY <1>0 DEF Goto
<1>2. running' \in [Processes -> AllCalls \cup {NoCall}]
  BY <1>0 DEF Goto
<1>3. EffectOf[c] \in Effects
  BY TapeAssumption
<1>4. /\ intents' \in [Effects -> Nat] /\ live' \in [Effects -> Nat]
      /\ rejected' \subseteq Effects
  <2>1. CASE CommitIntent(c)
    <3>1. intents' = [intents EXCEPT ![EffectOf[c]] = @ + 1] /\ rejected' = rejected
      BY <2>1 DEF CommitIntent
    <3>2. live' = live \/ live' = [live EXCEPT ![EffectOf[c]] = @ + 1]
      BY <2>1 DEF CommitIntent
    <3>3. intents' \in [Effects -> Nat]
      BY <1>3, <3>1
    <3>4. live' \in [Effects -> Nat]
      BY <1>3, <3>2
    <3> QED
      BY <3>1, <3>3, <3>4
  <2>2. CASE CommitRejection(c)
    BY <1>3, <2>2 DEF CommitRejection
  <2>3. CASE ~CommitIntent(c) /\ ~CommitRejection(c)
    <3>1. UNCHANGED <<intents, live, rejected>>
      BY <2>3 DEF Step, Start, Guarded, CheckIntent, CheckRejection, Finish,
           Cancelled, Reconcile, CheckResult, CommitResult, ProjectSpend,
           CheckSpend, CommitSpend, tape
    <3> QED
      BY <3>1
  <2> QED
    BY <2>1, <2>2, <2>3
<1>5. outcome' \in [AllCalls -> Outcomes \cup {NoOutcome}]
  <2>1. results[EffectOf[c]] # <<>> => Head(results[EffectOf[c]]) \in Outcomes
    BY <1>3
  <2>2. CASE Start(c)
    BY <2>1, <2>2 DEF Start
  <2>3. CASE ~Start(c)
    BY <2>3 DEF Step, Guarded, CheckIntent, CommitIntent, CheckRejection,
         CommitRejection, Finish, Cancelled, Reconcile, CheckResult, CommitResult,
         ProjectSpend, CheckSpend, CommitSpend
  <2> QED
    BY <2>2, <2>3
<1>6. results' \in [Effects -> Seq(Outcomes)]
  <2>1. CASE CommitResult(c)
    <3>1. outcome[c] \in Outcomes
      BY <2>1 DEF HasOutcome, CommitResult
    <3>2. Append(results[EffectOf[c]], outcome[c]) \in Seq(Outcomes)
      BY <1>3, <3>1
    <3> QED
      BY <1>3, <2>1, <3>2 DEF CommitResult
  <2>2. CASE ~CommitResult(c)
    BY <2>2 DEF Step, Start, Guarded, CheckIntent, CommitIntent, CheckRejection,
         CommitRejection, Finish, Cancelled, Reconcile, CheckResult,
         ProjectSpend, CheckSpend, CommitSpend, tape
  <2> QED
    BY <2>1, <2>2
<1> QED
  BY <1>1, <1>2, <1>4, <1>5, <1>6

\* The call in the loop is the one that holds it.
LEMMA StepLoop ==
  ASSUME Types, LoopHeld, NEW c \in AllCalls, Step(c), home' = home
  PROVE  LoopHeld'
<1> USE DEF Types
<1>1. PICK p \in {"new"} \cup Awaiting \cup Holding \cup Ended : Goto(c, p)
  BY StepMoves
<1>2. pc'[c] \in Holding => running'[home[c]] = c
  BY <1>1, TapeAssumption DEF Goto
<1>3. ASSUME NEW d \in AllCalls, d # c, pc'[d] \in Holding
      PROVE  running'[home[d]] = d
  <2>1. pc[d] \in Holding /\ home[d] # home[c]
    BY <1>1, <1>3, SameLoop DEF Goto
  <2> QED
    BY <1>1, <2>1 DEF Goto, LoopHeld
<1> QED
  BY <1>2, <1>3 DEF LoopHeld

\* The counts on the tape: an intent is committed only where there was none.
LEMMA StepIntents ==
  ASSUME OneLoop, TapeInv, NEW c \in AllCalls, Step(c)
  PROVE  IntentsFirst'
<1> USE DEF TapeInv, Types
<1>1. EffectOf[c] \in Effects
  BY TapeAssumption
<1>2. CASE CommitIntent(c)
  <2>1. intents[EffectOf[c]] = 0
    BY <1>2 DEF CommitIntent, ChecksHold
  <2>2. \A e \in Effects : e # EffectOf[c] => intents'[e] = intents[e] /\ live'[e] = live[e]
    BY <1>2 DEF CommitIntent
  <2>3. intents'[EffectOf[c]] = 1 /\ live'[EffectOf[c]] <= 1
    BY <1>1, <1>2, <2>1 DEF CommitIntent, IntentsFirst
  <2>4. EffectOf[c] \notin rejected'
    BY <1>1, <1>2, <2>1 DEF CommitIntent, IntentsFirst
  <2>5. rejected' = rejected
    BY <1>2 DEF CommitIntent
  <2> QED
    BY <2>2, <2>3, <2>4, <2>5 DEF IntentsFirst
<1>3. CASE CommitRejection(c)
  BY <1>1, <1>3 DEF CommitRejection, ChecksHold, IntentsFirst
<1>4. CASE ~CommitIntent(c) /\ ~CommitRejection(c)
  <2>1. UNCHANGED <<intents, live, rejected>>
    BY <1>4 DEF Step, Start, Guarded, CheckIntent, CheckRejection,
         Finish, Cancelled, Reconcile, CheckResult, CommitResult,
         ProjectSpend, CheckSpend, CommitSpend, tape
  <2> QED
    BY <2>1 DEF IntentsFirst
<1> QED
  BY <1>2, <1>3, <1>4

\* A check and its commit are not separated by another call of the loop.
LEMMA StepChecks ==
  ASSUME OneLoop, TapeInv, NEW c \in AllCalls, Step(c)
  PROVE  ChecksHold'
<1> USE DEF TapeInv, Types
<1>1. PICK p \in {"new"} \cup Awaiting \cup Holding \cup Ended : Goto(c, p)
  BY StepMoves
<1>2. \A d \in AllCalls : d # c => pc'[d] \notin Holding
  BY <1>1, Alone DEF Goto
<1>3. EffectOf[c] \in Effects /\ pc' = [pc EXCEPT ![c] = p]
  BY <1>1, TapeAssumption DEF Goto
<1>4. /\ pc'[c] \in {"admitting", "rejecting"} => intents'[EffectOf[c]] = 0
      /\ pc'[c] \in {"refuse", "refusing"} =>
           intents'[EffectOf[c]] = 1 /\ live'[EffectOf[c]] = 0
      /\ pc'[c] = "recording" => results'[EffectOf[c]] = <<>>
  <2>1. CASE CheckIntent(c)
    BY <1>3, <2>1 DEF CheckIntent, Goto, Duplicate, tape
  <2>2. CASE CommitIntent(c)
    BY <1>3, <2>2 DEF CommitIntent, Goto, ChecksHold, IntentsFirst
  <2>3. CASE CheckRejection(c)
    BY <1>3, <2>3 DEF CheckRejection, Goto, ChecksHold, tape
  <2>4. CASE CheckResult(c)
    BY <1>3, <2>4 DEF CheckResult, Goto, Closed, tape
  <2>5. CASE ~CheckIntent(c) /\ ~CommitIntent(c) /\ ~CheckRejection(c) /\ ~CheckResult(c)
    <3>1. pc'[c] \notin {"admitting", "rejecting", "refuse", "refusing", "recording"}
      BY <1>3, <2>5 DEF Step, Start, Guarded, CommitRejection, Finish, Cancelled,
           Reconcile, CommitResult, ProjectSpend, CheckSpend, CommitSpend, Goto,
           Recovered
    <3> QED
      BY <3>1
  <2> QED
    BY <2>1, <2>2, <2>3, <2>4, <2>5
<1> QED
  BY <1>2, <1>4 DEF ChecksHold, Holding

\* A step moves one call and touches the outcome of no other.
LEMMA StepOthers ==
  ASSUME Types, NEW c \in AllCalls, Step(c)
  PROVE  \A d \in AllCalls : d # c => pc'[d] = pc[d] /\ outcome'[d] = outcome[d]
<1> USE DEF Types
<1>1. PICK p \in {"new"} \cup Awaiting \cup Holding \cup Ended : Goto(c, p)
  BY StepMoves
<1>2. \A d \in AllCalls : d # c => pc'[d] = pc[d]
  BY <1>1 DEF Goto
<1>3. \A d \in AllCalls : d # c => outcome'[d] = outcome[d]
  BY DEF Step, Start, Guarded, CheckIntent, CommitIntent, CheckRejection,
       CommitRejection, Finish, Cancelled, Reconcile, CheckResult, CommitResult,
       ProjectSpend, CheckSpend, CommitSpend
<1> QED
  BY <1>2, <1>3

\* Who goes on to record an outcome has one.
LEMMA StepHasOutcome ==
  ASSUME Types, HasOutcome, NEW c \in AllCalls, Step(c)
  PROVE  HasOutcome'
<1> USE DEF Types
<1>1. PICK p \in {"new"} \cup Awaiting \cup Holding \cup Ended : Goto(c, p)
  BY StepMoves
<1>2. pc' = [pc EXCEPT ![c] = p] /\ EffectOf[c] \in Effects
  BY <1>1, TapeAssumption DEF Goto
<1>3. \A d \in AllCalls : d # c => pc'[d] = pc[d] /\ outcome'[d] = outcome[d]
  BY StepOthers
<1>4. pc'[c] \in {"result", "recording"} => outcome'[c] \in Outcomes
  <2>1. CASE Finish(c) \/ Reconcile(c)
    BY <1>2, <2>1 DEF Finish, Reconcile, Goto
  <2>2. CASE CheckResult(c)
    BY <1>2, <2>2 DEF CheckResult, HasOutcome
  <2>3. CASE ~Finish(c) /\ ~Reconcile(c) /\ ~CheckResult(c)
    <3>1. pc'[c] \notin {"result", "recording"}
      BY <1>2, <2>3 DEF Step, Start, Guarded, CheckIntent, CommitIntent,
           CheckRejection, CommitRejection, Cancelled, CommitResult, ProjectSpend,
           CheckSpend, CommitSpend, Goto, Recovered
    <3> QED
      BY <3>1
  <2> QED
    BY <2>1, <2>2, <2>3
<1> QED
  BY <1>3, <1>4 DEF HasOutcome

\* A result is appended only where there was none, so the first one stays.
LEMMA StepOutcome ==
  ASSUME OneLoop, TapeInv, NEW c \in AllCalls, Step(c)
  PROVE  RecordedOutcome' /\ HasOutcome'
<1> USE DEF TapeInv, Types
<1> DEFINE Paying == {"spend", "spending", "resource_spent", "budget_overrun", "answered"}
<1>1. PICK p \in {"new"} \cup Awaiting \cup Holding \cup Ended : Goto(c, p)
  BY StepMoves
<1>2. pc' = [pc EXCEPT ![c] = p] /\ EffectOf[c] \in Effects
  BY <1>1, TapeAssumption DEF Goto
<1>3. \A d \in AllCalls : d # c => pc'[d] = pc[d] /\ outcome'[d] = outcome[d]
  BY StepOthers
<1>4. \A e \in Effects : results[e] # <<>> => results'[e] = results[e]
  <2>1. CASE CommitResult(c)
    BY <1>2, <2>1 DEF CommitResult, ChecksHold
  <2>2. CASE ~CommitResult(c)
    BY <2>2 DEF Step, Start, Guarded, CheckIntent, CommitIntent, CheckRejection,
         CommitRejection, Finish, Cancelled, Reconcile, CheckResult,
         ProjectSpend, CheckSpend, CommitSpend, tape
  <2> QED
    BY <2>1, <2>2
<1>5. pc'[c] \in Paying =>
        results'[EffectOf[c]] # <<>> /\ outcome'[c] = Head(results'[EffectOf[c]])
  <2>1. CASE Start(c)
    BY <1>2, <2>1 DEF Start, Recovered, Goto, tape
  <2>2. CASE CommitResult(c)
    <3>1. results[EffectOf[c]] = <<>> /\ outcome[c] \in Outcomes
      BY <2>2 DEF CommitResult, ChecksHold, HasOutcome
    <3>2. results'[EffectOf[c]] = <<outcome[c]>> /\ outcome' = outcome
      BY <1>2, <2>2, <3>1 DEF CommitResult
    <3> QED
      BY <3>2
  <2>3. CASE ProjectSpend(c) \/ CheckSpend(c) \/ CommitSpend(c)
    <3>1. pc[c] \in Paying
      BY <2>3 DEF ProjectSpend, CheckSpend, CommitSpend
    <3>2. results' = results /\ outcome' = outcome
      BY <2>3 DEF ProjectSpend, CheckSpend, CommitSpend, tape
    <3> QED
      BY <3>1, <3>2 DEF RecordedOutcome
  <2>4. CASE ~(Start(c) \/ CommitResult(c) \/ ProjectSpend(c) \/ CheckSpend(c) \/ CommitSpend(c))
    <3>1. pc'[c] \notin Paying
      BY <1>2, <2>4 DEF Step, Guarded, CheckIntent, CommitIntent, CheckRejection,
           CommitRejection, Finish, Cancelled, Reconcile, CheckResult, Goto
    <3> QED
      BY <3>1
  <2> QED
    BY <2>1, <2>2, <2>3, <2>4
<1>6. HasOutcome'
  BY StepHasOutcome
<1>7. \A d \in AllCalls : EffectOf[d] \in Effects
  BY TapeAssumption
<1> QED
  BY <1>3, <1>4, <1>5, <1>6, <1>7 DEF RecordedOutcome

\* A process that stops ends its calls and leaves the tape alone.
LEMMA CrashKeeps ==
  ASSUME TapeInv, NEW p \in Processes, Crash(p), home' = home
  PROVE  TapeInv'
<1> USE DEF TapeInv, Types
<1>1. \A c \in AllCalls : pc'[c] \in {pc[c], "raised"} /\ (pc'[c] \in Holding => home[c] # p)
  BY DEF Crash, Holding
<1>2. Types'
  BY DEF Crash, tape, Ended
<1>3. UNCHANGED <<tape, outcome, live>>
  BY DEF Crash
<1>4. \A q \in Processes : q # p => running'[q] = running[q]
  BY DEF Crash
<1>5. LoopHeld'
  <2> SUFFICES ASSUME NEW c \in AllCalls, pc'[c] \in Holding
               PROVE  running'[home[c]] = c
    BY DEF LoopHeld
  <2>1. pc'[c] = pc[c] /\ home[c] # p
    BY <1>1 DEF Holding
  <2> QED
    BY <1>4, <2>1, TapeAssumption DEF LoopHeld
<1>6. IntentsFirst'
  BY <1>3 DEF IntentsFirst, tape
<1>7. ChecksHold'
  BY <1>1, <1>3 DEF ChecksHold, tape
<1>8. RecordedOutcome' /\ HasOutcome'
  BY <1>1, <1>3 DEF RecordedOutcome, HasOutcome, tape
<1> QED
  BY <1>2, <1>5, <1>6, <1>7, <1>8

\* With one event loop the invariant is inductive.
LEMMA InvNext ==
  ASSUME OneLoop, TapeInv, [Next]_vars
  PROVE  TapeInv'
<1>1. CASE home' = home /\ \E c \in AllCalls : Step(c)
  BY <1>1, StepTypes, StepLoop, StepIntents, StepChecks, StepOutcome DEF TapeInv
<1>2. CASE home' = home /\ \E p \in Processes : Crash(p)
  BY <1>2, CrashKeeps
<1>3. CASE UNCHANGED vars
  BY <1>3 DEF vars, tape, TapeInv, Types, LoopHeld, IntentsFirst, ChecksHold,
              RecordedOutcome, HasOutcome
<1> QED
  BY <1>1, <1>2, <1>3 DEF Next

\* No call changes its process, so calls that share a loop keep sharing it.
LEMMA LoopNext ==
  ASSUME OneLoop => TapeInv, [Next]_vars
  PROVE  (OneLoop => TapeInv)'
<1>1. home' = home
  BY DEF Next, vars
<1>2. OneLoop' => OneLoop
  BY <1>1 DEF OneLoop
<1> QED
  BY <1>2, InvNext

\* Among the calls of one process a tool is executed at most once for an effect
\* id, and not at all for a rejected effect: tool_harness.py, whatever its
\* calls, retries, cancellations, reconciliations and crashes.
THEOREM OneProcessExecutesOnce == Spec => []ExecutedOnce
<1>1. (OneLoop => TapeInv) => ExecutedOnce
  <2> SUFFICES ASSUME TapeInv, NEW e \in Effects
               PROVE  live[e] <= 1 /\ (e \in rejected => live[e] = 0)
    BY DEF ExecutedOnce
  <2> QED
    BY DEF TapeInv, Types, IntentsFirst
<1>2. Init => (OneLoop => TapeInv)
  BY InitInv
<1> QED
  BY <1>1, <1>2, LoopNext, PTL DEF Spec

\* Whoever gets an answer in one process gets the one on the tape.
THEOREM OneProcessAnswersAgree == Spec => []AnswersAgree
<1>1. (OneLoop => TapeInv) => AnswersAgree
  BY DEF TapeInv, RecordedOutcome, AnswersAgree
<1>2. Init => (OneLoop => TapeInv)
  BY InitInv
<1> QED
  BY <1>1, <1>2, LoopNext, PTL DEF Spec

-----------------------------------------------------------------------------
(* What a ledger sums to.  LedgerTotal is a fold over the effects; its steps *)
(* are made explicit here, so that one entry can be changed.                 *)

\* A set of numbers that holds 0 and the successor of each of its members is
\* all of them: no number is the least one missing.
LEMMA Induction ==
  ASSUME NEW S \in SUBSET Nat, 0 \in S, \A n \in S : n + 1 \in S
  PROVE  S = Nat
<1> SUFFICES ASSUME Nat \ S # {} PROVE FALSE
  OBVIOUS
<1>1. PICK R : R = OpToRel(<, Nat)
  OBVIOUS
<1>2. IsWellFoundedOn(R, Nat)
  BY <1>1, NatLessThanWellFounded
<1>3. PICK m \in Nat \ S : \A n \in Nat \ S : ~ (<<n, m>> \in R)
  BY <1>2, WFMin
<1>4. \A n \in Nat \ S : ~ (n < m)
  BY <1>1, <1>3 DEF OpToRel
<1>5. m # 0 /\ m - 1 \in Nat /\ m - 1 < m
  BY <1>3
<1>6. m - 1 \in S
  BY <1>4, <1>5
<1>7. (m - 1) + 1 \in S /\ (m - 1) + 1 = m
  BY <1>3, <1>6
<1> QED
  BY <1>3, <1>7

\* The fold of FiniteSetsExt takes the elements in the order of this choice.
Pick(s) == CHOOSE x \in s : TRUE
Weight(l) == IF l.tag = "resource_spent" THEN l.amount ELSE 0
Total(L) ==
  MapThenSumSet(LAMBDA e : IF L[e].tag = "resource_spent" THEN L[e].amount ELSE 0, Effects)
Ledgers == [Effects -> Spent \cup {NoSpend}]

\* g is the sum of each set of effects in D.
IsSum(L, D, g) ==
  g = [s \in D |-> IF s = {} THEN 0 ELSE Weight(L[Pick(s)]) + g[s \ {Pick(s)}]]

\* The sets of at most n effects.
Level(n) == {s \in SUBSET Effects : Cardinality(s) <= n}

\* The fold of FiniteSetsExt is such a sum, when there is one.
LEMMA FoldIsSum ==
  ASSUME NEW L, \E g : IsSum(L, SUBSET Effects, g)
  PROVE  \E g : IsSum(L, SUBSET Effects, g) /\ Total(L) = g[Effects]
<1> DEFINE it == CHOOSE g : g = [s \in SUBSET Effects |->
                                 IF s = {} THEN 0
                                 ELSE Weight(L[Pick(s)]) + g[s \ {Pick(s)}]]
<1>1. IsSum(L, SUBSET Effects, it)
  BY DEF IsSum
<1>2. Total(L) = it[Effects]
  BY DEF Total, MapThenSumSet, MapThenFoldSet, Weight, Pick
<1> QED
  BY <1>1, <1>2

\* The element the fold takes first, and what is left.
LEMMA Picks ==
  ASSUME NEW s \in SUBSET Effects, s # {}
  PROVE  /\ Pick(s) \in s /\ s \ {Pick(s)} \in SUBSET Effects
         /\ IsFiniteSet(s) /\ Cardinality(s) \in Nat
         /\ Cardinality(s \ {Pick(s)}) = Cardinality(s) - 1
<1>1. Pick(s) \in s
  BY DEF Pick
<1>2. IsFiniteSet(s) /\ Cardinality(s) \in Nat
  BY TapeAssumption, FS_Subset, FS_CardinalityType
<1>3. Cardinality(s \ {Pick(s)}) = Cardinality(s) - 1
  BY <1>1, <1>2, FS_RemoveElement
<1> QED
  BY <1>1, <1>2, <1>3

\* A set of the next level is one element away from a set of this one.
LEMMA Levels ==
  /\ Level(0) = {{}}
  /\ Cardinality(Effects) \in Nat /\ Level(Cardinality(Effects)) = SUBSET Effects
  /\ \A n \in Nat : /\ Level(n) \subseteq Level(n + 1)
                    /\ \A s \in Level(n + 1) : s # {} => s \ {Pick(s)} \in Level(n)
<1>1. \A s \in SUBSET Effects :
        /\ IsFiniteSet(s) /\ Cardinality(s) \in Nat
        /\ Cardinality(s) <= Cardinality(Effects)
  BY TapeAssumption, FS_Subset, FS_CardinalityType
<1>2. Level(0) = {{}}
  <2>1. \A s \in SUBSET Effects : Cardinality(s) <= 0 <=> s = {}
    BY <1>1, FS_EmptySet
  <2> QED
    BY <2>1 DEF Level
<1>3. Cardinality(Effects) \in Nat /\ Level(Cardinality(Effects)) = SUBSET Effects
  BY <1>1, TapeAssumption, FS_CardinalityType DEF Level
<1>4. ASSUME NEW n \in Nat
      PROVE  /\ Level(n) \subseteq Level(n + 1)
             /\ \A s \in Level(n + 1) : s # {} => s \ {Pick(s)} \in Level(n)
  <2>1. Level(n) \subseteq Level(n + 1)
    BY <1>1 DEF Level
  <2>2. ASSUME NEW s \in Level(n + 1), s # {} PROVE s \ {Pick(s)} \in Level(n)
    <3>1. s \in SUBSET Effects /\ Cardinality(s) <= n + 1
      BY DEF Level
    <3>2. Cardinality(s \ {Pick(s)}) = Cardinality(s) - 1 /\ Cardinality(s) \in Nat
          /\ s \ {Pick(s)} \in SUBSET Effects
      BY <2>2, <3>1, Picks
    <3>3. Cardinality(s \ {Pick(s)}) <= n
      BY <3>1, <3>2
    <3> QED
      BY <3>2, <3>3 DEF Level
  <2> QED
    BY <2>1, <2>2
<1> QED
  BY <1>2, <1>3, <1>4

\* There is a sum: it is extended level by level.
LEMMA SumExists ==
  ASSUME NEW L
  PROVE  \E g : IsSum(L, SUBSET Effects, g)
<1> DEFINE S == {n \in Nat : \E g : IsSum(L, Level(n), g)}
<1>1. 0 \in S
  <2>1. PICK g : g = [s \in Level(0) |-> 0]
    OBVIOUS
  <2>2. IsSum(L, Level(0), g)
    BY <2>1, Levels DEF IsSum
  <2> QED
    BY <2>2
<1>2. ASSUME NEW n \in S PROVE n + 1 \in S
  <2>1. n \in Nat
    OBVIOUS
  <2>2. PICK g : IsSum(L, Level(n), g)
    OBVIOUS
  <2>3. PICK h : h = [s \in Level(n + 1) |->
                        IF s = {} THEN 0 ELSE Weight(L[Pick(s)]) + g[s \ {Pick(s)}]]
    OBVIOUS
  <2>4. \A s \in Level(n) : h[s] = g[s]
    BY <2>1, <2>2, <2>3, Levels DEF IsSum
  <2>5. \A s \in Level(n + 1) : s # {} => h[s \ {Pick(s)}] = g[s \ {Pick(s)}]
    BY <2>1, <2>4, Levels
  <2>6. IsSum(L, Level(n + 1), h)
    BY <2>3, <2>5 DEF IsSum
  <2> QED
    BY <2>1, <2>6
<1>3. S = Nat
  <2> HIDE DEF S
  <2>1. S \in SUBSET Nat
    BY DEF S
  <2> QED
    BY <1>1, <1>2, <2>1, Induction
<1>4. Cardinality(Effects) \in Nat /\ Level(Cardinality(Effects)) = SUBSET Effects
  BY Levels
<1>5. PICK n \in S : n = Cardinality(Effects)
  BY <1>3, <1>4
<1>6. PICK g : IsSum(L, Level(n), g)
  BY <1>5
<1> QED
  BY <1>4, <1>5, <1>6

\* So the total of a ledger is the last of a chain of additions.
LEMMA SumSteps ==
  ASSUME NEW L
  PROVE  \E g : /\ Total(L) = g[Effects] /\ g[{}] = 0
               /\ \A s \in SUBSET Effects :
                    s # {} => g[s] = Weight(L[Pick(s)]) + g[s \ {Pick(s)}]
<1>1. PICK g : IsSum(L, SUBSET Effects, g) /\ Total(L) = g[Effects]
  BY SumExists, FoldIsSum
<1>2. {} \in SUBSET Effects
  OBVIOUS
<1>3. g[{}] = 0
  BY <1>1, <1>2 DEF IsSum
<1>4. ASSUME NEW s \in SUBSET Effects, s # {}
      PROVE  g[s] = Weight(L[Pick(s)]) + g[s \ {Pick(s)}]
  BY <1>1, <1>4 DEF IsSum
<1> QED
  BY <1>1, <1>3, <1>4

\* What an entry counts for.
LEMMA Weights ==
  ASSUME NEW l \in Spent \cup {NoSpend}
  PROVE  Weight(l) \in Nat /\ l.amount \in Nat
<1>1. CASE l = NoSpend
  BY <1>1 DEF Weight, NoSpend
<1>2. CASE l \in Spent
  <2>1. l.amount \in Spends /\ l.tag \in {"resource_spent", "budget_overrun"}
    BY <1>2 DEF Spent
  <2>2. l.amount \in Nat
    BY <2>1, TapeAssumption
  <2> QED
    BY <2>1, <2>2 DEF Weight
<1> QED
  BY <1>1, <1>2

\* What holds of no effects, and of a set if of the set without its first
\* effect, holds of every set.
LEMMA SubsetInduction ==
  ASSUME NEW P \in SUBSET SUBSET Effects, {} \in P,
         \A s \in SUBSET Effects : s # {} /\ s \ {Pick(s)} \in P => s \in P
  PROVE  P = SUBSET Effects
<1> DEFINE S == {n \in Nat : Level(n) \subseteq P}
<1>1. 0 \in S
  BY Levels
<1>2. ASSUME NEW n \in S PROVE n + 1 \in S
  <2>1. n \in Nat /\ Level(n) \subseteq P
    OBVIOUS
  <2>2. \A s \in Level(n + 1) : s # {} => s \ {Pick(s)} \in P
    BY <2>1, Levels
  <2>3. Level(n + 1) \subseteq SUBSET Effects
    BY DEF Level
  <2>4. Level(n + 1) \subseteq P
    BY <2>2, <2>3
  <2> QED
    BY <2>1, <2>4
<1>3. S = Nat
  <2> HIDE DEF S
  <2>1. S \in SUBSET Nat
    BY DEF S
  <2> QED
    BY <1>1, <1>2, <2>1, Induction
<1> QED
  BY <1>3, Levels

\* The total of a ledger is a number.
LEMMA TotalType ==
  ASSUME NEW L \in Ledgers
  PROVE  Total(L) \in Nat
<1>1. PICK g : /\ Total(L) = g[Effects] /\ g[{}] = 0
               /\ \A s \in SUBSET Effects :
                    s # {} => g[s] = Weight(L[Pick(s)]) + g[s \ {Pick(s)}]
  BY SumSteps
<1> DEFINE P == {s \in SUBSET Effects : g[s] \in Nat}
<1>2. {} \in P
  <2>1. {} \in SUBSET Effects /\ g[{}] = 0
    BY <1>1
  <2> QED
    BY <2>1
<1>3. ASSUME NEW s \in SUBSET Effects, s # {}, s \ {Pick(s)} \in P PROVE s \in P
  <2>1. Pick(s) \in Effects
    BY <1>3, Picks
  <2>2. Weight(L[Pick(s)]) \in Nat
    BY <2>1, Weights DEF Ledgers
  <2>3. g[s] = Weight(L[Pick(s)]) + g[s \ {Pick(s)}]
    BY <1>1, <1>3
  <2>4. g[s \ {Pick(s)}] \in Nat
    BY <1>3
  <2> QED
    BY <2>2, <2>3, <2>4
<1>4. P = SUBSET Effects
  <2> HIDE DEF P
  <2>1. P \in SUBSET SUBSET Effects
    BY DEF P
  <2> QED
    BY <1>2, <1>3, <2>1, SubsetInduction
<1> QED
  BY <1>1, <1>4

\* A ledger with one entry changed has the total changed by it.
LEMMA TotalChange ==
  ASSUME NEW L \in Ledgers, NEW M \in Ledgers, NEW e \in Effects,
         \A x \in Effects : x # e => M[x] = L[x]
  PROVE  Total(M) = Total(L) - Weight(L[e]) + Weight(M[e])
<1>1. PICK g : /\ Total(L) = g[Effects] /\ g[{}] = 0
               /\ \A s \in SUBSET Effects :
                    s # {} => g[s] = Weight(L[Pick(s)]) + g[s \ {Pick(s)}]
  BY SumSteps
<1>2. PICK h : /\ Total(M) = h[Effects] /\ h[{}] = 0
               /\ \A s \in SUBSET Effects :
                    s # {} => h[s] = Weight(M[Pick(s)]) + h[s \ {Pick(s)}]
  BY SumSteps
<1>3. Weight(L[e]) \in Nat /\ Weight(M[e]) \in Nat
  BY Weights DEF Ledgers
<1>a. PICK a \in Nat : a = Weight(L[e])
  BY <1>3
<1>b. PICK b \in Nat : b = Weight(M[e])
  BY <1>3
<1> DEFINE P == {s \in SUBSET Effects : g[s] \in Int /\ h[s] = IF e \in s THEN g[s] - a + b ELSE g[s]}
<1>4. {} \in P
  <2>1. {} \in SUBSET Effects /\ g[{}] = 0 /\ h[{}] = 0
    BY <1>1, <1>2
  <2> QED
    BY <2>1
<1>5. ASSUME NEW s \in SUBSET Effects, s # {}, s \ {Pick(s)} \in P PROVE s \in P
  <2>1. Pick(s) \in Effects /\ Pick(s) \in s
    BY <1>5, Picks
  <2>2. PICK v \in Nat : v = Weight(L[Pick(s)])
    BY <2>1, Weights DEF Ledgers
  <2>3. PICK rest : rest = s \ {Pick(s)}
    OBVIOUS
  <2>4. /\ g[rest] \in Int /\ h[rest] = IF e \in rest THEN g[rest] - a + b ELSE g[rest]
        /\ g[s] = v + g[rest] /\ h[s] = Weight(M[Pick(s)]) + h[rest]
    <3>1. g[s] = v + g[rest]
      BY <1>1, <1>5, <2>2, <2>3
    <3>2. h[s] = Weight(M[Pick(s)]) + h[rest]
      BY <1>2, <1>5, <2>3
    <3>3. rest \in P
      BY <1>5, <2>3
    <3> QED
      BY <3>1, <3>2, <3>3
  <2>5. CASE Pick(s) = e
    <3>1. e \in s /\ e \notin rest /\ v = a /\ Weight(M[Pick(s)]) = b
      BY <1>a, <1>b, <2>1, <2>2, <2>3, <2>5
    <3> QED
      BY <2>4, <3>1
  <2>6. CASE Pick(s) # e
    <3>1. (e \in s <=> e \in rest) /\ Weight(M[Pick(s)]) = v
      BY <2>1, <2>2, <2>3, <2>6
    <3> QED
      BY <2>4, <3>1
  <2> QED
    BY <2>5, <2>6
<1>6. P = SUBSET Effects
  <2> HIDE DEF P
  <2>1. P \in SUBSET SUBSET Effects
    BY DEF P
  <2> QED
    BY <1>4, <1>5, <2>1, SubsetInduction
<1> QED
  BY <1>1, <1>2, <1>a, <1>b, <1>6

\* A ledger without entries has the total zero.
LEMMA TotalZero ==
  Total([e \in Effects |-> NoSpend]) = 0
<1>1. PICK L : L = [e \in Effects |-> NoSpend]
  OBVIOUS
<1>2. PICK g : /\ Total(L) = g[Effects] /\ g[{}] = 0
               /\ \A s \in SUBSET Effects :
                    s # {} => g[s] = Weight(L[Pick(s)]) + g[s \ {Pick(s)}]
  BY SumSteps
<1> DEFINE P == {s \in SUBSET Effects : g[s] = 0}
<1>3. {} \in P
  <2>1. {} \in SUBSET Effects /\ g[{}] = 0
    BY <1>2
  <2> QED
    BY <2>1
<1>4. ASSUME NEW s \in SUBSET Effects, s # {}, s \ {Pick(s)} \in P PROVE s \in P
  <2>1. Pick(s) \in Effects
    BY <1>4, Picks
  <2>2. Weight(L[Pick(s)]) = 0
    BY <1>1, <2>1 DEF Weight, NoSpend
  <2>3. g[s] = Weight(L[Pick(s)]) + g[s \ {Pick(s)}]
    BY <1>2, <1>4
  <2>4. g[s \ {Pick(s)}] = 0
    BY <1>4
  <2> QED
    BY <2>2, <2>3, <2>4
<1>5. P = SUBSET Effects
  <2> HIDE DEF P
  <2>1. P \in SUBSET SUBSET Effects
    BY DEF P
  <2> QED
    BY <1>3, <1>4, <2>1, SubsetInduction
<1> QED
  BY <1>1, <1>2, <1>5

-----------------------------------------------------------------------------
(* The spend *)

Paying == {"spend", "spending", "resource_spent", "budget_overrun", "answered"}

\* A call that has an answer, or repairs its spend, has it from the tape.
PaysRecorded ==
  \A c \in AllCalls :
    pc[c] \in Paying =>
      \E i \in DOMAIN results[EffectOf[c]] : results[EffectOf[c]][i] = outcome[c]

\* What is on the ledger was spent by an execution that is on the tape.
LedgerRecorded ==
  \A e \in Effects :
    ledger[e] # NoSpend => \E i \in DOMAIN results[e] : results[e][i].spend = ledger[e].amount

AnsweredPaid == \A c \in AllCalls : pc[c] = "answered" => ledger[EffectOf[c]] # NoSpend

\* The call that is about to commit a spend has compared it with the total.
WithinLimit ==
  /\ LedgerTotal <= Limit
  /\ \A c \in AllCalls :
       pc[c] = "resource_spent" =>
         /\ ledger[EffectOf[c]] = NoSpend
         /\ LedgerTotal + outcome[c].spend <= Limit

SpendKnown ==
  /\ TypeOK /\ running \in [Processes -> AllCalls \cup {NoCall}]
  /\ HasOutcome /\ PaysRecorded /\ LedgerRecorded /\ AnsweredPaid

SpendInv == SpendKnown /\ (OneLoop => WithinLimit)

\* What the two invariants share.
LEMMA KnownTypes == SpendKnown => Types /\ LoopHeld /\ HasOutcome
BY DEF SpendKnown, TypeOK, Types, LoopHeld

LEMMA LedgerTotals == LedgerTotal = Total(ledger) /\ LedgerTotal' = Total(ledger')
BY DEF LedgerTotal, Total, MapThenSumSet, MapThenFoldSet

\* The invariant holds at the beginning.
LEMMA InitSpend == Init => SpendInv
<1> SUFFICES ASSUME Init PROVE SpendInv
  OBVIOUS
<1>1. \A c \in AllCalls : pc[c] = "new" /\ running[home[c]] = NoCall
  BY DEF Init
<1>2. TypeOK
  <2>1. \A c \in AllCalls : pc[c] \in Holding <=> running[home[c]] = c
    BY <1>1, TapeAssumption DEF Holding
  <2> QED
    BY <2>1, TapeAssumption DEF Init, TypeOK
<1>3. HasOutcome /\ PaysRecorded /\ AnsweredPaid
  BY <1>1 DEF HasOutcome, PaysRecorded, Paying, AnsweredPaid
<1>4. LedgerRecorded
  BY DEF Init, LedgerRecorded
<1>5. WithinLimit
  <2>1. LedgerTotal = 0
    BY TotalZero, LedgerTotals DEF Init
  <2>2. 0 <= Limit
    BY TapeAssumption
  <2> QED
    BY <1>1, <2>1, <2>2 DEF WithinLimit
<1> QED
  BY <1>2, <1>3, <1>4, <1>5 DEF SpendInv, SpendKnown, Init

\* Only the commit of a spend writes the ledger, and only the commit of a result
\* writes results: it appends.
LEMMA StepTape ==
  ASSUME SpendKnown, NEW c \in AllCalls, Step(c)
  PROVE  /\ CommitSpend(c) \/ ledger' = ledger
         /\ \A e \in Effects : \A i \in DOMAIN results[e] :
              i \in DOMAIN results'[e] /\ results'[e][i] = results[e][i]
<1> USE DEF SpendKnown, TypeOK
<1>1. CommitSpend(c) \/ ledger' = ledger
  BY DEF Step, Start, Guarded, CheckIntent, CommitIntent, CheckRejection,
       CommitRejection, Finish, Cancelled, Reconcile, CheckResult, CommitResult,
       ProjectSpend, CheckSpend, tape
<1>2. ASSUME NEW e \in Effects, NEW i \in DOMAIN results[e]
      PROVE  i \in DOMAIN results'[e] /\ results'[e][i] = results[e][i]
  <2>1. CASE CommitResult(c)
    <3>1. PICK old : old = results[e]
      OBVIOUS
    <3>2. old \in Seq(Outcomes) /\ i \in 1 .. Len(old)
      BY <3>1
    <3>3. outcome[c] \in Outcomes
      BY <2>1 DEF HasOutcome, CommitResult
    <3>4. results'[e] = old \/ results'[e] = Append(old, outcome[c])
      BY <2>1, <3>1, TapeAssumption DEF CommitResult
    <3>5. /\ DOMAIN Append(old, outcome[c]) = 1 .. Len(old) + 1
          /\ Append(old, outcome[c])[i] = old[i]
      BY <3>2, <3>3
    <3> QED
      BY <3>1, <3>2, <3>4, <3>5
  <2>2. CASE ~CommitResult(c)
    BY <2>2 DEF Step, Start, Guarded, CheckIntent, CommitIntent, CheckRejection,
         CommitRejection, Finish, Cancelled, Reconcile, CheckResult,
         ProjectSpend, CheckSpend, CommitSpend, tape
  <2> QED
    BY <2>1, <2>2
<1> QED
  BY <1>1, <1>2

\* The claim that is committed is typed, and is what it was or was not there.
LEMMA CommitIs ==
  ASSUME SpendKnown, NEW c \in AllCalls, CommitSpend(c)
  PROVE  \E claim \in Spent :
           /\ claim.tag = pc[c] /\ claim.amount = outcome[c].spend
           /\ \/ /\ ledger[EffectOf[c]] \in {NoSpend, claim}
                 /\ ledger' = [ledger EXCEPT ![EffectOf[c]] = claim]
                 /\ Goto(c, "answered")
              \/ ledger' = ledger /\ Goto(c, "raised")
<1> USE DEF SpendKnown, TypeOK
<1>1. EffectOf[c] \in Effects
  BY TapeAssumption
<1>2. pc[c] \in {"resource_spent", "budget_overrun"}
  BY DEF CommitSpend
<1>3. outcome[c] \in Outcomes
  BY <1>1, <1>2 DEF PaysRecorded, Paying
<1>4. PICK claim : claim = [tag |-> pc[c], amount |-> outcome[c].spend]
  OBVIOUS
<1>5. claim \in Spent
  BY <1>2, <1>3, <1>4 DEF Outcomes, Spent
<1>6. \/ /\ ledger[EffectOf[c]] \in {NoSpend, claim}
         /\ ledger' = [ledger EXCEPT ![EffectOf[c]] = claim]
         /\ Goto(c, "answered")
      \/ ledger' = ledger /\ Goto(c, "raised")
  BY <1>4 DEF CommitSpend
<1> QED
  BY <1>4, <1>5, <1>6

\* Types are kept by every step, in every process.
LEMMA StepTypeOK ==
  ASSUME SpendKnown, NEW c \in AllCalls, Step(c), home' = home
  PROVE  TypeOK' /\ running' \in [Processes -> AllCalls \cup {NoCall}]
<1>1. Types /\ LoopHeld /\ HasOutcome
  BY KnownTypes
<1>2. Types' /\ LoopHeld'
  BY <1>1, StepTypes, StepLoop
<1>3. ledger' \in Ledgers
  <2>1. CASE ledger' = ledger
    BY <2>1 DEF SpendKnown, TypeOK, Ledgers
  <2>2. CASE CommitSpend(c)
    <3>1. \/ \E claim \in Spent : ledger' = [ledger EXCEPT ![EffectOf[c]] = claim]
          \/ ledger' = ledger
      BY <2>2, CommitIs
    <3> QED
      BY <3>1 DEF SpendKnown, TypeOK, Ledgers
  <2> QED
    BY <2>1, <2>2, StepTape
<1>4. seen' \in [AllCalls -> Nat]
  <2>1. LedgerTotal \in Nat
    BY LedgerTotals, TotalType DEF SpendKnown, TypeOK, Ledgers
  <2>2. seen' = seen \/ seen' = [seen EXCEPT ![c] = LedgerTotal]
    BY DEF Step, Start, Guarded, CheckIntent, CommitIntent, CheckRejection,
         CommitRejection, Finish, Cancelled, Reconcile, CheckResult, CommitResult,
         ProjectSpend, CheckSpend, CommitSpend
  <2> QED
    BY <2>1, <2>2 DEF SpendKnown, TypeOK
<1>5. crashes' = crashes
  BY DEF Step, Start, Guarded, CheckIntent, CommitIntent, CheckRejection,
       CommitRejection, Finish, Cancelled, Reconcile, CheckResult, CommitResult,
       ProjectSpend, CheckSpend, CommitSpend
<1>6. ASSUME NEW d \in AllCalls, running'[home[d]] = d
      PROVE  pc'[d] \in Holding
  <2>1. PICK p \in {"new"} \cup Awaiting \cup Holding \cup Ended : Goto(c, p)
    BY StepMoves
  <2>2. pc' = [pc EXCEPT ![c] = p]
        /\ running' = [running EXCEPT ![home[c]] = IF p \in Holding THEN c ELSE NoCall]
    BY <2>1 DEF Goto
  <2>3. CASE home[d] = home[c]
    <3>1. running'[home[c]] = IF p \in Holding THEN c ELSE NoCall
      BY <2>2 DEF SpendKnown, TypeOK
    <3>2. d = c /\ p \in Holding
      BY <1>6, <2>3, <3>1, TapeAssumption
    <3> QED
      BY <2>2, <3>2 DEF SpendKnown, TypeOK
  <2>4. CASE home[d] # home[c]
    <3>1. running'[home[d]] = running[home[d]]
      BY <2>2, <2>4 DEF SpendKnown, TypeOK
    <3>2. pc[d] \in Holding
      BY <1>6, <3>1 DEF SpendKnown, TypeOK
    <3> QED
      BY <2>2, <2>4, <3>2 DEF SpendKnown, TypeOK
  <2> QED
    BY <2>3, <2>4
<1> QED
  BY <1>2, <1>3, <1>4, <1>5, <1>6 DEF TypeOK, Types, LoopHeld, Ledgers, SpendKnown

\* The outcome a call pays for stays on the tape.
LEMMA StepPays ==
  ASSUME SpendKnown, NEW c \in AllCalls, Step(c)
  PROVE  PaysRecorded'
<1> USE DEF SpendKnown, TypeOK
<1>1. PICK p \in {"new"} \cup Awaiting \cup Holding \cup Ended : Goto(c, p)
  BY StepMoves
<1>2. pc' = [pc EXCEPT ![c] = p] /\ EffectOf[c] \in Effects
  BY <1>1, TapeAssumption DEF Goto
<1>3. Types /\ LoopHeld /\ HasOutcome
  BY KnownTypes
<1>4. \A d \in AllCalls : d # c => pc'[d] = pc[d] /\ outcome'[d] = outcome[d]
  BY <1>3, StepOthers
<1>5. \A d \in AllCalls : EffectOf[d] \in Effects
  BY TapeAssumption
<1>6. pc'[c] \in Paying =>
        \E i \in DOMAIN results'[EffectOf[c]] : results'[EffectOf[c]][i] = outcome'[c]
  <2>1. CASE Start(c)
    <3>1. PICK r : r = results[EffectOf[c]]
      OBVIOUS
    <3>2. r \in Seq(Outcomes)
      BY <1>2, <3>1
    <3>3. r # <<>> => 1 \in DOMAIN r /\ Head(r) = r[1]
      BY <3>2
    <3>4. pc'[c] \in Paying => r # <<>> /\ outcome'[c] = Head(r)
      BY <1>2, <2>1, <3>1 DEF Start, Recovered, Goto, Paying
    <3>5. results' = results
      BY <2>1 DEF Start, tape
    <3> QED
      BY <3>1, <3>3, <3>4, <3>5
  <2>2. CASE CommitResult(c)
    <3>1. PICK r : r = results[EffectOf[c]]
      OBVIOUS
    <3>2. r \in Seq(Outcomes) /\ outcome[c] \in Outcomes
      BY <1>2, <2>2, <3>1 DEF CommitResult, HasOutcome
    <3>3. results'[EffectOf[c]] = Append(r, outcome[c]) /\ outcome' = outcome
      BY <1>2, <2>2, <3>1 DEF CommitResult
    <3>4. Len(r) + 1 \in DOMAIN Append(r, outcome[c])
          /\ Append(r, outcome[c])[Len(r) + 1] = outcome[c]
      BY <3>2
    <3> QED
      BY <3>3, <3>4
  <2>3. CASE ProjectSpend(c) \/ CheckSpend(c) \/ CommitSpend(c)
    <3>1. pc[c] \in Paying
      BY <2>3 DEF ProjectSpend, CheckSpend, CommitSpend, Paying
    <3>2. results' = results /\ outcome' = outcome
      BY <2>3 DEF ProjectSpend, CheckSpend, CommitSpend, tape
    <3> QED
      BY <3>1, <3>2 DEF PaysRecorded
  <2>4. CASE ~(Start(c) \/ CommitResult(c) \/ ProjectSpend(c) \/ CheckSpend(c) \/ CommitSpend(c))
    <3>1. pc'[c] \notin Paying
      BY <1>2, <2>4 DEF Step, Guarded, CheckIntent, CommitIntent, CheckRejection,
           CommitRejection, Finish, Cancelled, Reconcile, CheckResult, Goto, Paying
    <3> QED
      BY <3>1
  <2> QED
    BY <2>1, <2>2, <2>3, <2>4
<1>7. ASSUME NEW d \in AllCalls, d # c, pc'[d] \in Paying
      PROVE  \E i \in DOMAIN results'[EffectOf[d]] : results'[EffectOf[d]][i] = outcome'[d]
  <2>1. PICK i \in DOMAIN results[EffectOf[d]] : results[EffectOf[d]][i] = outcome[d]
    BY <1>4, <1>7 DEF PaysRecorded
  <2>2. i \in DOMAIN results'[EffectOf[d]] /\ results'[EffectOf[d]][i] = outcome[d]
    BY <1>5, <2>1, StepTape
  <2> QED
    BY <1>4, <1>7, <2>2
<1> QED
  BY <1>6, <1>7 DEF PaysRecorded

\* What is put on the ledger is what its committer pays for; nothing leaves it.
LEMMA StepLedger ==
  ASSUME SpendKnown, NEW c \in AllCalls, Step(c)
  PROVE  LedgerRecorded' /\ AnsweredPaid'
<1> USE DEF SpendKnown, TypeOK
<1>1. EffectOf[c] \in Effects
  BY TapeAssumption
<1>2. \A d \in AllCalls : EffectOf[d] \in Effects
  BY TapeAssumption
<1>3. ASSUME NEW e \in Effects, ledger'[e] # NoSpend
      PROVE  \E i \in DOMAIN results'[e] : results'[e][i].spend = ledger'[e].amount
  <2>1. CASE ledger'[e] = ledger[e]
    <3>1. PICK i \in DOMAIN results[e] : results[e][i].spend = ledger[e].amount
      BY <1>3, <2>1 DEF LedgerRecorded
    <3>2. i \in DOMAIN results'[e] /\ results'[e][i] = results[e][i]
      BY <3>1, StepTape
    <3> QED
      BY <2>1, <3>1, <3>2
  <2>2. CASE ledger'[e] # ledger[e]
    <3>1. CommitSpend(c)
      BY <2>2, StepTape
    <3>2. PICK claim \in Spent :
            /\ claim.tag = pc[c] /\ claim.amount = outcome[c].spend
            /\ \/ /\ ledger[EffectOf[c]] \in {NoSpend, claim}
                  /\ ledger' = [ledger EXCEPT ![EffectOf[c]] = claim]
                  /\ Goto(c, "answered")
               \/ ledger' = ledger /\ Goto(c, "raised")
      BY <3>1, CommitIs
    <3>3. e = EffectOf[c] /\ ledger'[e] = claim
      BY <1>1, <2>2, <3>2
    <3>4. PICK i \in DOMAIN results[e] : results[e][i] = outcome[c]
      BY <3>1, <3>3 DEF PaysRecorded, Paying, CommitSpend
    <3>5. i \in DOMAIN results'[e] /\ results'[e][i] = results[e][i]
      BY <3>4, StepTape
    <3> QED
      BY <3>2, <3>3, <3>4, <3>5
  <2> QED
    BY <2>1, <2>2
<1>4. \A l \in Spent : l # NoSpend
  BY DEF Spent, NoSpend
<1>5. \A e \in Effects : ledger[e] # NoSpend => ledger'[e] # NoSpend
  <2>1. CASE CommitSpend(c)
    BY <1>1, <1>4, <2>1, CommitIs
  <2> QED
    BY <2>1, StepTape
<1>6. pc'[c] = "answered" => ledger'[EffectOf[c]] # NoSpend
  <2>1. PICK p \in {"new"} \cup Awaiting \cup Holding \cup Ended : Goto(c, p)
    BY StepMoves
  <2>2. pc' = [pc EXCEPT ![c] = p]
    BY <2>1 DEF Goto
  <2>3. CASE CommitSpend(c)
    <3>1. PICK claim \in Spent :
            /\ claim.tag = pc[c] /\ claim.amount = outcome[c].spend
            /\ \/ /\ ledger[EffectOf[c]] \in {NoSpend, claim}
                  /\ ledger' = [ledger EXCEPT ![EffectOf[c]] = claim]
                  /\ Goto(c, "answered")
               \/ ledger' = ledger /\ Goto(c, "raised")
      BY <2>3, CommitIs
    <3>2. CASE ledger' = [ledger EXCEPT ![EffectOf[c]] = claim]
      BY <1>1, <1>4, <3>1, <3>2
    <3>3. CASE Goto(c, "raised")
      BY <2>2, <3>3 DEF Goto
    <3> QED
      BY <3>1, <3>2, <3>3
  <2>4. CASE CheckSpend(c)
    <3>1. pc'[c] = "answered" => ledger[EffectOf[c]] # NoSpend
      BY <2>2, <2>4 DEF CheckSpend, Goto
    <3> QED
      BY <1>1, <1>5, <3>1
  <2>5. CASE ~CommitSpend(c) /\ ~CheckSpend(c)
    <3>1. pc'[c] # "answered"
      BY <2>2, <2>5 DEF Step, Start, Guarded, CheckIntent, CommitIntent, CheckRejection,
           CommitRejection, Finish, Cancelled, Reconcile, CheckResult, CommitResult,
           ProjectSpend, Goto, Recovered
    <3> QED
      BY <3>1
  <2> QED
    BY <2>3, <2>4, <2>5
<1>7. \A d \in AllCalls : d # c => pc'[d] = pc[d]
  BY KnownTypes, StepOthers
<1> QED
  BY <1>2, <1>3, <1>5, <1>6, <1>7 DEF LedgerRecorded, AnsweredPaid

\* A spend goes on the ledger only after the comparison.
LEMMA OnlyCheckPays ==
  ASSUME TypeOK, NEW c \in AllCalls, Step(c), pc'[c] = "resource_spent"
  PROVE  CheckSpend(c)
<1> USE DEF TypeOK
<1>1. CASE Start(c)
  BY <1>1 DEF Start, Recovered, Goto
<1>2. CASE Guarded(c) \/ Finish(c) \/ Cancelled(c) \/ Reconcile(c)
  BY <1>2 DEF Guarded, Finish, Cancelled, Reconcile, Goto
<1>3. CASE CheckIntent(c) \/ CommitIntent(c) \/ CheckRejection(c) \/ CommitRejection(c)
  BY <1>3 DEF CheckIntent, CommitIntent, CheckRejection, CommitRejection, Goto
<1>4. CASE CheckResult(c) \/ CommitResult(c) \/ ProjectSpend(c) \/ CommitSpend(c)
  BY <1>4 DEF CheckResult, CommitResult, ProjectSpend, CommitSpend, Goto
<1> QED
  BY <1>1, <1>2, <1>3, <1>4 DEF Step

\* With one event loop the total has not grown since the last comparison.
LEMMA StepLimit ==
  ASSUME OneLoop, WithinLimit, SpendKnown, NEW c \in AllCalls, Step(c), home' = home
  PROVE  WithinLimit'
<1>1. PICK p \in {"new"} \cup Awaiting \cup Holding \cup Ended : Goto(c, p)
  BY StepMoves
<1>2. pc' = [pc EXCEPT ![c] = p] /\ EffectOf[c] \in Effects
  BY <1>1, TapeAssumption DEF Goto
<1>3. \A d \in AllCalls : d # c => pc'[d] \notin Holding
  BY <1>1, KnownTypes, Alone DEF Goto, SpendKnown, TypeOK
<1>4. ledger \in Ledgers /\ LedgerTotal \in Nat /\ Limit \in Nat
  BY LedgerTotals, TotalType, TapeAssumption DEF SpendKnown, TypeOK, Ledgers
<1>5. CASE CommitSpend(c)
  <2>1. PICK claim \in Spent :
          /\ claim.tag = pc[c] /\ claim.amount = outcome[c].spend
          /\ \/ /\ ledger[EffectOf[c]] \in {NoSpend, claim}
                /\ ledger' = [ledger EXCEPT ![EffectOf[c]] = claim]
                /\ Goto(c, "answered")
             \/ ledger' = ledger /\ Goto(c, "raised")
    BY <1>5, CommitIs
  <2>2. pc'[c] \in {"answered", "raised"}
    BY <1>2, <2>1 DEF Goto, SpendKnown, TypeOK
  <2>3. LedgerTotal' <= Limit
    <3>1. CASE ledger' = ledger
      BY <3>1, LedgerTotals DEF WithinLimit
    <3>2. CASE ledger' = [ledger EXCEPT ![EffectOf[c]] = claim]
      <4>1. ledger' \in Ledgers /\ ledger'[EffectOf[c]] = claim
            /\ \A x \in Effects : x # EffectOf[c] => ledger'[x] = ledger[x]
        BY <1>2, <1>4, <3>2 DEF Ledgers
      <4>2. LedgerTotal' = LedgerTotal - Weight(ledger[EffectOf[c]]) + Weight(claim)
        BY <1>2, <1>4, <4>1, LedgerTotals, TotalChange
      <4>3. Weight(ledger[EffectOf[c]]) \in Nat /\ Weight(claim) \in Nat
        BY <1>2, <1>4, Weights DEF Ledgers
      <4>4. CASE pc[c] = "resource_spent"
        <5>1. ledger[EffectOf[c]] = NoSpend /\ LedgerTotal + claim.amount <= Limit
          BY <2>1, <4>4 DEF WithinLimit
        <5>2. Weight(ledger[EffectOf[c]]) = 0 /\ Weight(claim) = claim.amount
          BY <2>1, <4>4, <5>1 DEF Weight, NoSpend
        <5> QED
          BY <1>4, <4>2, <4>3, <5>1, <5>2
      <4>5. CASE pc[c] # "resource_spent"
        <5>1. Weight(claim) = 0
          BY <2>1, <4>5 DEF Weight
        <5> QED
          BY <1>4, <4>2, <4>3, <5>1 DEF WithinLimit
      <4> QED
        BY <4>4, <4>5
    <3> QED
      BY <2>1, <3>1, <3>2
  <2>4. \A d \in AllCalls : pc'[d] # "resource_spent"
    BY <1>3, <2>2 DEF Holding
  <2> QED
    BY <2>3, <2>4 DEF WithinLimit
<1>6. CASE ~CommitSpend(c)
  <2>1. ledger' = ledger /\ LedgerTotal' = LedgerTotal
    BY <1>6, StepTape, LedgerTotals
  <2>2. ASSUME pc'[c] = "resource_spent"
        PROVE  /\ ledger'[EffectOf[c]] = NoSpend
               /\ LedgerTotal' + outcome'[c].spend <= Limit
    <3>1. p = "resource_spent"
      BY <1>2, <2>2 DEF SpendKnown, TypeOK
    <3>2. CheckSpend(c)
      BY <1>6, <2>2, OnlyCheckPays DEF SpendKnown
    <3>3. ledger[EffectOf[c]] = NoSpend /\ ~Exceeds(LedgerTotal, outcome[c].spend)
      BY <1>2, <2>2, <3>2 DEF CheckSpend, Goto, SpendKnown, TypeOK
    <3>4. outcome[c] \in Outcomes
      BY <1>2, <3>2 DEF CheckSpend, SpendKnown, TypeOK, PaysRecorded, Paying
    <3>5. outcome[c].spend \in Nat /\ outcome' = outcome
      BY <3>2, <3>4, TapeAssumption DEF Outcomes, CheckSpend
    <3> QED
      BY <1>4, <2>1, <3>3, <3>5 DEF Exceeds
  <2>3. \A d \in AllCalls : d # c => pc'[d] # "resource_spent"
    BY <1>3 DEF Holding
  <2> QED
    BY <2>1, <2>2, <2>3 DEF WithinLimit
<1> QED
  BY <1>5, <1>6

\* A process that stops leaves the tape alone and pays for nothing.
LEMMA CrashSpend ==
  ASSUME SpendInv, NEW p \in Processes, Crash(p), home' = home
  PROVE  SpendInv'
<1> USE DEF SpendInv, SpendKnown, TypeOK
<1>1. \A c \in AllCalls : pc'[c] = (IF home[c] = p /\ pc[c] \in Awaiting \cup Holding
                                    THEN "raised" ELSE pc[c])
  BY DEF Crash
<1>2. UNCHANGED <<intents, results, rejected, ledger, outcome, seen, live>>
  BY DEF Crash, tape
<1>3. running' = [running EXCEPT ![p] = NoCall]
  BY DEF Crash
<1>4. \A c \in AllCalls : pc'[c] = pc[c] \/ pc'[c] = "raised"
  BY <1>1
<1>5. \A c \in AllCalls : pc'[c] \in Holding <=> running'[home[c]] = c
  <2> SUFFICES ASSUME NEW c \in AllCalls
               PROVE  pc'[c] \in Holding <=> running'[home[c]] = c
    OBVIOUS
  <2>1. CASE home[c] = p
    <3>1. running'[home[c]] = NoCall
      BY <1>3, <2>1
    <3>2. pc'[c] \notin Holding
      BY <1>1, <2>1 DEF Holding
    <3> QED
      BY <3>1, <3>2, TapeAssumption
  <2>2. CASE home[c] # p
    BY <1>1, <1>3, <2>2
  <2> QED
    BY <2>1, <2>2
<1>6. crashes' \in 0 .. MaxCrashes
  BY TapeAssumption DEF Crash
<1>7. pc' \in [AllCalls -> {"new"} \cup Awaiting \cup Holding \cup Ended]
      /\ running' \in [Processes -> AllCalls \cup {NoCall}]
  BY <1>3 DEF Crash, Ended
<1>8. TypeOK'
  BY <1>2, <1>5, <1>6, <1>7
<1>9. HasOutcome' /\ PaysRecorded' /\ LedgerRecorded' /\ AnsweredPaid'
  BY <1>2, <1>4 DEF HasOutcome, PaysRecorded, Paying, LedgerRecorded, AnsweredPaid
<1>10. OneLoop' => WithinLimit'
  BY <1>2, <1>4, LedgerTotals DEF OneLoop, WithinLimit
<1> QED
  BY <1>7, <1>8, <1>9, <1>10

\* The invariant is inductive, in any number of processes.
LEMMA SpendNext ==
  ASSUME SpendInv, [Next]_vars
  PROVE  SpendInv'
<1>1. ASSUME NEW c \in AllCalls, Step(c), home' = home
      PROVE  SpendInv'
  <2>1. Types /\ LoopHeld /\ HasOutcome
    BY KnownTypes DEF SpendInv
  <2>2. TypeOK' /\ running' \in [Processes -> AllCalls \cup {NoCall}]
    BY <1>1, StepTypeOK DEF SpendInv
  <2>3. HasOutcome' /\ PaysRecorded' /\ LedgerRecorded' /\ AnsweredPaid'
    BY <1>1, <2>1, StepHasOutcome, StepPays, StepLedger DEF SpendInv
  <2>4. OneLoop' => OneLoop
    BY <1>1 DEF OneLoop
  <2>5. OneLoop' => WithinLimit'
    BY <1>1, <2>4, StepLimit DEF SpendInv
  <2> QED
    BY <2>2, <2>3, <2>5 DEF SpendInv, SpendKnown
<1>2. ASSUME NEW p \in Processes, Crash(p), home' = home
      PROVE  SpendInv'
  BY <1>2, CrashSpend
<1>3. CASE UNCHANGED vars
  <2>1. LedgerTotal' = LedgerTotal
    BY <1>3, LedgerTotals DEF vars, tape
  <2> QED
    BY <1>3, <2>1 DEF vars, tape, SpendInv, SpendKnown, TypeOK, HasOutcome, PaysRecorded,
         LedgerRecorded, AnsweredPaid, OneLoop, WithinLimit
<1> QED
  BY <1>1, <1>2, <1>3 DEF Next

\* A call that returns a result has what the execution spent on record, whoever
\* executed it and wherever the processes of the workspace stopped; and among
\* the calls of one process the ledger keeps the limit, whatever was really
\* spent: _fold_spend and _recover_existing of tool_harness.py with the rows'
\* comparison of rows/capability.py.
THEOREM SpendIsAccounted == Spec => []SpendAccounted
<1>1. SpendInv => SpendAccounted
  <2> SUFFICES ASSUME SpendInv PROVE AnsweredIsAccounted /\ OneProcessWithinLimit
    BY DEF SpendAccounted, SpendInv, SpendKnown
  <2>1. OneProcessWithinLimit
    BY DEF SpendInv, WithinLimit, OneProcessWithinLimit, LedgerWithinLimit
  <2>2. ASSUME NEW c \in AllCalls, pc[c] = "answered"
        PROVE  /\ results[EffectOf[c]] # <<>>
               /\ \E i \in DOMAIN results[EffectOf[c]] :
                    ledger[EffectOf[c]].amount = results[EffectOf[c]][i].spend
    <3>1. PICK e \in Effects : e = EffectOf[c]
      BY TapeAssumption
    <3>2. ledger[e] # NoSpend
      BY <2>2, <3>1 DEF SpendInv, SpendKnown, AnsweredPaid
    <3>3. PICK i \in DOMAIN results[e] : results[e][i].spend = ledger[e].amount
      BY <3>2 DEF SpendInv, SpendKnown, LedgerRecorded
    <3>4. results[e] # <<>>
      BY <3>3
    <3> QED
      BY <3>1, <3>3, <3>4
  <2> QED
    BY <2>1, <2>2 DEF AnsweredIsAccounted
<1>2. Init => SpendInv
  BY InitSpend
<1> QED
  BY <1>1, <1>2, SpendNext, PTL DEF Spec

-----------------------------------------------------------------------------
(* The order of a plan *)

Increasing(f, n) == \A i, j \in 1 .. n : i < j => f[i] < f[j]

LEMMA SomeSteps ==
  ASSUME NEW S \in SUBSET Steps
  PROVE  IsFiniteSet(S) /\ Cardinality(S) \in Nat
<1>1. IsFiniteSet(Steps)
  BY StepsAreCounted, FS_Interval DEF Steps
<1> QED
  BY <1>1, FS_Subset, FS_CardinalityType

\* Any steps have a declaration order: the last of them comes after the others.
LEMMA DeclaredExists ==
  ASSUME NEW S \in SUBSET Steps
  PROVE  \E f \in [1 .. Cardinality(S) -> S] : Increasing(f, Cardinality(S))
<1> DEFINE N == {n \in Nat : \A T \in SUBSET (1 .. n) :
                   \E f \in [1 .. Cardinality(T) -> T] : Increasing(f, Cardinality(T))}
<1>1. 0 \in N
  <2> SUFFICES ASSUME NEW T \in SUBSET (1 .. 0)
               PROVE  \E f \in [1 .. Cardinality(T) -> T] : Increasing(f, Cardinality(T))
    OBVIOUS
  <2>1. T = {} /\ Cardinality(T) = 0
    <3>1. 1 .. 0 = {}
      OBVIOUS
    <3> QED
      BY <3>1, FS_EmptySet
  <2>2. PICK f : f = [i \in 1 .. 0 |-> i]
    OBVIOUS
  <2>3. f \in [1 .. 0 -> T] /\ Increasing(f, 0)
    BY <2>1, <2>2 DEF Increasing
  <2> QED
    BY <2>1, <2>3
<1>2. ASSUME NEW n \in N PROVE n + 1 \in N
  <2>1. n \in Nat
    OBVIOUS
  <2> SUFFICES ASSUME NEW T \in SUBSET (1 .. n + 1)
               PROVE  \E f \in [1 .. Cardinality(T) -> T] : Increasing(f, Cardinality(T))
    BY <2>1
  <2>2. PICK R : R = T \ {n + 1}
    OBVIOUS
  <2>3. R \in SUBSET (1 .. n)
    BY <2>1, <2>2
  <2>4. IsFiniteSet(R) /\ Cardinality(R) \in Nat
    <3>1. IsFiniteSet(1 .. n)
      BY <2>1, FS_Interval
    <3>2. IsFiniteSet(R)
      BY <2>3, <3>1, FS_Subset
    <3> QED
      BY <3>2, FS_CardinalityType
  <2>5. PICK f \in [1 .. Cardinality(R) -> R] : Increasing(f, Cardinality(R))
    BY <2>3
  <2>6. CASE n + 1 \notin T
    <3>1. R = T
      BY <2>2, <2>6
    <3> QED
      BY <2>5, <3>1
  <2>7. CASE n + 1 \in T
    <3>1. PICK k \in Nat : k = Cardinality(R)
      BY <2>4
    <3>2. R \cup {n + 1} = T /\ n + 1 \notin R
      BY <2>2, <2>7
    <3>3. Cardinality(T) = k + 1
      BY <2>4, <3>1, <3>2, FS_AddElement
    <3>4. PICK g : g = [i \in 1 .. k + 1 |-> IF i = k + 1 THEN n + 1 ELSE f[i]]
      OBVIOUS
    <3>5. \A i \in 1 .. k : g[i] = f[i] /\ f[i] \in R /\ f[i] \in 1 .. n
      <4> SUFFICES ASSUME NEW i \in 1 .. k
                   PROVE  g[i] = f[i] /\ f[i] \in R /\ f[i] \in 1 .. n
        OBVIOUS
      <4>1. f[i] \in R
        BY <2>5, <3>1
      <4>2. i \in 1 .. k + 1 /\ i # k + 1
        OBVIOUS
      <4> QED
        BY <2>3, <3>4, <4>1, <4>2
    <3>6. g[k + 1] = n + 1
      BY <3>4
    <3>7. \A i \in 1 .. k + 1 : i = k + 1 \/ i \in 1 .. k
      OBVIOUS
    <3>8. g \in [1 .. k + 1 -> T]
      BY <3>2, <3>4, <3>5, <3>6, <3>7
    <3>9. Increasing(g, k + 1)
      <4> SUFFICES ASSUME NEW i \in 1 .. k + 1, NEW j \in 1 .. k + 1, i < j
                   PROVE  g[i] < g[j]
        BY DEF Increasing
      <4>1. i \in 1 .. k
        OBVIOUS
      <4>2. CASE j = k + 1
        BY <2>1, <3>5, <3>6, <4>1, <4>2
      <4>3. CASE j \in 1 .. k
        BY <2>5, <3>1, <3>5, <4>1, <4>3 DEF Increasing
      <4> QED
        BY <3>7, <4>2, <4>3
    <3> QED
      BY <3>3, <3>8, <3>9
  <2> QED
    BY <2>6, <2>7
<1>3. N = Nat
  <2> HIDE DEF N
  <2>1. N \in SUBSET Nat
    BY DEF N
  <2> QED
    BY <1>1, <1>2, <2>1, Induction
<1>4. StepCount \in N
  BY <1>3, StepsAreCounted
<1> QED
  BY <1>4 DEF Steps

\* It has each of them.
LEMMA DeclaredIs ==
  ASSUME NEW S \in SUBSET Steps, NEW d, d = Declared(S)
  PROVE  /\ d \in Seq(Steps)
         /\ \A k \in 1 .. Len(d) : d[k] \in S
         /\ \A s \in S : \E k \in 1 .. Len(d) : d[k] = s
<1>1. PICK n \in Nat : n = Cardinality(S)
  BY SomeSteps
<1>2. d \in [1 .. n -> S] /\ Increasing(d, n)
  <2>1. \E f \in [1 .. n -> S] : \A i, j \in 1 .. n : i < j => f[i] < f[j]
    BY <1>1, DeclaredExists DEF Increasing
  <2> QED
    BY <1>1, <2>1 DEF Declared, Increasing
<1>3. d \in Seq(Steps) /\ Len(d) = n
  <2>1. d \in [1 .. n -> Steps]
    BY <1>2
  <2> QED
    BY <1>1, <2>1, SeqDef, LenProperties
<1>4. \A i, j \in 1 .. n : d[i] = d[j] => i = j
  <2> SUFFICES ASSUME NEW i \in 1 .. n, NEW j \in 1 .. n, i # j PROVE d[i] # d[j]
    OBVIOUS
  <2>1. d[i] \in Nat /\ d[j] \in Nat
    <3>1. d[i] \in S /\ d[j] \in S
      BY <1>2
    <3>2. Steps \subseteq Nat
      BY StepsAreCounted DEF Steps
    <3> QED
      BY <3>1, <3>2
  <2>2. i < j \/ j < i
    OBVIOUS
  <2> QED
    BY <1>2, <2>1, <2>2 DEF Increasing
<1>5. d \in Injection(1 .. n, S)
  BY <1>2, <1>4 DEF Injection, IsInjective
<1>6. IsFiniteSet(S) /\ IsFiniteSet(1 .. n) /\ Cardinality(1 .. n) = n
  BY SomeSteps, FS_Interval
<1>7. d \in Surjection(1 .. n, S)
  BY <1>1, <1>5, <1>6, FS_Injection
<1> QED
  BY <1>2, <1>3, <1>7 DEF Surjection

\* g is the order of what is left, for the sets of steps in D that may be done.
IsRest(deps, D, g) ==
  g = [done \in D |-> IF Ready(deps, done) = {} THEN <<>>
                      ELSE Declared(Ready(deps, done)) \o g[done \cup Ready(deps, done)]]

\* What leaves at most n steps to do.
Within(n) == {done \in SUBSET Steps : Cardinality(Steps \ done) <= n}

LEMMA WithinIs ==
  ASSUME NEW deps
  PROVE  /\ \A done \in Within(0) : Ready(deps, done) = {}
         /\ StepCount \in Nat /\ Within(StepCount) = SUBSET Steps
         /\ \A n \in Nat :
              /\ Within(n) \subseteq Within(n + 1)
              /\ \A done \in Within(n + 1) :
                   Ready(deps, done) # {} => done \cup Ready(deps, done) \in Within(n)
<1>1. \A done \in SUBSET Steps :
        IsFiniteSet(Steps \ done) /\ Cardinality(Steps \ done) \in Nat
  BY SomeSteps
<1>2. ASSUME NEW done \in Within(0) PROVE Ready(deps, done) = {}
  <2>1. Steps \ done = {}
    BY <1>1, FS_EmptySet DEF Within
  <2> QED
    BY <2>1 DEF Ready
<1>3. Within(StepCount) = SUBSET Steps
  <2>1. IsFiniteSet(Steps) /\ Cardinality(Steps) = StepCount
    BY StepsAreCounted, FS_Interval DEF Steps
  <2>2. \A done \in SUBSET Steps : Cardinality(Steps \ done) <= StepCount
    BY <2>1, FS_Subset
  <2> QED
    BY <2>2 DEF Within
<1>4. ASSUME NEW n \in Nat, NEW done \in Within(n + 1), Ready(deps, done) # {}
      PROVE  done \cup Ready(deps, done) \in Within(n)
  <2>1. PICK s : s \in Ready(deps, done)
    BY <1>4
  <2>2. done \in SUBSET Steps /\ done \cup Ready(deps, done) \in SUBSET Steps
        /\ s \in Steps \ done
    BY <2>1 DEF Within, Ready
  <2>3. PICK R : R = Steps \ (done \cup Ready(deps, done))
    OBVIOUS
  <2>4. R \cup {s} \subseteq Steps \ done /\ s \notin R
    BY <2>1, <2>2, <2>3
  <2>5. IsFiniteSet(R) /\ Cardinality(R) \in Nat
    BY <1>1, <2>2, <2>3
  <2>6. Cardinality(R \cup {s}) = Cardinality(R) + 1
    BY <2>4, <2>5, FS_AddElement
  <2>7. Cardinality(R \cup {s}) <= Cardinality(Steps \ done)
    BY <1>1, <2>2, <2>4, FS_Subset
  <2>8. Cardinality(Steps \ done) <= n + 1 /\ Cardinality(Steps \ done) \in Nat
    BY <1>1, <2>2 DEF Within
  <2>9. Cardinality(R) <= n
    BY <2>5, <2>6, <2>7, <2>8
  <2> QED
    BY <2>2, <2>3, <2>9 DEF Within
<1>5. \A n \in Nat : Within(n) \subseteq Within(n + 1)
  BY <1>1 DEF Within
<1> QED
  BY <1>2, <1>3, <1>4, <1>5, StepsAreCounted

\* There is such an order: it is extended by one level at a time.
LEMMA RestExists ==
  ASSUME NEW deps
  PROVE  \E g : IsRest(deps, SUBSET Steps, g)
<1> DEFINE S == {n \in Nat : \E g : IsRest(deps, Within(n), g)}
<1>1. 0 \in S
  <2>1. PICK g : g = [done \in Within(0) |-> <<>>]
    OBVIOUS
  <2>2. IsRest(deps, Within(0), g)
    BY <2>1, WithinIs DEF IsRest
  <2> QED
    BY <2>2
<1>2. ASSUME NEW n \in S PROVE n + 1 \in S
  <2>1. n \in Nat
    OBVIOUS
  <2>2. PICK g : IsRest(deps, Within(n), g)
    OBVIOUS
  <2>3. PICK h : h = [done \in Within(n + 1) |->
                        IF Ready(deps, done) = {} THEN <<>>
                        ELSE Declared(Ready(deps, done)) \o g[done \cup Ready(deps, done)]]
    OBVIOUS
  <2>4. \A done \in Within(n) : h[done] = g[done]
    BY <2>1, <2>2, <2>3, WithinIs DEF IsRest
  <2>5. \A done \in Within(n + 1) : Ready(deps, done) # {} =>
          h[done \cup Ready(deps, done)] = g[done \cup Ready(deps, done)]
    BY <2>1, <2>4, WithinIs
  <2>6. IsRest(deps, Within(n + 1), h)
    BY <2>3, <2>5 DEF IsRest
  <2> QED
    BY <2>1, <2>6
<1>3. S = Nat
  <2> HIDE DEF S
  <2>1. S \in SUBSET Nat
    BY DEF S
  <2> QED
    BY <1>1, <1>2, <2>1, Induction
<1>4. StepCount \in S
  BY <1>3, StepsAreCounted
<1>5. PICK g : IsRest(deps, Within(StepCount), g)
  BY <1>4
<1> QED
  BY <1>5, WithinIs

LEMMA OrderIsRest ==
  ASSUME NEW deps
  PROVE  \E g : IsRest(deps, SUBSET Steps, g) /\ Order(deps) = g[{}]
<1> DEFINE it == CHOOSE g : g = [done \in SUBSET Steps |->
                                 IF Ready(deps, done) = {} THEN <<>>
                                 ELSE Declared(Ready(deps, done))
                                        \o g[done \cup Ready(deps, done)]]
<1>1. IsRest(deps, SUBSET Steps, it)
  BY RestExists DEF IsRest
<1>2. Order(deps) = it[{}]
  BY DEF Order
<1> QED
  BY <1>1, <1>2

\* q is steps, each of which comes after those it depends on or done.
Follows(deps, done, q) ==
  /\ q \in Seq(Steps)
  /\ \A k \in 1 .. Len(q) : \A d \in deps[q[k]] :
       d \in done \/ \E j \in 1 .. k - 1 : q[j] = d

\* What a level adds comes before what follows it.
LEMMA LevelFollows ==
  ASSUME NEW deps \in [Steps -> SUBSET Steps], NEW done \in SUBSET Steps,
         NEW q, Follows(deps, done \cup Ready(deps, done), q)
  PROVE  Follows(deps, done, Declared(Ready(deps, done)) \o q)
<1>1. PICK d : d = Declared(Ready(deps, done))
  OBVIOUS
<1>2. PICK t : t = d \o q
  OBVIOUS
<1>3. /\ d \in Seq(Steps) /\ \A k \in 1 .. Len(d) : d[k] \in Ready(deps, done)
      /\ \A s \in Ready(deps, done) : \E k \in 1 .. Len(d) : d[k] = s
  <2>1. Ready(deps, done) \in SUBSET Steps
    BY DEF Ready
  <2> QED
    BY <1>1, <2>1, DeclaredIs
<1>4. q \in Seq(Steps)
  BY DEF Follows
<1>5. PICK m \in Nat, n \in Nat : m = Len(d) /\ n = Len(q)
  BY <1>3, <1>4, LenProperties
<1>6. /\ t \in Seq(Steps) /\ Len(t) = m + n
      /\ \A i \in 1 .. m + n : t[i] = IF i <= m THEN d[i] ELSE q[i - m]
  BY <1>2, <1>3, <1>4, <1>5, ConcatProperties
<1>7. ASSUME NEW k \in 1 .. m + n, NEW e \in deps[t[k]]
      PROVE  e \in done \/ \E j \in 1 .. k - 1 : t[j] = e
  <2>1. CASE k <= m
    <3>1. t[k] = d[k] /\ k \in 1 .. m
      BY <1>6, <2>1
    <3>2. t[k] \in Ready(deps, done)
      BY <1>3, <1>5, <3>1
    <3> QED
      BY <1>7, <3>2 DEF Ready
  <2>2. CASE k > m
    <3>1. PICK i \in 1 .. n : i = k - m
      BY <2>2
    <3>2. t[k] = q[i]
      BY <1>6, <2>2, <3>1
    <3>3. e \in done \cup Ready(deps, done) \/ \E j \in 1 .. i - 1 : q[j] = e
      BY <1>5, <1>7, <3>2 DEF Follows
    <3>4. CASE e \in done
      BY <3>4
    <3>5. CASE e \in Ready(deps, done)
      <4>1. PICK j \in 1 .. m : d[j] = e
        BY <1>3, <1>5, <3>5
      <4>2. j \in 1 .. m + n /\ j <= m /\ j \in 1 .. k - 1
        BY <2>2
      <4> QED
        BY <1>6, <4>1, <4>2
    <3>6. ASSUME NEW j \in 1 .. i - 1, q[j] = e PROVE \E l \in 1 .. k - 1 : t[l] = e
      <4>1. PICK l \in 1 .. m + n : l = j + m
        BY <3>1
      <4>2. l \in 1 .. k - 1 /\ ~ (l <= m) /\ l - m = j
        BY <3>1, <4>1
      <4> QED
        BY <1>6, <3>6, <4>2
    <3> QED
      BY <3>3, <3>4, <3>5, <3>6
  <2> QED
    BY <2>1, <2>2
<1>8. \A k \in 1 .. Len(t) : \A e \in deps[t[k]] :
        e \in done \/ \E j \in 1 .. k - 1 : t[j] = e
  BY <1>6, <1>7
<1>9. Follows(deps, done, t)
  BY <1>6, <1>8 DEF Follows
<1> QED
  BY <1>1, <1>2, <1>9

\* In the order of a plan every step comes after those it depends on.
LEMMA OrderIs ==
  ASSUME NEW deps \in [Steps -> SUBSET Steps]
  PROVE  /\ Order(deps) \in Seq(Steps)
         /\ \A k \in 1 .. Len(Order(deps)) :
              deps[Order(deps)[k]] \subseteq {Order(deps)[j] : j \in 1 .. k - 1}
<1>1. PICK g : IsRest(deps, SUBSET Steps, g) /\ Order(deps) = g[{}]
  BY OrderIsRest
<1>2. \A done \in SUBSET Steps :
        g[done] = IF Ready(deps, done) = {} THEN <<>>
                  ELSE Declared(Ready(deps, done)) \o g[done \cup Ready(deps, done)]
  BY <1>1 DEF IsRest
<1> DEFINE S == {n \in Nat : \A done \in Within(n) : Follows(deps, done, g[done])}
<1>3. \A done \in SUBSET Steps : Follows(deps, done, <<>>)
  BY DEF Follows
<1>4. 0 \in S
  <2>1. ASSUME NEW done \in Within(0) PROVE Follows(deps, done, g[done])
    <3>1. Ready(deps, done) = {} /\ done \in SUBSET Steps
      BY WithinIs DEF Within
    <3> QED
      BY <1>2, <1>3, <3>1
  <2> QED
    BY <2>1
<1>5. ASSUME NEW n \in S PROVE n + 1 \in S
  <2>1. n \in Nat /\ \A done \in Within(n) : Follows(deps, done, g[done])
    OBVIOUS
  <2>2. ASSUME NEW done \in Within(n + 1) PROVE Follows(deps, done, g[done])
    <3>1. done \in SUBSET Steps
      BY DEF Within
    <3>2. CASE Ready(deps, done) = {}
      BY <1>2, <1>3, <3>1, <3>2
    <3>3. CASE Ready(deps, done) # {}
      <4>1. done \cup Ready(deps, done) \in Within(n)
        BY <2>1, <3>3, WithinIs
      <4>2. PICK q : q = g[done \cup Ready(deps, done)]
        OBVIOUS
      <4>3. Follows(deps, done \cup Ready(deps, done), q)
        BY <2>1, <4>1, <4>2
      <4>4. Follows(deps, done, Declared(Ready(deps, done)) \o q)
        BY <3>1, <4>3, LevelFollows
      <4> QED
        BY <1>2, <3>1, <3>3, <4>2, <4>4
    <3> QED
      BY <3>2, <3>3
  <2> QED
    BY <2>1, <2>2
<1>6. S = Nat
  <2> HIDE DEF S
  <2>1. S \in SUBSET Nat
    BY DEF S
  <2> QED
    BY <1>4, <1>5, <2>1, Induction
<1>7. StepCount \in S /\ {} \in Within(StepCount)
  BY <1>6, StepsAreCounted, WithinIs
<1>8. Follows(deps, {}, Order(deps))
  BY <1>1, <1>7
<1> QED
  BY <1>8 DEF Follows

-----------------------------------------------------------------------------
(* Resuming a plan *)

CallFields == {"pc", "at", "outs", "given", "noticed", "heart", "ended"}
Outs == [Steps -> Values \cup {NoOutput}]

\* The outputs of outs that step s depends on.
GivenOf(outs, s) == [d \in Steps |-> IF d \in depends[s] THEN outs[d] ELSE NoOutput]

PlanFits ==
  /\ depends \in [Steps -> SUBSET Steps] /\ Accepted(depends)
  /\ planState \in {"none", "pending", "running"} \cup PlanEnds
  /\ owner \in Workers \cup {Nobody} /\ alive \in BOOLEAN /\ cancel \in BOOLEAN

RecordFits ==
  /\ outputs \in Outs /\ DOMAIN inputs = Steps
  /\ \A s \in StepsDone(outputs) :
       /\ depends[s] \subseteq StepsDone(outputs)
       /\ inputs[s] = GivenOf(outputs, s)
  /\ planState = "completed" => StepsDone(outputs) = Steps

\* What a call knows while it is at the step c.at.
CallFits(w, c) ==
  /\ DOMAIN c = CallFields
  /\ c.pc \in {"idle", "next", "executing", "end", "cancelling"}
  /\ c.pc \in {"next", "executing", "end"} =>
       /\ c.outs \in Outs
       /\ planState = "running" /\ owner = w => c.outs = outputs
  /\ c.pc \in {"next", "executing"} =>
       /\ c.at \in 1 .. Len(Order(depends)) + 1
       /\ \A j \in 1 .. c.at - 1 : Order(depends)[j] \in StepsDone(c.outs)
  /\ c.pc = "executing" =>
       /\ c.at \in 1 .. Len(Order(depends))
       /\ Order(depends)[c.at] \notin StepsDone(c.outs)
       /\ c.given = GivenOf(c.outs, Order(depends)[c.at])
  /\ c.pc = "end" /\ c.ended = "succeeded" => StepsDone(c.outs) = Steps

CallsOfPlan == DOMAIN call = Workers /\ \A w \in Workers : CallFits(w, call[w])

FlowInv == PlanFits /\ RecordFits /\ CallsOfPlan

LEMMA FlowInvInit == ASSUME FlowInit PROVE FlowInv
<1> USE DEF FlowInit
<1>1. PlanFits
  BY DEF PlanFits
<1>2. RecordFits
  <2>1. outputs \in Outs /\ StepsDone(outputs) = {}
    BY DEF NoOutputs, Outs, StepsDone
  <2> QED
    BY <2>1 DEF RecordFits
<1>3. CallsOfPlan
  BY DEF CallsOfPlan, CallFits, CallFields, IdleCall
<1> QED
  BY <1>1, <1>2, <1>3 DEF FlowInv

\* The order of the plan that was accepted.
LEMMA PlanOrder ==
  ASSUME FlowInv, NEW q, q = Order(depends)
  PROVE  /\ Len(q) \in Nat /\ DOMAIN q = 1 .. Len(q)
         /\ \A k \in 1 .. Len(q) : q[k] \in Steps
         /\ \A k \in 1 .. Len(q) : \A d \in depends[q[k]] : \E j \in 1 .. k - 1 : q[j] = d
         /\ Steps = {q[k] : k \in 1 .. Len(q)}
<1>1. /\ q \in Seq(Steps)
      /\ \A k \in 1 .. Len(q) : \A d \in depends[q[k]] : \E j \in 1 .. k - 1 : q[j] = d
  BY OrderIs DEF FlowInv, PlanFits
<1>2. Len(q) \in Nat /\ DOMAIN q = 1 .. Len(q) /\ q \in [1 .. Len(q) -> Steps]
  BY <1>1, LenProperties
<1>3. Steps = {q[k] : k \in DOMAIN q}
  BY DEF FlowInv, PlanFits, Accepted
<1> QED
  BY <1>1, <1>2, <1>3

\* A step of one call that leaves what is recorded alone.
LEMMA OneCall ==
  ASSUME FlowInv, UNCHANGED <<depends, outputs, inputs>>, NEW w \in Workers, NEW c,
         SetCall(w, c), PlanFits', CallFits(w, c)',
         planState' = "completed" => planState = "completed" \/ StepsDone(outputs) = Steps,
         \A v \in Workers : v # w /\ planState' = "running" /\ owner' = v =>
           planState = "running" /\ owner = v
  PROVE  FlowInv'
<1>1. /\ DOMAIN call' = Workers /\ call'[w] = c
      /\ \A v \in Workers : v # w => call'[v] = call[v]
  BY DEF SetCall, FlowInv, CallsOfPlan
<1>2. RecordFits'
  BY DEF FlowInv, RecordFits, GivenOf, StepsDone
<1>3. CallsOfPlan'
  <2> SUFFICES ASSUME NEW v \in Workers PROVE CallFits(v, call[v])'
    BY <1>1 DEF CallsOfPlan
  <2>1. CASE v = w
    BY <1>1, <2>1
  <2>2. CASE v # w
    <3>1. PICK k : k = call[v]
      OBVIOUS
    <3>2. CallFits(v, k) /\ call'[v] = k
      BY <1>1, <2>2, <3>1 DEF FlowInv, CallsOfPlan
    <3>3. CallFits(v, k)'
      BY <2>2, <3>2 DEF CallFits, GivenOf, StepsDone
    <3> QED
      BY <3>2, <3>3
  <2> QED
    BY <2>1, <2>2
<1> QED
  BY <1>2, <1>3 DEF FlowInv

\* A step of the run's row alone.
LEMMA OneRow ==
  ASSUME FlowInv, UNCHANGED <<depends, outputs, inputs, call>>, PlanFits',
         planState' = "completed" => planState = "completed",
         \A v \in Workers : planState' = "running" /\ owner' = v =>
           planState = "running" /\ owner = v
  PROVE  FlowInv'
<1>1. RecordFits'
  BY DEF FlowInv, RecordFits, GivenOf, StepsDone
<1>2. CallsOfPlan'
  <2> SUFFICES ASSUME NEW v \in Workers PROVE CallFits(v, call[v])'
    BY DEF FlowInv, CallsOfPlan
  <2>1. PICK k : k = call[v]
    OBVIOUS
  <2>2. CallFits(v, k)
    BY <2>1 DEF FlowInv, CallsOfPlan
  <2>3. CallFits(v, k)'
    BY <2>2 DEF CallFits, GivenOf, StepsDone
  <2> QED
    BY <2>1, <2>3
<1> QED
  BY <1>1, <1>2 DEF FlowInv

LEMMA IdleFits ==
  ASSUME NEW w PROVE CallFits(w, IdleCall)' /\ IdleCall' = IdleCall
BY DEF CallFits, CallFields, IdleCall, NoOutputs

LEMMA CallOf ==
  ASSUME FlowInv, NEW w \in Workers
  PROVE  CallFits(w, call[w])
BY DEF FlowInv, CallsOfPlan

LEMMA CreateRunFits ==
  ASSUME FlowInv, NEW w \in Workers, CreateRun(w) PROVE FlowInv'
<1>1. PlanFits'
  BY DEF FlowInv, PlanFits, CreateRun, Accepted
<1> QED
  BY <1>1, OneRow DEF CreateRun, record

LEMMA ClaimPlanFits ==
  ASSUME FlowInv, NEW w \in Workers, ClaimPlan(w) PROVE FlowInv'
<1> USE DEF ClaimPlan, record
<1>1. PlanFits'
  BY DEF FlowInv, PlanFits, Accepted
<1>2. Resumable(outputs)
  BY DEF FlowInv, RecordFits, Resumable
<1>3. PICK c : c = [IdleCall EXCEPT !.pc = "next", !.outs = outputs]
  OBVIOUS
<1>4. SetCall(w, c)
  BY <1>2, <1>3
<1>5. /\ DOMAIN c = CallFields /\ c.pc = "next" /\ c.outs = outputs /\ c.at = 1
      /\ c.ended = "none"
  BY <1>3 DEF IdleCall, CallFields
<1>6. Len(Order(depends)) \in Nat
  BY PlanOrder
<1>7. CallFits(w, c)'
  <2>1. outputs \in Outs /\ outputs' = outputs /\ depends' = depends
    BY DEF FlowInv, RecordFits
  <2> QED
    BY <1>5, <1>6, <2>1 DEF CallFits
<1> QED
  BY <1>1, <1>4, <1>7, OneCall

\* A call that goes on leaves the run's row alone.
LEMMA RowKept ==
  ASSUME FlowInv, NEW w \in Workers, UNCHANGED <<depends, run, record>>,
         NEW c, SetCall(w, c), CallFits(w, c)
  PROVE  FlowInv'
<1>1. UNCHANGED <<depends, planState, owner, alive, cancel, outputs, inputs>>
  BY DEF run, record
<1>2. PlanFits'
  BY <1>1 DEF FlowInv, PlanFits, Accepted
<1>3. CallFits(w, c)'
  BY <1>1 DEF CallFits, GivenOf, StepsDone
<1> QED
  BY <1>1, <1>2, <1>3, OneCall

LEMMA NextStepFits ==
  ASSUME FlowInv, NEW w \in Workers, NextStep(w) PROVE FlowInv'
<1>1. PICK c : c = call[w]
  OBVIOUS
<1>2. PICK q : q = Order(depends)
  OBVIOUS
<1>3. CallFits(w, c) /\ c.pc = "next" /\ UNCHANGED <<depends, run, record>>
  BY <1>1, CallOf DEF NextStep
<1>4. /\ DOMAIN c = CallFields
      /\ c.outs \in Outs
      /\ (planState = "running" /\ owner = w => c.outs = outputs)
      /\ c.at \in 1 .. Len(q) + 1
      /\ \A j \in 1 .. c.at - 1 : q[j] \in StepsDone(c.outs)
  BY <1>2, <1>3 DEF CallFits
<1>5. /\ Len(q) \in Nat
      /\ \A k \in 1 .. Len(q) : q[k] \in Steps
      /\ Steps = {q[k] : k \in 1 .. Len(q)}
  BY <1>2, PlanOrder
<1>6. \/ /\ c.at > Len(q)
         /\ SetCall(w, [c EXCEPT !.pc = "end", !.ended = "succeeded"])
      \/ /\ c.at <= Len(q)
         /\ SetCall(w, [c EXCEPT !.pc = "end", !.ended = "cancelled"])
      \/ /\ c.at <= Len(q)
         /\ SetCall(w, IF q[c.at] \in StepsDone(c.outs) THEN [c EXCEPT !.at = @ + 1]
                       ELSE [c EXCEPT !.pc = "executing", !.given = Given(w, q[c.at])])
  BY <1>1, <1>2 DEF NextStep, Replays
<1>7. CASE /\ c.at > Len(q)
           /\ SetCall(w, [c EXCEPT !.pc = "end", !.ended = "succeeded"])
  <2>1. PICK k : k = [c EXCEPT !.pc = "end", !.ended = "succeeded"]
    OBVIOUS
  <2>2. DOMAIN k = CallFields /\ k.pc = "end" /\ k.outs = c.outs
    BY <1>4, <2>1 DEF CallFields
  <2>3. c.at - 1 = Len(q)
    BY <1>4, <1>5, <1>7
  <2>4. StepsDone(c.outs) = Steps
    BY <1>4, <1>5, <2>3 DEF StepsDone
  <2>5. CallFits(w, k)
    BY <1>4, <2>2, <2>4 DEF CallFits
  <2> QED
    BY <1>3, <1>7, <2>1, <2>5, RowKept
<1>8. CASE /\ c.at <= Len(q)
           /\ SetCall(w, [c EXCEPT !.pc = "end", !.ended = "cancelled"])
  <2>1. PICK k : k = [c EXCEPT !.pc = "end", !.ended = "cancelled"]
    OBVIOUS
  <2>2. DOMAIN k = CallFields /\ k.pc = "end" /\ k.outs = c.outs /\ k.ended = "cancelled"
    BY <1>4, <2>1 DEF CallFields
  <2>3. CallFits(w, k)
    BY <1>4, <2>2 DEF CallFits
  <2> QED
    BY <1>3, <1>8, <2>1, <2>3, RowKept
<1>9. CASE c.at <= Len(q) /\ q[c.at] \in StepsDone(c.outs)
           /\ SetCall(w, [c EXCEPT !.at = @ + 1])
  <2>1. PICK k : k = [c EXCEPT !.at = @ + 1]
    OBVIOUS
  <2>2. /\ DOMAIN k = CallFields /\ k.pc = "next" /\ k.outs = c.outs
        /\ k.at = c.at + 1
    BY <1>3, <1>4, <2>1 DEF CallFields
  <2>3. k.at \in 1 .. Len(q) + 1
    BY <1>4, <1>5, <1>9, <2>2
  <2>4. \A j \in 1 .. k.at - 1 : j = c.at \/ j \in 1 .. c.at - 1
    BY <1>4, <1>5, <2>2
  <2>5. \A j \in 1 .. k.at - 1 : q[j] \in StepsDone(k.outs)
    BY <1>4, <1>9, <2>2, <2>4
  <2>6. CallFits(w, k)
    BY <1>2, <1>4, <2>2, <2>3, <2>5 DEF CallFits
  <2> QED
    BY <1>3, <1>9, <2>1, <2>6, RowKept
<1>10. CASE c.at <= Len(q) /\ q[c.at] \notin StepsDone(c.outs)
            /\ SetCall(w, [c EXCEPT !.pc = "executing", !.given = Given(w, q[c.at])])
  <2>1. Given(w, q[c.at]) = GivenOf(c.outs, q[c.at])
    BY <1>1 DEF Given, GivenOf
  <2>2. PICK g : g = GivenOf(c.outs, q[c.at])
    OBVIOUS
  <2>3. PICK k : k = [c EXCEPT !.pc = "executing", !.given = g]
    OBVIOUS
  <2>4. /\ DOMAIN k = CallFields /\ k.pc = "executing" /\ k.outs = c.outs
        /\ k.at = c.at /\ k.given = g
    BY <1>4, <2>3 DEF CallFields
  <2>5. c.at \in 1 .. Len(q)
    BY <1>4, <1>5, <1>10
  <2>6. CallFits(w, k)
    BY <1>2, <1>4, <1>10, <2>2, <2>4, <2>5 DEF CallFits
  <2> QED
    BY <1>3, <1>10, <2>1, <2>2, <2>3, <2>6, RowKept
<1> QED
  BY <1>6, <1>7, <1>8, <1>9, <1>10

LEMMA HeartbeatFits ==
  ASSUME FlowInv, NEW w \in Workers, Heartbeat(w) PROVE FlowInv'
<1>1. PICK c : c = call[w]
  OBVIOUS
<1>2. CallFits(w, c) /\ UNCHANGED <<depends, run, record>> /\ DOMAIN c = CallFields
  BY <1>1, CallOf DEF Heartbeat, CallFits
<1>3. \/ SetCall(w, [c EXCEPT !.heart = "lost"])
      \/ SetCall(w, [c EXCEPT !.heart = "stopped", !.noticed = TRUE])
  BY <1>1 DEF Heartbeat
<1>4. PICK k : /\ k \in {[c EXCEPT !.heart = "lost"],
                         [c EXCEPT !.heart = "stopped", !.noticed = TRUE]}
               /\ SetCall(w, k)
  BY <1>3
<1>5. /\ DOMAIN k = CallFields /\ k.pc = c.pc /\ k.at = c.at /\ k.outs = c.outs
      /\ k.given = c.given /\ k.ended = c.ended
  BY <1>2, <1>4 DEF CallFields
<1>6. CallFits(w, k)
  BY <1>2, <1>5 DEF CallFits
<1> QED
  BY <1>2, <1>4, <1>6, RowKept

\* A call that ends without success.
LEMMA EndsFits ==
  ASSUME FlowInv, NEW w \in Workers, NEW e, e # "succeeded",
         call[w].pc \in {"next", "executing", "end"},
         SetCall(w, [call[w] EXCEPT !.pc = "end", !.ended = e]),
         UNCHANGED <<depends, run, record>>
  PROVE  FlowInv'
<1>1. PICK c : c = call[w]
  OBVIOUS
<1>2. CallFits(w, c) /\ DOMAIN c = CallFields
  BY <1>1, CallOf DEF CallFits
<1>3. PICK k : k = [c EXCEPT !.pc = "end", !.ended = e]
  OBVIOUS
<1>4. DOMAIN k = CallFields /\ k.pc = "end" /\ k.outs = c.outs /\ k.ended = e
  BY <1>2, <1>3 DEF CallFields
<1>5. CallFits(w, k)
  BY <1>1, <1>2, <1>4 DEF CallFits
<1> QED
  BY <1>1, <1>3, <1>5, RowKept

LEMMA StepRaisesFits ==
  ASSUME FlowInv, NEW w \in Workers, StepRaises(w) PROVE FlowInv'
<1>1. PICK e \in {"failed", "cancelled"} :
        SetCall(w, [call[w] EXCEPT !.pc = "end", !.ended = e])
  BY DEF StepRaises
<1>2. call[w].pc = "executing" /\ UNCHANGED <<depends, run, record>>
  BY DEF StepRaises
<1> QED
  BY <1>1, <1>2, EndsFits

\* The owner of the run adds the output of the step it executes.
LEMMA SavesFits ==
  ASSUME FlowInv, NEW w \in Workers, StepReturns(w), Saves(w) PROVE FlowInv'
<1>1. PICK c : c = call[w]
  OBVIOUS
<1>2. PICK q : q = Order(depends)
  OBVIOUS
<1>3. PICK s : s = q[c.at]
  OBVIOUS
<1>4. /\ CallFits(w, c) /\ c.pc = "executing"
      /\ UNCHANGED <<depends, planState, owner, alive, cancel>>
      /\ planState = "running" /\ owner = w
  BY <1>1, CallOf DEF StepReturns, Saves, Holds, run
<1>5. PICK v \in Values :
        /\ outputs' = [c.outs EXCEPT ![s] = v]
        /\ inputs' = [inputs EXCEPT ![s] = c.given]
        /\ SetCall(w, [c EXCEPT !.pc = "next", !.at = @ + 1,
                                !.outs = outputs', !.given = NoOutputs])
  BY <1>1, <1>2, <1>3 DEF StepReturns
<1>6. /\ DOMAIN c = CallFields
      /\ c.outs \in Outs /\ c.outs = outputs
      /\ c.at \in 1 .. Len(q)
      /\ \A j \in 1 .. c.at - 1 : q[j] \in StepsDone(outputs)
      /\ s \notin StepsDone(outputs)
      /\ c.given = GivenOf(outputs, s)
  BY <1>2, <1>3, <1>4 DEF CallFits
<1>7. /\ Len(q) \in Nat /\ s \in Steps
      /\ \A d \in depends[s] : \E j \in 1 .. c.at - 1 : q[j] = d
  <2>1. /\ Len(q) \in Nat
        /\ \A k \in 1 .. Len(q) : q[k] \in Steps
        /\ \A k \in 1 .. Len(q) : \A d \in depends[q[k]] : \E j \in 1 .. k - 1 : q[j] = d
    BY <1>2, PlanOrder
  <2> QED
    BY <1>3, <1>6, <2>1
<1>8. s \notin depends[s] /\ depends[s] \subseteq StepsDone(outputs)
  BY <1>6, <1>7 DEF FlowInv, PlanFits, Accepted
<1>9. v # NoOutput /\ outputs' = [outputs EXCEPT ![s] = v] /\ outputs \in Outs
  BY <1>5, <1>6, NoOutputIsNoValue
<1>10. outputs' \in Outs /\ outputs'[s] = v
       /\ \A d \in Steps : d # s => outputs'[d] = outputs[d]
  BY <1>7, <1>9 DEF Outs
<1>11. PICK o : o = outputs'
  OBVIOUS
<1>12. StepsDone(o) = StepsDone(outputs) \cup {s}
  BY <1>7, <1>9, <1>10, <1>11 DEF StepsDone
<1>13. \A t \in Steps : s \notin depends[t] => GivenOf(o, t) = GivenOf(outputs, t)
  BY <1>10, <1>11 DEF GivenOf
<1>14. \A t \in StepsDone(outputs) :
         /\ t # s /\ t \in Steps
         /\ depends[t] \subseteq StepsDone(outputs)
         /\ inputs[t] = GivenOf(outputs, t)
  BY <1>6 DEF FlowInv, RecordFits, StepsDone
<1>15. /\ DOMAIN inputs' = Steps /\ inputs'[s] = c.given
       /\ \A t \in Steps : t # s => inputs'[t] = inputs[t]
  BY <1>5, <1>7 DEF FlowInv, RecordFits
<1>16. ASSUME NEW t \in StepsDone(o)
       PROVE  depends[t] \subseteq StepsDone(o) /\ inputs'[t] = GivenOf(o, t)
  <2>1. CASE t = s
    BY <1>6, <1>7, <1>8, <1>12, <1>13, <1>15, <2>1
  <2>2. CASE t # s
    <3>1. t \in StepsDone(outputs)
      BY <1>12, <1>16, <2>2
    <3>2. s \notin depends[t]
      BY <1>6, <1>14, <3>1
    <3> QED
      BY <1>12, <1>13, <1>14, <1>15, <3>1, <3>2
  <2> QED
    BY <2>1, <2>2
<1>17. RecordFits'
  BY <1>4, <1>10, <1>11, <1>15, <1>16 DEF RecordFits, GivenOf, StepsDone
<1>18. PlanFits'
  BY <1>4 DEF FlowInv, PlanFits, Accepted
<1>19. PICK k : k = [c EXCEPT !.pc = "next", !.at = @ + 1,
                              !.outs = o, !.given = NoOutputs]
  OBVIOUS
<1>20. /\ DOMAIN k = CallFields /\ k.pc = "next" /\ k.at = c.at + 1 /\ k.outs = o
  BY <1>6, <1>19 DEF CallFields
<1>21. CallFits(w, k)'
  <2>1. k.at \in 1 .. Len(q) + 1
    BY <1>6, <1>7, <1>20
  <2>2. \A j \in 1 .. k.at - 1 : j = c.at \/ j \in 1 .. c.at - 1
    BY <1>6, <1>7, <1>20
  <2>3. \A j \in 1 .. k.at - 1 : q[j] \in StepsDone(o)
    BY <1>3, <1>6, <1>12, <2>2
  <2>4. Order(depends') = q /\ o = outputs'
    BY <1>2, <1>4, <1>11
  <2>5. k.at \in 1 .. Len(Order(depends')) + 1
        /\ \A j \in 1 .. k.at - 1 : Order(depends')[j] \in StepsDone(k.outs)
    BY <1>20, <2>1, <2>3, <2>4
  <2> QED
    BY <1>10, <1>20, <2>4, <2>5 DEF CallFits, StepsDone
<1>22. /\ DOMAIN call' = Workers /\ call'[w] = k
       /\ \A u \in Workers : u # w => call'[u] = call[u]
  BY <1>5, <1>11, <1>19 DEF SetCall, FlowInv, CallsOfPlan
<1>23. CallsOfPlan'
  <2> SUFFICES ASSUME NEW u \in Workers PROVE CallFits(u, call[u])'
    BY <1>22 DEF CallsOfPlan
  <2>1. CASE u = w
    BY <1>21, <1>22, <2>1
  <2>2. CASE u # w
    <3>1. PICK d : d = call[u]
      OBVIOUS
    <3>2. CallFits(u, d) /\ call'[u] = d /\ owner' # u
      BY <1>4, <1>22, <2>2, <3>1, CallOf
    <3>3. CallFits(u, d)'
      BY <1>4, <3>2 DEF CallFits, GivenOf, StepsDone
    <3> QED
      BY <3>2, <3>3
  <2> QED
    BY <2>1, <2>2
<1> QED
  BY <1>17, <1>18, <1>23 DEF FlowInv

LEMMA StepReturnsFits ==
  ASSUME FlowInv, NEW w \in Workers, StepReturns(w) PROVE FlowInv'
<1>1. CASE Saves(w)
  BY <1>1, SavesFits
<1>2. CASE ~ Saves(w)
  <2>1. /\ call[w].pc = "executing"
        /\ SetCall(w, [call[w] EXCEPT !.pc = "end", !.ended = "failed"])
        /\ UNCHANGED <<depends, run, record>>
    BY <1>2 DEF StepReturns
  <2> QED
    BY <2>1, EndsFits
<1> QED
  BY <1>1, <1>2

\* A call that is over, and what it leaves of the run's row.
LEMMA Over ==
  ASSUME FlowInv, NEW w \in Workers, UNCHANGED <<depends, record>>,
         SetCall(w, IdleCall),
         \/ UNCHANGED run
         \/ \E s \in PlanEnds :
              SettleRun(s) /\ (s = "completed" => StepsDone(outputs) = Steps)
  PROVE  FlowInv'
<1>1. UNCHANGED <<depends, outputs, inputs>> /\ CallFits(w, IdleCall)'
  BY IdleFits DEF record
<1>2. CASE UNCHANGED run
  <2>1. UNCHANGED <<planState, owner, alive, cancel>>
    BY <1>2 DEF run
  <2>2. PlanFits'
    BY <1>1, <2>1 DEF FlowInv, PlanFits, Accepted
  <2> QED
    BY <1>1, <2>1, <2>2, OneCall
<1>3. ASSUME NEW s \in PlanEnds, SettleRun(s), s = "completed" => StepsDone(outputs) = Steps
      PROVE  FlowInv'
  <2>1. planState' = s /\ owner' = Nobody /\ alive' = FALSE /\ cancel' = cancel
    BY <1>3 DEF SettleRun
  <2>2. planState' # "running"
    BY <1>3, <2>1 DEF PlanEnds
  <2>3. PlanFits'
    BY <1>1, <1>3, <2>1 DEF FlowInv, PlanFits, Accepted
  <2> QED
    BY <1>1, <1>3, <2>1, <2>2, <2>3, OneCall
<1> QED
  BY <1>2, <1>3

LEMMA FinishCallFits ==
  ASSUME FlowInv, NEW w \in Workers, FinishCall(w) PROVE FlowInv'
<1>1. PICK c : c = call[w]
  OBVIOUS
<1>2. /\ CallFits(w, c) /\ c.pc = "end"
      /\ SetCall(w, IdleCall) /\ UNCHANGED <<depends, record>>
  BY <1>1, CallOf DEF FinishCall
<1>3. \/ UNCHANGED run
      \/ Holds(w) /\ SettleRun(IF c.ended = "succeeded" THEN "completed" ELSE "failed")
  BY <1>1 DEF FinishCall
<1>4. ASSUME Holds(w), c.ended = "succeeded" PROVE StepsDone(outputs) = Steps
  BY <1>2, <1>4 DEF CallFits, Holds
<1>5. \/ UNCHANGED run
      \/ \E s \in PlanEnds :
           SettleRun(s) /\ (s = "completed" => StepsDone(outputs) = Steps)
  BY <1>3, <1>4 DEF PlanEnds
<1> QED
  BY <1>2, <1>5, Over

LEMMA FinishCancelledFits ==
  ASSUME FlowInv, NEW w \in Workers, FinishCancelled(w) PROVE FlowInv'
<1>1. SetCall(w, IdleCall) /\ UNCHANGED <<depends, record>>
  BY DEF FinishCancelled
<1>2. UNCHANGED run \/ SettleRun("cancelled")
  BY DEF FinishCancelled
<1>3. "cancelled" \in PlanEnds
  BY DEF PlanEnds
<1> QED
  BY <1>1, <1>2, <1>3, Over

LEMMA CrashCallFits ==
  ASSUME FlowInv, NEW w \in Workers, CrashCall(w) PROVE FlowInv'
BY Over DEF CrashCall

LEMMA AskToCancelFits ==
  ASSUME FlowInv, NEW w \in Workers, AskToCancel(w) PROVE FlowInv'
<1>1. UNCHANGED <<depends, record>> /\ call[w].pc = "end"
  BY DEF AskToCancel
<1>2. CASE SetCall(w, IdleCall) /\ UNCHANGED run
  BY <1>1, <1>2, Over
<1>3. CASE /\ SetCall(w, [call[w] EXCEPT !.pc = "cancelling"])
           /\ cancel' = (cancel \/ planState = "running")
           /\ UNCHANGED <<planState, owner, alive>>
  <2>1. PICK k : k = [call[w] EXCEPT !.pc = "cancelling"]
    OBVIOUS
  <2>2. DOMAIN k = CallFields /\ k.pc = "cancelling"
    BY <2>1, CallOf DEF CallFits, CallFields
  <2>3. CallFits(w, k)'
    BY <2>2 DEF CallFits
  <2>4. UNCHANGED <<depends, outputs, inputs>>
    BY <1>1 DEF record
  <2>5. PlanFits'
    BY <1>3, <2>4 DEF FlowInv, PlanFits, Accepted
  <2> QED
    BY <1>3, <2>1, <2>3, <2>4, <2>5, OneCall
<1> QED
  BY <1>2, <1>3 DEF AskToCancel

LEMMA RequestCancelFits ==
  ASSUME FlowInv, RequestCancel PROVE FlowInv'
<1> USE DEF RequestCancel, record
<1>1. PlanFits'
  BY DEF FlowInv, PlanFits, Accepted, PlanEnds
<1> QED
  BY <1>1, OneRow

LEMMA ExpirePlanFits ==
  ASSUME FlowInv, ExpirePlan PROVE FlowInv'
<1> USE DEF ExpirePlan, record
<1>1. PlanFits'
  BY DEF FlowInv, PlanFits, Accepted
<1> QED
  BY <1>1, OneRow

LEMMA FlowStutter ==
  ASSUME FlowInv, UNCHANGED flowVars PROVE FlowInv'
<1> USE DEF flowVars, run, record
<1>1. PlanFits'
  BY DEF FlowInv, PlanFits, Accepted
<1> QED
  BY <1>1, OneRow

LEMMA FlowInvNext ==
  ASSUME FlowInv, [FlowNext]_flowVars PROVE FlowInv'
<1>1. ASSUME NEW w \in Workers,
             \/ CreateRun(w) \/ ClaimPlan(w) \/ Heartbeat(w) \/ Advances(w) \/ CrashCall(w)
      PROVE  FlowInv'
  <2>1. CASE CreateRun(w)
    BY <2>1, CreateRunFits
  <2>2. CASE ClaimPlan(w)
    BY <2>2, ClaimPlanFits
  <2>3. CASE Heartbeat(w)
    BY <2>3, HeartbeatFits
  <2>4. CASE CrashCall(w)
    BY <2>4, CrashCallFits
  <2>5. CASE NextStep(w)
    BY <2>5, NextStepFits
  <2>6. CASE StepReturns(w)
    BY <2>6, StepReturnsFits
  <2>7. CASE StepRaises(w)
    BY <2>7, StepRaisesFits
  <2>8. CASE FinishCall(w)
    BY <2>8, FinishCallFits
  <2>9. CASE AskToCancel(w)
    BY <2>9, AskToCancelFits
  <2>10. CASE FinishCancelled(w)
    BY <2>10, FinishCancelledFits
  <2> QED
    BY <1>1, <2>1, <2>2, <2>3, <2>4, <2>5, <2>6, <2>7, <2>8, <2>9, <2>10 DEF Advances
<1>2. CASE RequestCancel
  BY <1>2, RequestCancelFits
<1>3. CASE ExpirePlan
  BY <1>3, ExpirePlanFits
<1>4. CASE UNCHANGED flowVars
  BY <1>4, FlowStutter
<1> QED
  BY <1>1, <1>2, <1>3, <1>4 DEF FlowNext

LEMMA FlowInvIsSound == ASSUME FlowInv PROVE ResumesSoundly
<1>1. FlowTypeOK
  BY DEF FlowInv, PlanFits, RecordFits, CallsOfPlan, CallFits, FlowTypeOK, Outs
<1>2. ASSUME NEW s \in StepsDone(outputs)
      PROVE  /\ depends[s] \subseteq StepsDone(outputs)
             /\ \A d \in Steps :
                  inputs[s][d] = IF d \in depends[s] THEN outputs[d] ELSE NoOutput
  BY DEF FlowInv, RecordFits, GivenOf
<1>3. OutputsFitTogether
  BY <1>1, <1>2 DEF OutputsFitTogether, FlowInv, RecordFits
<1>4. NoStepDoneTwice
  BY CallOf DEF NoStepDoneTwice, Holds, CallFits
<1> QED
  BY <1>3, <1>4 DEF ResumesSoundly

\* A workflow can be resumed from its checkpoint and does nothing again:
\* whatever plan the compiler accepts, however often its calls (execute_workflow)
\* crash, lose their lease or are cancelled, what they record fits together, a
\* completed run has every step, and no owner executes a step that is recorded.
THEOREM WorkflowResumesSoundly == FlowSpec => []ResumesSoundly
<1>1. FlowInit => FlowInv
  BY FlowInvInit
<1>2. FlowInv /\ [FlowNext]_flowVars => FlowInv'
  BY FlowInvNext
<1>3. FlowInv => ResumesSoundly
  BY FlowInvIsSound
<1> QED
  BY <1>1, <1>2, <1>3, PTL DEF FlowSpec
=============================================================================
