----------------------------- MODULE EffectTape -----------------------------
(***************************************************************************)
(* How ToolHarness (lipas/tool_harness.py) performs an Effect: recover it  *)
(* from the tape, or pass the guards and the budget, record the intent,    *)
(* execute the tool, record the result and record the spend.  LLMHarness   *)
(* (lipas/harness.py) goes the same way for a model call.                  *)
(*                                                                         *)
(* Every claim passes RowSet.fold (lipas/rows/base.py): the rows check     *)
(* their invariants (rows/effect.py, rows/capability.py) against what is   *)
(* in the database, and then the store commits the claim in a transaction. *)
(* The calls of one process share an event loop, which a call leaves only  *)
(* where it awaits a guard or the tool; the processes of a workspace share *)
(* only the database, so that a step of another process may come between   *)
(* any two steps here.  One budget bucket is modelled.                     *)
(***************************************************************************)
EXTENDS Integers, Sequences, FiniteSetsExt

CONSTANTS
  Processes, Effects,
  Calls,         \* calls of ToolHarness.call
  Reconcilers,   \* calls of ToolHarness.reconcile_orphan
  EffectOf,      \* the effect id a call names
  Estimate,      \* what the tool's estimate declares, per effect
  Spends,        \* what an execution may really spend
  Limit,         \* the budget of the bucket
  MaxCrashes,    \* bound on process crashes
  NoCall

AllCalls == Calls \cup Reconcilers

ASSUME TapeAssumption ==
  /\ Calls \cap Reconcilers = {} /\ NoCall \notin AllCalls
  /\ EffectOf \in [AllCalls -> Effects] /\ IsFiniteSet(Effects)
  /\ Estimate \in [Effects -> Nat] /\ Spends \subseteq Nat \ {0}
  /\ {Limit, MaxCrashes} \subseteq Nat

VARIABLES
  \* the claims on the tape
  intents,    \* how many intents, per effect
  results,    \* the results of an effect, in tape order
  rejected,   \* the effects with a rejection
  ledger,     \* the claim under the effect's spend id
  \* in memory
  home,       \* the process a call is made in
  running,    \* the call in the event loop of a process
  pc,
  outcome,    \* status and spend a call is recording or returning
  seen,       \* the ledgered total a call projected before spending
  \* history and bound
  live,       \* how often the tool was executed, per effect
  crashes

tape == <<intents, results, rejected, ledger>>
vars == <<tape, home, running, pc, outcome, seen, live, crashes>>

Statuses == {"ok", "error"}
Outcomes == [status : Statuses, spend : Spends]
NoOutcome == [status |-> "none", spend |-> 0]
NoSpend == [tag |-> "none", amount |-> 0]
Spent == [tag : {"resource_spent", "budget_overrun"}, amount : Spends]

\* Where a call awaits, where it has ended, where it holds the event loop.
Awaiting == {"guards", "live"}
Ended == {"answered", "refused", "raised"}
Holding == {"admit", "admitting", "reject", "rejecting", "refuse", "refusing",
            "result", "recording", "spend", "spending", "resource_spent",
            "budget_overrun"}

Init ==
  /\ intents = [e \in Effects |-> 0]
  /\ results = [e \in Effects |-> <<>>]
  /\ rejected = {}
  /\ ledger = [e \in Effects |-> NoSpend]
  /\ home \in [AllCalls -> Processes]
  /\ running = [p \in Processes |-> NoCall]
  /\ pc = [c \in AllCalls |-> "new"]
  /\ outcome = [c \in AllCalls |-> NoOutcome]
  /\ seen = [c \in AllCalls |-> 0]
  /\ live = [e \in Effects |-> 0]
  /\ crashes = 0

-----------------------------------------------------------------------------
(* The event loop *)

\* The event loop of p can resume a call.
Free(p) == running[p] = NoCall

\* c takes its next step, and keeps the event loop until it awaits or ends.
Goto(c, p) ==
  /\ pc' = [pc EXCEPT ![c] = p]
  /\ running' = [running EXCEPT ![home[c]] = IF p \in Holding THEN c ELSE NoCall]

\* c resumes at an await, or starts.
Resumes(c, at) == pc[c] = at /\ Free(home[c])

\* CapabilityRow.project: what is on the ledger, overruns left out.
LedgerTotal ==
  MapThenSumSet(LAMBDA e : IF ledger[e].tag = "resource_spent"
                           THEN ledger[e].amount ELSE 0, Effects)

\* The budget comparison of the pre-flight, of _fold_spend and of CapabilityRow.
Exceeds(total, amount) == total + amount > Limit

-----------------------------------------------------------------------------
(* Recovery and pre-flight *)

\* Mutant: a recorded result is returned as it is.
Recovered_Plain(e) ==
  IF results[e] # <<>> THEN "answered"
  ELSE IF e \in rejected THEN "refused" ELSE "raised"

\* _recover_existing: the spend of a recorded result is repaired before it is
\* returned; an intent without an outcome raises OrphanedEffectError.
Recovered(e) ==
  IF results[e] # <<>> THEN "spend"
  ELSE IF e \in rejected THEN "refused" ELSE "raised"

Start(c) ==
  LET e == EffectOf[c] IN
  /\ c \in Calls
  /\ Resumes(c, "new")
  /\ IF intents[e] > 0
     THEN /\ Goto(c, Recovered(e))
          /\ outcome' = [outcome EXCEPT ![c] =
                           IF results[e] # <<>> THEN Head(results[e]) ELSE NoOutcome]
     \* an unknown tool, a denied admission or a schema violation: reject
     ELSE /\ \E p \in {"guards", "reject"} : Goto(c, p)
          /\ UNCHANGED outcome
  /\ UNCHANGED <<tape, seen, live, crashes>>

\* The guards have decided; the budget pre-flight follows without an await.
Guarded(c) ==
  /\ Resumes(c, "guards")
  /\ \/ Goto(c, "reject")
     \/ /\ ~Exceeds(LedgerTotal, Estimate[EffectOf[c]])
        /\ Goto(c, "admit")
  /\ UNCHANGED <<tape, outcome, seen, live, crashes>>

-----------------------------------------------------------------------------
(* Folding the intent and the rejection *)

\* Mutant: only a terminal effect refuses a second intent.
Duplicate_Terminal(e) == results[e] # <<>> \/ e \in rejected

\* EffectRow refuses a second intent of one effect id.
Duplicate(e) == intents[e] > 0

\* Mutant: a rejection alone closes an effect.
Closed_Rejected(e) == e \in rejected

\* EffectRow refuses a second terminal claim.
Closed(e) == results[e] # <<>> \/ e \in rejected

\* RowSet.fold, first half: the rows check the claim; a violation raises.
CheckIntent(c) ==
  /\ pc[c] \in {"admit", "reject"}
  /\ Goto(c, IF Duplicate(EffectOf[c]) THEN "raised"
             ELSE IF pc[c] = "admit" THEN "admitting" ELSE "rejecting")
  /\ UNCHANGED <<tape, outcome, seen, live, crashes>>

\* Second half: the store commits it.  An admitted call executes its tool.
CommitIntent(c) ==
  LET e == EffectOf[c] IN
  /\ pc[c] \in {"admitting", "rejecting"}
  /\ intents' = [intents EXCEPT ![e] = @ + 1]
  /\ IF pc[c] = "admitting"
     THEN Goto(c, "live") /\ live' = [live EXCEPT ![e] = @ + 1]
     ELSE Goto(c, "refuse") /\ UNCHANGED live
  /\ UNCHANGED <<results, rejected, ledger, outcome, seen, crashes>>

CheckRejection(c) ==
  /\ pc[c] = "refuse"
  /\ Goto(c, IF Closed(EffectOf[c]) THEN "raised" ELSE "refusing")
  /\ UNCHANGED <<tape, outcome, seen, live, crashes>>

CommitRejection(c) ==
  /\ pc[c] = "refusing"
  /\ rejected' = rejected \cup {EffectOf[c]}
  /\ Goto(c, "refused")
  /\ UNCHANGED <<intents, results, ledger, outcome, seen, live, crashes>>

-----------------------------------------------------------------------------
(* The result *)

\* The tool returns or raises (an output that cannot be recorded is an error).
Finish(c) ==
  /\ Resumes(c, "live")
  /\ \E o \in Outcomes : outcome' = [outcome EXCEPT ![c] = o]
  /\ Goto(c, "result")
  /\ UNCHANGED <<tape, seen, live, crashes>>

\* The caller is cancelled at an await: nothing more is recorded.
Cancelled(c) ==
  /\ \E at \in Awaiting : Resumes(c, at)
  /\ Goto(c, "raised")
  /\ UNCHANGED <<tape, outcome, seen, live, crashes>>

\* reconcile_orphan: the observed outcome closes an intent without one.
Reconcile(c) ==
  LET e == EffectOf[c] IN
  /\ c \in Reconcilers
  /\ Resumes(c, "new")
  /\ IF intents[e] = 0 \/ Closed(e)
     THEN Goto(c, IF intents[e] = 0 THEN "raised" ELSE "refused") /\ UNCHANGED outcome
     ELSE /\ \E o \in Outcomes : outcome' = [outcome EXCEPT ![c] = o]
          /\ Goto(c, "result")
  /\ UNCHANGED <<tape, seen, live, crashes>>

CheckResult(c) ==
  /\ pc[c] = "result"
  /\ Goto(c, IF Closed(EffectOf[c]) THEN "raised" ELSE "recording")
  /\ UNCHANGED <<tape, outcome, seen, live, crashes>>

CommitResult(c) ==
  /\ pc[c] = "recording"
  /\ results' = [results EXCEPT ![EffectOf[c]] = Append(@, outcome[c])]
  /\ Goto(c, "spend")
  /\ UNCHANGED <<intents, rejected, ledger, outcome, seen, live, crashes>>

-----------------------------------------------------------------------------
(* The spend *)

\* _fold_spend projects the capability row once.
ProjectSpend(c) ==
  /\ pc[c] = "spend"
  /\ seen' = [seen EXCEPT ![c] = LedgerTotal]
  /\ Goto(c, "spending")
  /\ UNCHANGED <<tape, outcome, live, crashes>>

\* A recorded spend is kept; an overrun is recorded off the ledger, the rest
\* on it, where CapabilityRow compares once more.
CheckSpend(c) ==
  LET amount == outcome[c].spend IN
  /\ pc[c] = "spending"
  /\ Goto(c, IF ledger[EffectOf[c]] # NoSpend THEN "answered"
             ELSE IF Exceeds(seen[c], amount) THEN "budget_overrun"
             ELSE IF Exceeds(LedgerTotal, amount) THEN "raised"
             ELSE "resource_spent")
  /\ UNCHANGED <<tape, outcome, seen, live, crashes>>

\* The store commits one claim per spend id; another payload is a conflict.
CommitSpend(c) ==
  LET e == EffectOf[c]
      claim == [tag |-> pc[c], amount |-> outcome[c].spend]
  IN
  /\ pc[c] \in {"resource_spent", "budget_overrun"}
  /\ IF ledger[e] \in {NoSpend, claim}
     THEN ledger' = [ledger EXCEPT ![e] = claim] /\ Goto(c, "answered")
     ELSE Goto(c, "raised") /\ UNCHANGED ledger
  /\ UNCHANGED <<intents, results, rejected, outcome, seen, live, crashes>>

-----------------------------------------------------------------------------

\* A process stops: its calls end where they are.
Crash(p) ==
  /\ crashes < MaxCrashes
  /\ crashes' = crashes + 1
  /\ pc' = [c \in AllCalls |-> IF home[c] = p /\ pc[c] \in Awaiting \cup Holding
                               THEN "raised" ELSE pc[c]]
  /\ running' = [running EXCEPT ![p] = NoCall]
  /\ UNCHANGED <<tape, outcome, seen, live>>

Step(c) ==
  \/ Start(c) \/ Guarded(c) \/ CheckIntent(c) \/ CommitIntent(c)
  \/ CheckRejection(c) \/ CommitRejection(c)
  \/ Finish(c) \/ Cancelled(c) \/ Reconcile(c)
  \/ CheckResult(c) \/ CommitResult(c)
  \/ ProjectSpend(c) \/ CheckSpend(c) \/ CommitSpend(c)

Next ==
  /\ (\E c \in AllCalls : Step(c)) \/ \E p \in Processes : Crash(p)
  /\ UNCHANGED home

Spec == Init /\ [][Next]_vars

-----------------------------------------------------------------------------
(* Properties *)

\* Every variable has its type; exactly the call in a process's event loop is
\* at a point where it holds that loop.
TypeOK ==
  /\ intents \in [Effects -> Nat] /\ live \in [Effects -> Nat]
  /\ results \in [Effects -> Seq(Outcomes)]
  /\ rejected \subseteq Effects
  /\ ledger \in [Effects -> Spent \cup {NoSpend}]
  /\ home \in [AllCalls -> Processes]
  /\ pc \in [AllCalls -> {"new"} \cup Awaiting \cup Holding \cup Ended]
  /\ outcome \in [AllCalls -> Outcomes \cup {NoOutcome}]
  /\ seen \in [AllCalls -> Nat]
  /\ crashes \in 0 .. MaxCrashes
  /\ \A c \in AllCalls : pc[c] \in Holding <=> running[home[c]] = c

\* All calls share one event loop.
OneLoop == \A c, d \in AllCalls : home[c] = home[d]

\* Among the calls of one process - concurrent calls, retries after a crash or
\* a cancellation, an operator's reconciliation - a tool is executed at most
\* once for one effect id, and never for an effect the tape says was rejected.
ExecutedOnce ==
  OneLoop => \A e \in Effects : live[e] <= 1 /\ (e \in rejected => live[e] = 0)

\* Whoever gets an answer gets the recorded one: when, in one process, the
\* tool's own answer and a reconciliation race, the tape decides for both.
AnswersAgree ==
  OneLoop => \A c \in AllCalls :
               pc[c] = "answered" => outcome[c] = Head(results[EffectOf[c]])

\* A call that returns a result has seen to it that what the execution spent is
\* on record, whoever executed it and wherever the executing process stopped;
\* this holds across processes too.
AnsweredIsAccounted ==
  \A c \in AllCalls :
    pc[c] = "answered" =>
      /\ results[EffectOf[c]] # <<>>
      /\ \E i \in DOMAIN results[EffectOf[c]] :
           ledger[EffectOf[c]].amount = results[EffectOf[c]][i].spend

\* rows/capability.py: spent <= limit remains a hard invariant, whatever the
\* executions really spent.
LedgerWithinLimit == LedgerTotal <= Limit

\* So it is as long as one process spends.
OneProcessWithinLimit == OneLoop => LedgerWithinLimit

\* The budget's ledger: every answered call is in it, and it keeps its limit.
SpendAccounted == TypeOK /\ AnsweredIsAccounted /\ OneProcessWithinLimit
=============================================================================
