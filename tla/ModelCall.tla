----------------------------- MODULE ModelCall -----------------------------
(***************************************************************************)
(* LLMHarness (lipas/harness.py) with call_with_retry (lipas/retry.py):    *)
(* the coroutines of one process that call a model under one claim tape    *)
(* and one budget.  A call looks for what the tape has of its effect id,   *)
(* estimates, asks the guards, writes its intent, and drives the provider  *)
(* through retries; each attempt, the result and the spend are claims of   *)
(* their own.  Only awaits let another coroutine run; a crash may come     *)
(* between any two claims.                                                 *)
(***************************************************************************)
EXTENDS Integers, FiniteSets, FiniteSetsExt, Sequences, SequencesExt

CONSTANTS
  ModelCallers,      \* coroutines
  Effects,           \* effect ids
  Unasked,
  Budget,            \* what the one bucket holds
  Estimates,         \* what an adapter may estimate a call to need at most
  Usages,            \* what an attempt may be billed
  MaxModelAttempts,  \* max_attempts of a retryable error
  MaxModelFaults     \* crashes and cancellations, at most

ASSUME EffectsAreCounted ==
  /\ IsFiniteSet(Effects)
  /\ Budget \in Nat /\ Estimates \subseteq Nat /\ Usages \subseteq Nat

VARIABLES
  effectIntents,  \* effects with an effect_intent
  llmAttempts,    \* effect -> the usages of its llm_attempt claims
  results,        \* effect -> usage of its effect_result, or Unrecorded
  rejected,
  spent,          \* effect -> its resource_spent, or Unrecorded
  overrun,        \* effect -> its budget_overrun, or Unrecorded
  reconciled,     \* effects whose result an operator supplied (history)
  submitters,     \* effect -> the callers that submitted it (history)
  repeated,       \* effects retried after partial output was shown (history)
  answeredFor,    \* effects whose reply was returned to a caller (history)
  calling,        \* what each coroutine is doing
  modelFaults

claimTape == <<effectIntents, llmAttempts, results, rejected, spent, overrun>>
callHistory == <<reconciled, submitters, repeated, answeredFor>>
modelVars == <<claimTape, callHistory, calling, modelFaults>>

Unrecorded == -1
Total(usages) == FoldLeft(+, 0, usages)
Amounts(ledger) ==
  MapThenSumSet(LAMBDA e : IF ledger[e] = Unrecorded THEN 0 ELSE ledger[e], Effects)

IdleCaller == [pc |-> "idle", effect |-> Unasked, stream |-> FALSE,
               usage |-> 0, made |-> 0]

ModelInit ==
  /\ effectIntents = {}
  /\ llmAttempts = [e \in Effects |-> <<>>]
  /\ results = [e \in Effects |-> Unrecorded]
  /\ rejected = {}
  /\ spent = [e \in Effects |-> Unrecorded]
  /\ overrun = [e \in Effects |-> Unrecorded]
  /\ reconciled = {} /\ repeated = {} /\ answeredFor = {}
  /\ submitters = [e \in Effects |-> {}]
  /\ calling = [c \in ModelCallers |-> IdleCaller]
  /\ modelFaults = 0

SetCaller(c, v) == calling' = [calling EXCEPT ![c] = v]

-----------------------------------------------------------------------------
(* Accounting *)

Overruns(amount) == Amounts(spent) + amount > Budget

\* _fold_spend: nothing for nothing, nothing twice, and what exceeds the
\* budget is recorded as an overrun instead.
Spend(e, amount) ==
  IF amount = 0 \/ spent[e] # Unrecorded \/ overrun[e] # Unrecorded
  THEN UNCHANGED <<spent, overrun>>
  ELSE IF Overruns(amount)
       THEN overrun' = [overrun EXCEPT ![e] = amount] /\ UNCHANGED spent
       ELSE spent' = [spent EXCEPT ![e] = amount] /\ UNCHANGED overrun

\* A crash takes every coroutine of the process with it.
Crashes ==
  /\ modelFaults < MaxModelFaults
  /\ modelFaults' = modelFaults + 1
  /\ calling' = [c \in ModelCallers |-> IdleCaller]

-----------------------------------------------------------------------------
(* Before the provider *)

\* _recover_existing completes the spend of a result it finds.
Recovered(e) == Spend(e, results[e])

\* call: a terminal outcome is returned without a submission; an intent
\* without one is an error; else the estimate is awaited.  A stream's effect
\* id is new.
Begin(c, e, stream) ==
  /\ calling[c].pc = "idle"
  /\ stream => e \notin effectIntents /\ \A d \in ModelCallers : calling[d].effect # e
  /\ \/ /\ results[e] # Unrecorded
        /\ Recovered(e)
        /\ answeredFor' = answeredFor \cup {e}
        /\ UNCHANGED calling
     \/ /\ results[e] = Unrecorded /\ e \notin effectIntents
        /\ SetCaller(c, [IdleCaller EXCEPT !.pc = "estimate", !.effect = e,
                                           !.stream = stream])
        /\ UNCHANGED <<spent, overrun, answeredFor>>
  /\ UNCHANGED <<effectIntents, llmAttempts, results, rejected, reconciled,
                 submitters, repeated, modelFaults>>

\* Mutant: an intent of this id that came meanwhile is accepted.
Intended_Again(e) == FALSE

\* The row refuses a second intent of an effect id.
Intended(e) == e \in effectIntents

\* _record_rejection: two claims, and a crash may come between them.
RecordRejection(c) ==
  LET e == calling[c].effect IN
  /\ effectIntents' = effectIntents \cup {e}
  /\ \/ rejected' = rejected \cup {e} /\ SetCaller(c, IdleCaller) /\ UNCHANGED modelFaults
     \/ Crashes /\ UNCHANGED rejected
  /\ UNCHANGED <<llmAttempts, results, spent, overrun, callHistory>>

\* What a claim the row refuses raises to the caller.
Raises(c) ==
  SetCaller(c, IdleCaller) /\ UNCHANGED <<claimTape, callHistory, modelFaults>>

\* The estimate has come; only what is spent by now counts.
CheckBudget(c) ==
  /\ calling[c].pc = "estimate"
  /\ \E estimate \in Estimates :
       IF Amounts(spent) + estimate > Budget
       THEN IF Intended(calling[c].effect) THEN Raises(c) ELSE RecordRejection(c)
       ELSE /\ SetCaller(c, [calling[c] EXCEPT !.pc = "guards"])
            /\ UNCHANGED <<claimTape, callHistory, modelFaults>>

\* The guards have answered; an admitted call writes its intent and submits.
CheckGuards(c) ==
  LET e == calling[c].effect IN
  /\ calling[c].pc = "guards"
  /\ IF Intended(e) THEN Raises(c)
     ELSE \/ RecordRejection(c)
          \/ /\ effectIntents' = effectIntents \cup {e}
             /\ submitters' = [submitters EXCEPT ![e] = @ \cup {c}]
             /\ SetCaller(c, [calling[c] EXCEPT !.pc = "submitted"])
             /\ UNCHANGED <<llmAttempts, results, rejected, spent, overrun,
                            reconciled, repeated, answeredFor, modelFaults>>

-----------------------------------------------------------------------------
(* The provider *)

\* A retryable error is retried unless an event of the attempt was exposed;
\* stream() never retries.
MayRetry(c, shown) ==
  /\ ~calling[c].stream
  /\ ~shown
  /\ calling[c].made + 1 < MaxModelAttempts

\* llm_attempt; stream() writes none.
RecordAttempt(c, usage) ==
  llmAttempts' = IF calling[c].stream THEN llmAttempts
                 ELSE [llmAttempts EXCEPT ![calling[c].effect] = Append(@, usage)]

Submitted(c) == calling[c].pc = "submitted"

\* A retryable failure: the attempt is recorded and the call waits.
AttemptFails(c, usage) ==
  /\ Submitted(c)
  /\ \E shown \in BOOLEAN :
       /\ MayRetry(c, shown)
       /\ repeated' = IF shown THEN repeated \cup {calling[c].effect} ELSE repeated
  /\ RecordAttempt(c, usage)
  /\ SetCaller(c, [calling[c] EXCEPT !.pc = "waiting", !.made = @ + 1,
                                    !.usage = @ + usage])
  /\ UNCHANGED <<effectIntents, results, rejected, spent, overrun, reconciled,
                 submitters, answeredFor, modelFaults>>

Retry(c) ==
  /\ calling[c].pc = "waiting"
  /\ SetCaller(c, [calling[c] EXCEPT !.pc = "submitted"])
  /\ UNCHANGED <<claimTape, callHistory, modelFaults>>

\* Every attempt's usage is billed.
Billed(c, usage) == calling[c].usage + usage

\* The last attempt: the attempt, the result and the spend are written, or
\* some of them before a crash.  A result that an operator recorded meanwhile
\* makes the row refuse this one.
LastAttempt(c, usage) ==
  LET e == calling[c].effect
      total == Billed(c, usage) IN
  /\ Submitted(c)
  /\ RecordAttempt(c, usage)
  /\ \/ /\ results[e] = Unrecorded
        /\ results' = [results EXCEPT ![e] = total]
        /\ \/ /\ Spend(e, total)
              /\ SetCaller(c, IdleCaller)
              /\ answeredFor' = answeredFor \cup {e}
              /\ UNCHANGED modelFaults
           \/ Crashes /\ UNCHANGED <<spent, overrun, answeredFor>>
     \/ /\ results[e] # Unrecorded
        /\ SetCaller(c, IdleCaller)
        /\ UNCHANGED <<results, spent, overrun, answeredFor, modelFaults>>
     \/ Crashes /\ UNCHANGED <<results, spent, overrun, answeredFor>>
  /\ UNCHANGED <<effectIntents, rejected, reconciled, submitters, repeated>>

\* The task is cancelled, or the reader of a stream stops reading: an intent
\* stays without an outcome.
Cancelled(c) ==
  /\ calling[c].pc # "idle"
  /\ modelFaults < MaxModelFaults
  /\ modelFaults' = modelFaults + 1
  /\ SetCaller(c, IdleCaller)
  /\ UNCHANGED <<claimTape, callHistory>>

ModelCrash == Crashes /\ UNCHANGED <<claimTape, callHistory>>

\* reconcile_orphan: the operator's account of what the provider did becomes
\* the result.  Whether the call is still running is not asked.
ReconcileOrphan(e, usage) ==
  /\ e \in effectIntents
  /\ results[e] = Unrecorded
  /\ e \notin rejected
  /\ results' = [results EXCEPT ![e] = usage]
  /\ reconciled' = reconciled \cup {e}
  /\ \/ Spend(e, usage) /\ UNCHANGED <<calling, modelFaults>>
     \/ Crashes /\ UNCHANGED <<spent, overrun>>
  /\ UNCHANGED <<effectIntents, llmAttempts, rejected, submitters, repeated,
                 answeredFor>>

ModelNext ==
  \/ \E c \in ModelCallers :
       \/ \E e \in Effects, stream \in BOOLEAN : Begin(c, e, stream)
       \/ CheckBudget(c) \/ CheckGuards(c) \/ Retry(c) \/ Cancelled(c)
       \/ \E u \in Usages : AttemptFails(c, u) \/ LastAttempt(c, u)
  \/ \E e \in Effects, u \in Usages : ReconcileOrphan(e, u)
  \/ ModelCrash

ModelSpec == ModelInit /\ [][ModelNext]_modelVars

-----------------------------------------------------------------------------
\* A model call is submitted by one caller only, however many ask for its
\* effect id at once or again, it is not repeated once its partial output was
\* shown, and a rejected call has no outcome.
SubmittedByOne ==
  /\ \A e \in Effects :
       /\ Cardinality(submitters[e]) <= 1
       /\ e \in rejected => submitters[e] = {} /\ results[e] = Unrecorded
  /\ repeated = {}

\* The ledger never exceeds its limit; a reply that was returned is accounted
\* for, once and with what all of its attempts were billed, also when a crash
\* came before the spend; only an operator's account may differ from the
\* recorded attempts.
ModelSpendAccounted ==
  /\ Amounts(spent) <= Budget
  /\ \A e \in Effects :
       /\ spent[e] = Unrecorded \/ overrun[e] = Unrecorded
       /\ \A ledger \in {spent, overrun} : ledger[e] \in {Unrecorded, results[e]}
       /\ e \in answeredFor /\ results[e] > 0 => spent[e] # Unrecorded \/ overrun[e] # Unrecorded
       /\ results[e] # Unrecorded /\ e \notin reconciled /\ llmAttempts[e] # <<>>
            => results[e] = Total(llmAttempts[e])

\* The tape, the ledger and the callers agree on every model call.
ModelCallsSound == SubmittedByOne /\ ModelSpendAccounted
=============================================================================
