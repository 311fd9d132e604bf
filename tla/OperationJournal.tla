-------------------------- MODULE OperationJournal --------------------------
(***************************************************************************)
(* The journal of provider-idempotent external writes                      *)
(* (lipas/operations.py), with the callers of execute(), the reconcilers   *)
(* of reconcile() / reconcile_pending(), and the provider they talk to.    *)
(*                                                                         *)
(* A journal method reads the row, then runs a conditional UPDATE in one   *)
(* BEGIN IMMEDIATE transaction; a refused update raises and changes        *)
(* nothing, so the read and the update are one action here.  The provider  *)
(* call and the reconciler's lookup happen between transactions.           *)
(***************************************************************************)
EXTENDS Naturals, FiniteSets

CONSTANTS
  Keys,           \* idempotency keys
  ProviderIds,    \* provider_request_id values
  Callers,        \* processes calling execute()
  Inquirers,    \* processes calling reconcile() or reconcile_pending()
  NoKey, NoId

VARIABLES
  row,         \* operations.state, "none" before the insert
  providerId,  \* operations.provider_request_id
  outbox,      \* operation_audit_events: pairs <<key, state it reached>>
  stage,          \* where each caller is in execute()
  key,         \* the key it executes
  looking,     \* where each reconciler is
  lookKey,     \* the key it reconciles
  submissions, \* history: provider calls made, per provider id
  early,       \* history: the keys looked up while their row was pending
  applied      \* external: the keys whose write the provider applied

callVars == <<stage, key>>
lookVars == <<looking, lookKey, early>>
journalVars == <<row, providerId, outbox, callVars, lookVars, submissions, applied>>

Terminal == {"succeeded", "failed"}
Recoverable == {"pending", "uncertain"}

\* _transition: the states its UPDATE accepts for a target.
AllowedFrom(target) == IF target = "uncertain" THEN {"pending"} ELSE Recoverable

\* Mutant: the UPDATE has no condition on the state.
Transition_Unconditional(k, target) ==
  IF row[k] # "none" /\ row[k] # target
  THEN /\ row' = [row EXCEPT ![k] = target]
       /\ outbox' = outbox \cup {<<k, target>>}
  ELSE UNCHANGED <<row, outbox>>

\* The conditional UPDATE with its event; otherwise the call raises, or
\* returns the same outcome recorded before, and nothing changes.
Transition(k, target) ==
  IF row[k] \in AllowedFrom(target)
  THEN /\ row' = [row EXCEPT ![k] = target]
       /\ outbox' = outbox \cup {<<k, target>>}
  ELSE UNCHANGED <<row, outbox>>

-----------------------------------------------------------------------------
JournalInit ==
  /\ row = [k \in Keys |-> "none"]
  /\ providerId = [k \in Keys |-> NoId]
  /\ outbox = {}
  /\ stage = [c \in Callers |-> "idle"]
  /\ key = [c \in Callers |-> NoKey]
  /\ looking = [r \in Inquirers |-> "idle"]
  /\ lookKey = [r \in Inquirers |-> NoKey]
  /\ early = {}
  /\ submissions = [p \in ProviderIds |-> 0]
  /\ applied = {}

-----------------------------------------------------------------------------
(* execute() *)

\* Mutant: the provider identity is not checked against the other rows.
Preparable_AnyId(k, p) == row[k] = "none"

\* The INSERT that makes the caller the owner of the submission.  A key that
\* has a row, or a provider id bound to another key, is refused with no change:
\* execute then returns the recorded success or raises PendingOperation.
Preparable(k, p) ==
  /\ row[k] = "none"
  /\ \A q \in Keys \ {k} : providerId[q] # p

Prepare(c, k, p) ==
  /\ stage[c] = "idle"
  /\ Preparable(k, p)
  /\ row' = [row EXCEPT ![k] = "pending"]
  /\ providerId' = [providerId EXCEPT ![k] = p]
  /\ outbox' = outbox \cup {<<k, "pending">>}
  /\ stage' = [stage EXCEPT ![c] = "prepared"]
  /\ key' = [key EXCEPT ![c] = k]
  /\ UNCHANGED <<lookVars, submissions, applied>>

\* The owner reads its row back, and calls the provider unless it finds it
\* succeeded: a row a reconciler has failed meanwhile is submitted too.
Submit(c) ==
  /\ stage[c] = "prepared"
  /\ IF row[key[c]] = "succeeded"
     THEN /\ stage' = [stage EXCEPT ![c] = "idle"]
          /\ key' = [key EXCEPT ![c] = NoKey]
          /\ UNCHANGED submissions
     ELSE /\ stage' = [stage EXCEPT ![c] = "calling"]
          /\ submissions' = [submissions EXCEPT ![providerId[key[c]]] = @ + 1]
          /\ UNCHANGED key
  /\ UNCHANGED <<row, providerId, outbox, lookVars, applied>>

\* External: the provider applies the write while the call is in progress.
ProviderApplies(k) ==
  /\ \E c \in Callers : stage[c] = "calling" /\ key[c] = k
  /\ applied' = applied \cup {k}
  /\ UNCHANGED <<row, providerId, outbox, callVars, lookVars, submissions>>

\* External: it answers a call whose write it has applied.
ProviderReturns(c) ==
  /\ stage[c] = "calling"
  /\ key[c] \in applied
  /\ stage' = [stage EXCEPT ![c] = "returned"]
  /\ UNCHANGED <<row, providerId, outbox, key, lookVars, submissions, applied>>

\* The call times out or is refused, or the answer cannot be recorded
\* (reference extraction, encoding): applied or not, execute only knows that
\* it raised.
CallRaises(c) ==
  /\ stage[c] \in {"calling", "returned"}
  /\ stage' = [stage EXCEPT ![c] = "raised"]
  /\ UNCHANGED <<row, providerId, outbox, key, lookVars, submissions, applied>>

CallEnds(c) ==
  /\ stage' = [stage EXCEPT ![c] = "idle"]
  /\ key' = [key EXCEPT ![c] = NoKey]

OutcomeOfCall(c) == IF stage[c] = "returned" THEN "succeeded" ELSE "uncertain"

\* settle() after the answer, _mark_uncertain_after_submission() after an
\* exception.
RecordCall(c) ==
  /\ stage[c] \in {"returned", "raised"}
  /\ Transition(key[c], OutcomeOfCall(c))
  /\ CallEnds(c)
  /\ UNCHANGED <<providerId, lookVars, submissions, applied>>

\* The caller's process dies between two transactions.
CallerCrash(c) ==
  /\ stage[c] # "idle"
  /\ CallEnds(c)
  /\ UNCHANGED <<row, providerId, outbox, lookVars, submissions, applied>>

-----------------------------------------------------------------------------
(* reconcile() and reconcile_pending() *)

\* A terminal row is never looked up; a pending one is, by reconcile() and by
\* default in reconcile_pending().
StartReconcile(r, k) ==
  /\ looking[r] = "idle"
  /\ row[k] \in Recoverable
  /\ looking' = [looking EXCEPT ![r] = "asking"]
  /\ lookKey' = [lookKey EXCEPT ![r] = k]
  /\ early' = IF row[k] = "pending" THEN early \cup {k} ELSE early
  /\ UNCHANGED <<row, providerId, outbox, callVars, submissions, applied>>

\* The provider answers truthfully at this moment, or the lookup raises.
Lookup(r) ==
  /\ looking[r] = "asking"
  /\ \E answer \in {"raised", IF lookKey[r] \in applied THEN "found" ELSE "missing"} :
       looking' = [looking EXCEPT ![r] = answer]
  /\ UNCHANGED <<row, providerId, outbox, callVars, lookKey, early, submissions, applied>>

OutcomeOfLookup(answer) ==
  CASE answer = "found" -> "succeeded"
    [] answer = "missing" -> "failed"
    [] answer = "raised" -> "uncertain"

RecordLookup(r) ==
  /\ looking[r] \in {"found", "missing", "raised"}
  /\ Transition(lookKey[r], OutcomeOfLookup(looking[r]))
  /\ looking' = [looking EXCEPT ![r] = "idle"]
  /\ lookKey' = [lookKey EXCEPT ![r] = NoKey]
  /\ UNCHANGED <<providerId, callVars, early, submissions, applied>>

ReconcilerCrash(r) ==
  /\ looking[r] # "idle"
  /\ looking' = [looking EXCEPT ![r] = "idle"]
  /\ lookKey' = [lookKey EXCEPT ![r] = NoKey]
  /\ UNCHANGED <<row, providerId, outbox, callVars, early, submissions, applied>>

-----------------------------------------------------------------------------
JournalNext ==
  \/ \E c \in Callers, k \in Keys, p \in ProviderIds : Prepare(c, k, p)
  \/ \E c \in Callers : \/ Submit(c) \/ ProviderReturns(c) \/ CallRaises(c)
                        \/ RecordCall(c) \/ CallerCrash(c)
  \/ \E k \in Keys : ProviderApplies(k)
  \/ \E r \in Inquirers, k \in Keys : StartReconcile(r, k)
  \/ \E r \in Inquirers : Lookup(r) \/ RecordLookup(r) \/ ReconcilerCrash(r)

JournalSpec == JournalInit /\ [][JournalNext]_journalVars

-----------------------------------------------------------------------------
(* Properties *)

\* Every variable of the journal and its callers has its type.
JournalTypeOK ==
  /\ row \in [Keys -> {"none"} \cup Recoverable \cup Terminal]
  /\ providerId \in [Keys -> ProviderIds \cup {NoId}]
  /\ outbox \subseteq Keys \X (Recoverable \cup Terminal)
  /\ stage \in [Callers -> {"idle", "prepared", "calling", "returned", "raised"}]
  /\ key \in [Callers -> Keys \cup {NoKey}]
  /\ looking \in [Inquirers -> {"idle", "asking", "found", "missing", "raised"}]
  /\ lookKey \in [Inquirers -> Keys \cup {NoKey}]
  /\ submissions \in [ProviderIds -> Nat]
  /\ early \subseteq Keys
  /\ applied \subseteq Keys

\* docs/execution-model.md: stale information never rewrites a terminal
\* outcome; and an operation never becomes unprepared or pending again.
OutcomeNeverRewritten ==
  [][\A k \in Keys :
       /\ row[k] \in Terminal => row'[k] = row[k]
       /\ row[k] = "uncertain" => row'[k] # "pending"]_journalVars

\* What the migration of a journal from before the outbox records of its rows:
\* that each was prepared and where it is now.
Reconstructed ==
  UNION {{<<k, "pending">>, <<k, row[k]>>} : k \in {j \in Keys : row[j] # "none"}}

\* The outbox tells the history of every operation: no less than its row would,
\* and no second outcome, nor anything of an operation without a row.
OutboxTellsHistory ==
  /\ Reconstructed \subseteq outbox
  /\ \A e \in outbox : row[e[1]] # "none" /\ (e[2] \in Terminal => e[2] = row[e[1]])

\* No blind resubmission: whatever callers race, crash or retry, and whatever
\* is reconciled, one provider request identity is submitted at most once.
\* And journal, outbox and provider agree on every operation: the outbox tells
\* the history of the row, and an outcome is what the provider did: a success
\* was applied; a failure was not (the docstring of fail()), if nobody looked
\* the operation up while its submission could still be running
\* (reconcile_pending with include_pending=False): an uncertain row's call is
\* over, and what the provider then says of it stays true.
JournalSound ==
  /\ JournalTypeOK /\ OutboxTellsHistory
  /\ \A p \in ProviderIds : submissions[p] <= 1
  /\ \A k \in Keys :
       /\ row[k] = "succeeded" => k \in applied
       /\ row[k] = "failed" /\ k \notin early => k \notin applied
=============================================================================
