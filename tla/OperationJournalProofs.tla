----------------------- MODULE OperationJournalProofs -----------------------
(***************************************************************************)
(* Machine-checked proofs about OperationJournal: for any keys, provider   *)
(* identities, callers and reconcilers, a provider identity is submitted   *)
(* at most once, and journal, outbox and provider agree.  And about        *)
(* AuditMirror, the loop by which the journal and the control store copy   *)
(* their outboxes to Claim tapes.                                          *)
(***************************************************************************)
EXTENDS OperationJournal, AuditMirror, Connectors, FiniteSetTheorems, TLAPS

Busy(c) == stage[c] # "idle"

\* A caller in execute() works on a row, and no other caller works on it.
OneOwner ==
  \A c \in Callers : Busy(c) =>
    /\ key[c] \in Keys /\ row[key[c]] # "none"
    /\ \A d \in Callers : Busy(d) /\ key[d] = key[c] => d = c

\* A row has a provider identity, which is no other row's.
IdentitiesDistinct ==
  \A k \in Keys : row[k] # "none" =>
    /\ providerId[k] \in ProviderIds
    /\ \A q \in Keys : row[q] # "none" /\ providerId[q] = providerId[k] => q = k

\* Only the owner of a row that has left `prepared` has submitted its identity.
SubmittedByOwner ==
  \A p \in ProviderIds :
    /\ submissions[p] <= 1
    /\ (\A k \in Keys : row[k] # "none" => providerId[k] # p) => submissions[p] = 0
    /\ \A c \in Callers : stage[c] = "prepared" /\ providerId[key[c]] = p => submissions[p] = 0

\* A success that is recorded, returned or found was applied.
SuccessApplied ==
  /\ \A k \in Keys : row[k] = "succeeded" => k \in applied
  /\ \A c \in Callers : stage[c] = "returned" => key[c] \in applied
  /\ \A r \in Inquirers : looking[r] = "found" => lookKey[r] \in applied

\* A row that left `pending` without having been looked up before has no caller
\* any more, so what the provider says of it stays true.
QuietUnlessEarly ==
  \A k \in Keys \ early :
    /\ row[k] \notin {"none", "pending"} =>
         \A c \in Callers : Busy(c) => key[c] # k
    /\ row[k] = "failed" => k \notin applied

\* A lookup is of a row that was recoverable.
LookupsFollow ==
  \A r \in Inquirers : looking[r] # "idle" =>
    /\ lookKey[r] \in Keys /\ row[lookKey[r]] # "none"
    /\ lookKey[r] \notin early =>
         /\ row[lookKey[r]] # "pending"
         /\ looking[r] = "missing" => lookKey[r] \notin applied

JournalInv ==
  /\ JournalTypeOK /\ OutboxTellsHistory
  /\ OneOwner /\ IdentitiesDistinct /\ SubmittedByOwner
  /\ SuccessApplied /\ QuietUnlessEarly /\ LookupsFollow

-----------------------------------------------------------------------------
(* Transitions of a row *)

\* A transition moves one row out of a recoverable state, or nothing, and its
\* event keeps the outbox true.
LEMMA TransitionKeeps ==
  ASSUME JournalTypeOK, OutboxTellsHistory, NEW k \in Keys,
         NEW target \in {"succeeded", "failed", "uncertain"}, Transition(k, target)
  PROVE  /\ row' \in [Keys -> {"none"} \cup Recoverable \cup Terminal]
         /\ outbox' \subseteq Keys \X (Recoverable \cup Terminal)
         /\ \A j \in Keys : j # k => row'[j] = row[j]
         /\ row'[k] = row[k] \/ (row[k] \in AllowedFrom(target) /\ row'[k] = target)
         /\ OutboxTellsHistory'
<1> USE DEF JournalTypeOK, Recoverable, Terminal, AllowedFrom
<1>1. CASE row[k] \in AllowedFrom(target)
  <2>1. /\ row' = [row EXCEPT ![k] = target]
        /\ outbox' = outbox \cup {<<k, target>>}
    BY <1>1 DEF Transition
  <2>2. row[k] \in Recoverable
    BY <1>1
  <2>3. \A j \in Keys : row'[j] # "none" => <<j, "pending">> \in outbox' /\ <<j, row'[j]>> \in outbox'
    BY <2>1, <2>2 DEF OutboxTellsHistory, Reconstructed
  <2>4. \A e \in outbox' : row'[e[1]] # "none" /\ (e[2] \in Terminal => e[2] = row'[e[1]])
    BY <2>1, <2>2 DEF OutboxTellsHistory
  <2>5. ASSUME NEW e \in Reconstructed' PROVE e \in outbox'
    <3>1. PICK j \in {i \in Keys : row'[i] # "none"} :
            e \in {<<j, "pending">>, <<j, row'[j]>>}
      BY <2>5 DEF Reconstructed
    <3> QED
      BY <2>3, <3>1
  <2>6. OutboxTellsHistory'
    BY <2>4, <2>5 DEF OutboxTellsHistory
  <2> QED
    BY <1>1, <2>1, <2>6
<1>2. CASE row[k] \notin AllowedFrom(target)
  BY <1>2 DEF Transition, OutboxTellsHistory, Reconstructed
<1> QED
  BY <1>1, <1>2

-----------------------------------------------------------------------------
(* The inductive invariant *)

\* An empty journal satisfies the invariant.
LEMMA InitInv == JournalInit => JournalInv
BY DEF JournalInit, JournalInv, JournalTypeOK, OutboxTellsHistory, Reconstructed, OneOwner, Busy,
       IdentitiesDistinct, SubmittedByOwner, SuccessApplied, QuietUnlessEarly,
       LookupsFollow, Terminal, Recoverable

\* A caller that leaves execute() gives up its key.
LEMMA FinishKeeps ==
  ASSUME JournalTypeOK, OneOwner, NEW c \in Callers, CallEnds(c)
  PROVE  /\ stage' \in [Callers -> {"idle", "prepared", "calling", "returned", "raised"}]
         /\ key' \in [Callers -> Keys \cup {NoKey}]
         /\ stage'[c] = "idle"
         /\ \A d \in Callers : d # c => stage'[d] = stage[d] /\ key'[d] = key[d]
BY DEF CallEnds, JournalTypeOK

LEMMA PrepareKeeps ==
  ASSUME JournalInv, NEW c \in Callers, NEW k \in Keys, NEW p \in ProviderIds,
         Prepare(c, k, p)
  PROVE  JournalInv'
<1> USE DEF JournalInv
<1>1. /\ stage[c] = "idle" /\ row[k] = "none"
      /\ \A q \in Keys \ {k} : providerId[q] # p
      /\ row' = [row EXCEPT ![k] = "pending"]
      /\ providerId' = [providerId EXCEPT ![k] = p]
      /\ outbox' = outbox \cup {<<k, "pending">>}
      /\ stage' = [stage EXCEPT ![c] = "prepared"]
      /\ key' = [key EXCEPT ![c] = k]
      /\ UNCHANGED <<looking, lookKey, early, submissions, applied>>
  BY DEF Prepare, Preparable, lookVars
<1>2. JournalTypeOK'
  BY <1>1 DEF JournalTypeOK, Recoverable
<1>3. OutboxTellsHistory'
  <2>1. \A j \in Keys : row'[j] # "none" =>
          <<j, "pending">> \in outbox' /\ <<j, row'[j]>> \in outbox'
    BY <1>1 DEF OutboxTellsHistory, Reconstructed, JournalTypeOK
  <2>2. \A e \in outbox' : row'[e[1]] # "none" /\ (e[2] \in Terminal => e[2] = row'[e[1]])
    BY <1>1 DEF OutboxTellsHistory, JournalTypeOK, Terminal
  <2> QED
    BY <2>1, <2>2 DEF OutboxTellsHistory, Reconstructed
<1>4. OneOwner'
  BY <1>1 DEF OneOwner, Busy, JournalTypeOK
<1>5. IdentitiesDistinct'
  BY <1>1 DEF IdentitiesDistinct, JournalTypeOK
<1>6. SubmittedByOwner'
  <2>1. submissions[p] = 0
    BY <1>1 DEF SubmittedByOwner, JournalTypeOK
  <2>2. \A d \in Callers : d # c /\ stage[d] = "prepared" =>
          key[d] \in Keys /\ key[d] # k
    BY <1>1 DEF OneOwner, Busy
  <2>3. \A q \in ProviderIds : 
          (\A j \in Keys : row'[j] # "none" => providerId'[j] # q) =>
             (\A j \in Keys : row[j] # "none" => providerId[j] # q)
    BY <1>1 DEF JournalTypeOK
  <2> QED
    BY <1>1, <2>1, <2>2, <2>3 DEF SubmittedByOwner, JournalTypeOK
<1>7. SuccessApplied'
  BY <1>1 DEF SuccessApplied, JournalTypeOK
<1>8. QuietUnlessEarly'
  BY <1>1 DEF QuietUnlessEarly, JournalTypeOK, Busy
<1>9. LookupsFollow'
  BY <1>1 DEF LookupsFollow, JournalTypeOK
<1> QED
  BY <1>2, <1>3, <1>4, <1>5, <1>6, <1>7, <1>8, <1>9

LEMMA SubmitKeeps ==
  ASSUME JournalInv, NEW c \in Callers, Submit(c)
  PROVE  JournalInv'
<1> USE DEF JournalInv
<1>1. /\ stage[c] = "prepared" /\ key[c] \in Keys /\ row[key[c]] # "none"
      /\ UNCHANGED <<row, providerId, outbox, looking, lookKey, early, applied>>
  BY DEF Submit, lookVars, OneOwner, Busy
<1>2. OutboxTellsHistory' /\ IdentitiesDistinct' /\ LookupsFollow'
  BY <1>1 DEF OutboxTellsHistory, Reconstructed, IdentitiesDistinct, LookupsFollow
<1>3. CASE /\ row[key[c]] = "succeeded"
           /\ stage' = [stage EXCEPT ![c] = "idle"]
           /\ key' = [key EXCEPT ![c] = NoKey]
           /\ UNCHANGED submissions
  <2>1. JournalTypeOK' /\ OneOwner' /\ SubmittedByOwner' /\ SuccessApplied' /\ QuietUnlessEarly'
    BY <1>1, <1>3 DEF JournalTypeOK, OneOwner, SubmittedByOwner, SuccessApplied, QuietUnlessEarly, Busy
  <2> QED
    BY <1>2, <2>1
<1>4. CASE /\ row[key[c]] # "succeeded"
           /\ stage' = [stage EXCEPT ![c] = "calling"]
           /\ submissions' = [submissions EXCEPT ![providerId[key[c]]] = @ + 1]
           /\ UNCHANGED key
  <2> DEFINE p == providerId[key[c]]
  <2>1. p \in ProviderIds /\ submissions[p] = 0
    BY <1>1 DEF IdentitiesDistinct, SubmittedByOwner
  <2>2. JournalTypeOK'
    BY <1>1, <1>4, <2>1 DEF JournalTypeOK
  <2>3. OneOwner' /\ SuccessApplied' /\ QuietUnlessEarly'
    BY <1>1, <1>4 DEF JournalTypeOK, OneOwner, SuccessApplied, QuietUnlessEarly, Busy
  <2>4. \A d \in Callers : d # c /\ stage[d] = "prepared" => providerId[key[d]] # p
    BY <1>1 DEF OneOwner, Busy, IdentitiesDistinct
  <2>5. /\ submissions'[p] = 1
        /\ \A q \in ProviderIds : q # p => submissions'[q] = submissions[q]
    BY <1>4, <2>1 DEF JournalTypeOK
  <2>6. \A q \in ProviderIds : submissions'[q] <= 1
    BY <2>5 DEF SubmittedByOwner
  <2>7. SubmittedByOwner'
    BY <1>1, <1>4, <2>1, <2>4, <2>5, <2>6 DEF SubmittedByOwner, JournalTypeOK
  <2> QED
    BY <1>2, <2>2, <2>3, <2>7
<1> QED
  BY <1>3, <1>4 DEF Submit

\* The provider, and an answer or an exception on its way to the caller.
LEMMA ProviderKeeps ==
  ASSUME JournalInv,
         \/ \E k \in Keys : ProviderApplies(k)
         \/ \E c \in Callers : ProviderReturns(c) \/ CallRaises(c)
  PROVE  JournalInv'
<1> USE DEF JournalInv
<1>1. ASSUME NEW k \in Keys, ProviderApplies(k) PROVE JournalInv'
  <2>1. /\ applied' = applied \cup {k}
        /\ UNCHANGED <<row, providerId, outbox, stage, key, looking, lookKey, early, submissions>>
    BY <1>1 DEF ProviderApplies, callVars, lookVars
  <2>2. PICK c \in Callers : stage[c] = "calling" /\ key[c] = k
    BY <1>1 DEF ProviderApplies
  <2>3. k \notin early => row[k] = "pending"
    BY <2>2 DEF QuietUnlessEarly, OneOwner, Busy
  <2>4. QuietUnlessEarly' /\ LookupsFollow'
    BY <2>1, <2>3 DEF QuietUnlessEarly, LookupsFollow, Busy
  <2>5. JournalTypeOK' /\ OutboxTellsHistory' /\ OneOwner' /\ IdentitiesDistinct'
    BY <2>1 DEF JournalTypeOK, OutboxTellsHistory, Reconstructed, OneOwner, IdentitiesDistinct, Busy
  <2>6. SubmittedByOwner' /\ SuccessApplied'
    BY <2>1 DEF SubmittedByOwner, SuccessApplied
  <2> QED
    BY <2>4, <2>5, <2>6
<1>2. ASSUME NEW c \in Callers, ProviderReturns(c) \/ CallRaises(c) PROVE JournalInv'
  <2>1. /\ stage[c] \in {"calling", "returned"}
        /\ \/ stage' = [stage EXCEPT ![c] = "returned"] /\ key[c] \in applied
           \/ stage' = [stage EXCEPT ![c] = "raised"]
        /\ UNCHANGED <<row, providerId, outbox, key, looking, lookKey, early, submissions, applied>>
    BY <1>2 DEF ProviderReturns, CallRaises, lookVars
  <2>2. JournalTypeOK' /\ OutboxTellsHistory' /\ IdentitiesDistinct' /\ LookupsFollow'
    BY <2>1 DEF JournalTypeOK, OutboxTellsHistory, Reconstructed, IdentitiesDistinct, LookupsFollow
  <2>3. OneOwner' /\ SubmittedByOwner' /\ SuccessApplied' /\ QuietUnlessEarly'
    BY <2>1 DEF JournalTypeOK, OneOwner, Busy, SubmittedByOwner, SuccessApplied, QuietUnlessEarly
  <2> QED
    BY <2>2, <2>3
<1> QED
  BY <1>1, <1>2

LEMMA RecordCallKeeps ==
  ASSUME JournalInv, NEW c \in Callers, RecordCall(c)
  PROVE  JournalInv'
<1> USE DEF JournalInv
<1> DEFINE k == key[c]
<1>1. /\ Busy(c) /\ k \in Keys /\ row[k] # "none"
      /\ Transition(k, OutcomeOfCall(c)) /\ CallEnds(c)
      /\ UNCHANGED <<providerId, looking, lookKey, early, submissions, applied>>
  BY DEF RecordCall, lookVars, OneOwner, Busy
<1>2. OutcomeOfCall(c) \in {"succeeded", "uncertain"}
  BY DEF OutcomeOfCall
<1>3. /\ row' \in [Keys -> {"none"} \cup Recoverable \cup Terminal]
      /\ outbox' \subseteq Keys \X (Recoverable \cup Terminal)
      /\ \A j \in Keys : j # k => row'[j] = row[j]
      /\ row'[k] = row[k] \/ (row[k] \in AllowedFrom(OutcomeOfCall(c))
                              /\ row'[k] = OutcomeOfCall(c))
      /\ OutboxTellsHistory'
  BY <1>1, <1>2, TransitionKeeps
<1>4. /\ stage' \in [Callers -> {"idle", "prepared", "calling", "returned", "raised"}]
      /\ key' \in [Callers -> Keys \cup {NoKey}]
      /\ stage'[c] = "idle"
      /\ \A d \in Callers : d # c => stage'[d] = stage[d] /\ key'[d] = key[d]
  BY <1>1, FinishKeeps
<1>5. \A j \in Keys : row'[j] = "none" <=> row[j] = "none"
  BY <1>1, <1>2, <1>3
<1>6. \A d \in Callers : d # c /\ Busy(d) => key[d] # k
  BY <1>1 DEF OneOwner
<1>7. JournalTypeOK'
  BY <1>1, <1>3, <1>4 DEF JournalTypeOK
<1>8. OneOwner' /\ IdentitiesDistinct' /\ SubmittedByOwner'
  BY <1>1, <1>4, <1>5 DEF OneOwner, Busy, IdentitiesDistinct, SubmittedByOwner
<1>9. SuccessApplied'
  BY <1>1, <1>3, <1>4 DEF SuccessApplied, OutcomeOfCall
<1>10. QuietUnlessEarly'
  <2>1. \A j \in Keys \ early : row'[j] = "failed" => j \notin applied
    BY <1>2, <1>3 DEF QuietUnlessEarly
  <2>2. \A j \in Keys \ early, d \in Callers :
          row'[j] \notin {"none", "pending"} /\ stage'[d] # "idle" => key'[d] # j
    BY <1>3, <1>4, <1>6 DEF QuietUnlessEarly, Busy
  <2> QED
    BY <1>1, <2>1, <2>2 DEF QuietUnlessEarly, Busy
<1>11. LookupsFollow'
  BY <1>1, <1>2, <1>3, <1>5 DEF LookupsFollow
<1> QED
  BY <1>3, <1>7, <1>8, <1>9, <1>10, <1>11

LEMMA CallerCrashKeeps ==
  ASSUME JournalInv, NEW c \in Callers, CallerCrash(c)
  PROVE  JournalInv'
<1> USE DEF JournalInv
<1>1. /\ CallEnds(c)
      /\ UNCHANGED <<row, providerId, outbox, looking, lookKey, early, submissions, applied>>
  BY DEF CallerCrash, lookVars
<1>2. /\ stage' \in [Callers -> {"idle", "prepared", "calling", "returned", "raised"}]
      /\ key' \in [Callers -> Keys \cup {NoKey}]
      /\ stage'[c] = "idle"
      /\ \A d \in Callers : d # c => stage'[d] = stage[d] /\ key'[d] = key[d]
  BY <1>1, FinishKeeps
<1>3. JournalTypeOK' /\ OutboxTellsHistory' /\ IdentitiesDistinct' /\ LookupsFollow'
  BY <1>1, <1>2 DEF JournalTypeOK, OutboxTellsHistory, Reconstructed, IdentitiesDistinct, LookupsFollow
<1>4. OneOwner' /\ SubmittedByOwner' /\ SuccessApplied' /\ QuietUnlessEarly'
  BY <1>1, <1>2 DEF OneOwner, Busy, SubmittedByOwner, SuccessApplied, QuietUnlessEarly
<1> QED
  BY <1>3, <1>4

\* A reconciler that asks, is answered, or stops: no row changes.
LEMMA LookupKeeps ==
  ASSUME JournalInv, NEW r \in Inquirers,
         (\E k \in Keys : StartReconcile(r, k)) \/ Lookup(r) \/ ReconcilerCrash(r)
  PROVE  JournalInv'
<1> USE DEF JournalInv
<1>1. /\ UNCHANGED <<row, providerId, outbox, stage, key, submissions, applied>>
      /\ early \subseteq early'
  BY DEF StartReconcile, Lookup, ReconcilerCrash, callVars
<1>2. OutboxTellsHistory' /\ OneOwner' /\ IdentitiesDistinct' /\ SubmittedByOwner'
  BY <1>1 DEF OutboxTellsHistory, Reconstructed, OneOwner, Busy, IdentitiesDistinct,
              SubmittedByOwner
<1>3. QuietUnlessEarly'
  BY <1>1 DEF QuietUnlessEarly, Busy
<1>4. ASSUME NEW k \in Keys, StartReconcile(r, k)
      PROVE  JournalTypeOK' /\ SuccessApplied' /\ LookupsFollow'
  <2>1. /\ row[k] \in Recoverable
        /\ looking' = [looking EXCEPT ![r] = "asking"]
        /\ lookKey' = [lookKey EXCEPT ![r] = k]
        /\ early' = IF row[k] = "pending" THEN early \cup {k} ELSE early
    BY <1>4 DEF StartReconcile
  <2> QED
    BY <1>1, <2>1 DEF JournalTypeOK, SuccessApplied, LookupsFollow, Recoverable
<1>5. ASSUME Lookup(r) PROVE JournalTypeOK' /\ SuccessApplied' /\ LookupsFollow'
  <2>1. /\ looking[r] = "asking" /\ UNCHANGED <<lookKey, early>>
        /\ \/ looking' = [looking EXCEPT ![r] = "raised"]
           \/ looking' = [looking EXCEPT ![r] = "found"] /\ lookKey[r] \in applied
           \/ looking' = [looking EXCEPT ![r] = "missing"] /\ lookKey[r] \notin applied
    BY <1>5 DEF Lookup
  <2> QED
    BY <1>1, <2>1 DEF JournalTypeOK, SuccessApplied, LookupsFollow
<1>6. ASSUME ReconcilerCrash(r) PROVE JournalTypeOK' /\ SuccessApplied' /\ LookupsFollow'
  BY <1>1, <1>6 DEF ReconcilerCrash, JournalTypeOK, SuccessApplied, LookupsFollow
<1> QED
  BY <1>2, <1>3, <1>4, <1>5, <1>6

LEMMA RecordLookupKeeps ==
  ASSUME JournalInv, NEW r \in Inquirers, RecordLookup(r)
  PROVE  JournalInv'
<1> USE DEF JournalInv
<1> DEFINE k == lookKey[r]
           target == OutcomeOfLookup(looking[r])
<1>1. /\ looking[r] \in {"found", "missing", "raised"}
      /\ k \in Keys /\ row[k] # "none"
      /\ Transition(k, target)
      /\ looking' = [looking EXCEPT ![r] = "idle"]
      /\ lookKey' = [lookKey EXCEPT ![r] = NoKey]
      /\ UNCHANGED <<providerId, stage, key, early, submissions, applied>>
  BY DEF RecordLookup, callVars, LookupsFollow
<1>2. /\ target \in {"succeeded", "failed", "uncertain"}
      /\ target = "succeeded" => looking[r] = "found"
      /\ target = "failed" => looking[r] = "missing"
  BY <1>1 DEF OutcomeOfLookup
<1> HIDE DEF target
<1>3. /\ row' \in [Keys -> {"none"} \cup Recoverable \cup Terminal]
      /\ outbox' \subseteq Keys \X (Recoverable \cup Terminal)
      /\ \A j \in Keys : j # k => row'[j] = row[j]
      /\ row'[k] = row[k] \/ (row[k] \in AllowedFrom(target) /\ row'[k] = target)
      /\ OutboxTellsHistory'
  BY <1>1, <1>2, TransitionKeeps
<1>4. \A j \in Keys : row'[j] = "none" <=> row[j] = "none"
  BY <1>1, <1>2, <1>3
<1>5. JournalTypeOK'
  BY <1>1, <1>3 DEF JournalTypeOK
<1>6. OneOwner' /\ IdentitiesDistinct' /\ SubmittedByOwner'
  BY <1>1, <1>4 DEF OneOwner, Busy, IdentitiesDistinct, SubmittedByOwner
<1>7. SuccessApplied'
  BY <1>1, <1>2, <1>3 DEF SuccessApplied, JournalTypeOK
<1>8. k \notin early => row[k] # "pending"
  BY <1>1 DEF LookupsFollow
<1>9. QuietUnlessEarly'
  <2>1. \A j \in Keys \ early : row'[j] = "failed" => j \notin applied
    BY <1>1, <1>2, <1>3 DEF QuietUnlessEarly, LookupsFollow
  <2>2. \A j \in Keys \ early, c \in Callers :
          row'[j] \notin {"none", "pending"} /\ Busy(c) => key[c] # j
    BY <1>1, <1>3, <1>8 DEF QuietUnlessEarly
  <2> QED
    BY <1>1, <2>1, <2>2 DEF QuietUnlessEarly, Busy
<1>10. LookupsFollow'
  BY <1>1, <1>2, <1>3, <1>4 DEF LookupsFollow, JournalTypeOK
<1> QED
  BY <1>3, <1>5, <1>6, <1>7, <1>9, <1>10

\* Every step of a caller, a reconciler or the provider keeps the invariant.
LEMMA NextInv == JournalInv /\ [JournalNext]_journalVars => JournalInv'
<1> SUFFICES ASSUME JournalInv, [JournalNext]_journalVars PROVE JournalInv'
  OBVIOUS
<1>1. CASE UNCHANGED journalVars
  BY <1>1 DEF journalVars, callVars, lookVars, JournalInv, JournalTypeOK, OutboxTellsHistory,
    Reconstructed, OneOwner, Busy, IdentitiesDistinct, SubmittedByOwner,
    SuccessApplied, QuietUnlessEarly, LookupsFollow
<1>2. CASE JournalNext
  BY <1>2, PrepareKeeps, SubmitKeeps, ProviderKeeps, RecordCallKeeps,
     CallerCrashKeeps, LookupKeeps, RecordLookupKeeps DEF JournalNext
<1> QED
  BY <1>1, <1>2

-----------------------------------------------------------------------------
\* operations.py execute, reconcile and _transition, for any number of callers
\* and reconcilers: a provider identity is submitted at most once, a recorded
\* success was applied and a recorded failure was not, unless its row was
\* looked up while it was pending; and the outbox tells every row's history.
THEOREM JournalIsSound == JournalSpec => []JournalSound
<1>1. JournalInv => JournalSound
  BY DEF JournalInv, JournalSound, SubmittedByOwner, SuccessApplied, QuietUnlessEarly
<1> QED
  BY <1>1, InitInv, NextInv, PTL DEF JournalSpec

\* A terminal outcome is never rewritten and no row is prepared again: the
\* conditional UPDATE of _transition, whoever calls it and however late.
THEOREM OutcomesAreFinal == JournalSpec => OutcomeNeverRewritten
<1> DEFINE Kept == \A k \in Keys :
                     /\ row[k] \in Terminal => row'[k] = row[k]
                     /\ row[k] = "uncertain" => row'[k] # "pending"
<1>1. ASSUME JournalInv, NEW k \in Keys,
             NEW target \in {"succeeded", "failed", "uncertain"}, Transition(k, target)
      PROVE  Kept
  <2>1. /\ \A j \in Keys : j # k => row'[j] = row[j]
        /\ row'[k] = row[k] \/ (row[k] \in AllowedFrom(target) /\ row'[k] = target)
    BY <1>1, TransitionKeeps DEF JournalInv
  <2> QED
    BY <2>1 DEF AllowedFrom, Recoverable, Terminal
<1>2. JournalInv /\ [JournalNext]_journalVars => [Kept]_journalVars
  <2> SUFFICES ASSUME JournalInv, JournalNext PROVE Kept
    OBVIOUS
  <2>1. ASSUME NEW c \in Callers, NEW k \in Keys, NEW p \in ProviderIds, Prepare(c, k, p)
        PROVE  Kept
    BY <2>1 DEF Prepare, Preparable, Terminal, JournalInv, JournalTypeOK
  <2>2. ASSUME NEW c \in Callers, RecordCall(c) PROVE Kept
    BY <1>1, <2>2 DEF RecordCall, OutcomeOfCall, JournalInv, OneOwner, Busy
  <2>3. ASSUME NEW r \in Inquirers, RecordLookup(r) PROVE Kept
    BY <1>1, <2>3 DEF RecordLookup, OutcomeOfLookup, JournalInv, LookupsFollow
  <2>4. CASE row' = row
    BY <2>4 DEF Terminal
  <2> QED
    BY <2>1, <2>2, <2>3, <2>4
       DEF JournalNext, Submit, ProviderReturns, CallRaises, CallerCrash, ProviderApplies,
           StartReconcile, Lookup, ReconcilerCrash
<1>3. JournalSpec => []JournalInv
  BY InitInv, NextInv, PTL DEF JournalSpec
<1> QED
  BY <1>2, <1>3, PTL DEF JournalSpec, OutcomeNeverRewritten

-----------------------------------------------------------------------------
(* The mirror of an outbox *)

\* A handle that folds has the first of the rows it still has to mirror, each
\* after its cursor.
BatchFits(h) ==
  phase[h] = "folding" =>
    /\ batch[h] \subseteq Pending(h)
    /\ \A i \in batch[h], j \in Pending(h) : j < i => j \in batch[h]

\* A tape has events that were committed, of the runs its handle mirrors.
Mirrored(h) == \A e \in tape[h] : e \in ToSet(auditLog) /\ Matches(h, e)

HandleInv(h) ==
  /\ cursor[h] <= Len(auditLog)
  /\ phase[h] = "empty" => Filter[h] # AnyRun
  /\ BatchFits(h) /\ Mirrored(h)
  /\ phase[h] # "closed" /\ Filter[h] = AnyRun => Covered(h)

MirrorInv == MirrorTypeOK /\ \A h \in Handles : HandleInv(h)

\* What LIMIT takes of a set of rows comes before what it leaves.
LEMMA FirstOfIs ==
  ASSUME NEW n \in Nat, NEW rows \in SUBSET (1 .. n)
  PROVE  /\ FirstOf(rows) \subseteq rows
         /\ \A i \in FirstOf(rows), j \in rows : j < i => j \in FirstOf(rows)
<1> SUFFICES ASSUME NEW i \in FirstOf(rows), NEW j \in rows, j < i
             PROVE  j \in FirstOf(rows)
  BY DEF FirstOf
<1> DEFINE B(k) == {r \in rows : r < k}
<1>1. IsFiniteSet(1 .. n)
  BY FS_Interval
<1>2. IsFiniteSet(B(i)) /\ IsFiniteSet(B(j))
  BY <1>1, FS_Subset
<1>3. B(j) \in SUBSET B(i)
  <2>1. i \in 1 .. n /\ j \in 1 .. n /\ \A r \in rows : r \in 1 .. n
    BY DEF FirstOf
  <2>2. ASSUME NEW r \in rows, r < j PROVE r < i
    <3>1. r \in Int /\ j \in Int /\ i \in Int
      BY <2>1
    <3> QED
      BY <2>2, <3>1
  <2> QED
    BY <2>2
<1>4. Cardinality(B(j)) <= Cardinality(B(i))
  BY <1>2, <1>3, FS_Subset
<1>5. Cardinality(B(i)) \in Nat /\ Cardinality(B(j)) \in Nat
  BY <1>2, FS_CardinalityType
<1>6. Cardinality(B(i)) < BatchSize /\ BatchSize \in Nat
  BY MirrorAssumption DEF FirstOf
<1>7. Cardinality(B(j)) < BatchSize
  <2> HIDE DEF B
  <2> QED
    BY <1>4, <1>5, <1>6
<1> QED
  BY <1>7 DEF FirstOf

\* The invariant of a handle depends on its own variables and the outbox.
LEMMA OtherHandles ==
  ASSUME MirrorInv, NEW h \in Handles,
         UNCHANGED <<auditLog, tape[h], phase[h], cursor[h], batch[h]>>
  PROVE  HandleInv(h)'
BY DEF MirrorInv, HandleInv, BatchFits, Mirrored, Covered, Pending, Matches

\* A committed event is a row after every cursor, batch and tape.
LEMMA CommitKeeps ==
  ASSUME MirrorInv, NEW e \in Events, Commit(e)
  PROVE  MirrorInv'
<1> USE DEF MirrorInv, MirrorTypeOK
<1>1. /\ auditLog' = Append(auditLog, e)
      /\ UNCHANGED <<tape, phase, cursor, batch, faults>>
  BY DEF Commit
<1>2. /\ auditLog' \in Seq(Events) /\ Len(auditLog') = Len(auditLog) + 1
      /\ \A i \in 1 .. Len(auditLog) : auditLog'[i] = auditLog[i]
  BY <1>1
<1>3. /\ \A i \in 1 .. Len(auditLog') : i \in 1 .. Len(auditLog) \/ i = Len(auditLog) + 1
      /\ ToSet(auditLog) \subseteq ToSet(auditLog')
  <2>1. DOMAIN auditLog = 1 .. Len(auditLog) /\ DOMAIN auditLog' = 1 .. Len(auditLog')
    BY <1>2
  <2>2. \A i \in DOMAIN auditLog : i \in DOMAIN auditLog' /\ auditLog'[i] = auditLog[i]
    BY <1>2, <2>1
  <2> QED
    BY <1>2, <2>1, <2>2 DEF ToSet
<1>4. ASSUME NEW h \in Handles PROVE HandleInv(h)'
  <2> USE DEF HandleInv
  <2>1. \A i \in 1 .. Len(auditLog) : i \in Pending(h) <=> i \in Pending(h)'
    BY <1>1, <1>2 DEF Pending, Matches
  <2>2. \A i \in Pending(h)' : i \in Pending(h) \/ i = Len(auditLog) + 1
    BY <1>3, <2>1 DEF Pending
  <2>3. Pending(h) \subseteq 1 .. Len(auditLog) /\ Pending(h) \subseteq Pending(h)'
    BY <2>1 DEF Pending
  <2>4. BatchFits(h)'
    BY <1>1, <2>2, <2>3 DEF BatchFits
  <2>5. Mirrored(h)'
    BY <1>1, <1>3 DEF Mirrored, Matches
  <2>6. cursor'[h] <= Len(auditLog')
    BY <1>1, <1>2
  <2>7. phase[h] # "closed" /\ Filter[h] = AnyRun => Covered(h)'
    <3>1. Covered(h) => Covered(h)'
      <4> SUFFICES ASSUME Covered(h), NEW i \in 1 .. Len(auditLog'),
                          i <= cursor'[h], Matches(h, auditLog'[i])
                   PROVE  auditLog'[i] \in tape'[h]
        BY DEF Covered, Matches
      <4>1. i <= cursor[h] /\ cursor[h] <= Len(auditLog) /\ tape'[h] = tape[h]
        BY <1>1
      <4>2. i \in 1 .. Len(auditLog)
        BY <1>3, <4>1
      <4>3. auditLog[i] \in tape[h]
        BY <1>2, <4>1, <4>2 DEF Covered
      <4> QED
        BY <1>2, <4>1, <4>2, <4>3
    <3> QED
      BY <3>1
  <2> QED
    BY <1>1, <2>4, <2>5, <2>6, <2>7
<1> QED
  BY <1>1, <1>2, <1>4

\* A handle that is opened starts from the beginning; one that is called, or
\* stops, keeps its cursor.
LEMMA PhaseKeeps ==
  ASSUME MirrorInv, NEW h \in Handles, Open(h) \/ Call(h) \/ Crash(h)
  PROVE  MirrorInv'
<1> USE DEF MirrorInv, MirrorTypeOK
<1>1. MirrorTypeOK'
  <2>1. CASE Open(h)
    BY <2>1 DEF Open, Phases
  <2>2. CASE Call(h)
    BY <2>2 DEF Call, Phases
  <2>3. CASE Crash(h)
    <3>1. faults' \in 0 .. MaxFaults
      BY <2>3, MirrorAssumption DEF Crash
    <3> QED
      BY <2>3, <3>1 DEF Crash, Phases
  <2> QED
    BY <2>1, <2>2, <2>3
<1>2. /\ auditLog' = auditLog /\ tape' = tape
      /\ \A g \in Handles : g # h =>
           UNCHANGED <<phase[g], cursor[g], batch[g]>>
      /\ phase'[h] \in {"called", "closed"}
      /\ \/ cursor'[h] = 0
         \/ cursor'[h] = cursor[h] /\ (phase'[h] # "closed" => phase[h] # "closed")
  BY DEF Open, Call, Crash, Phases
<1>3. ASSUME NEW g \in Handles, g # h PROVE HandleInv(g)'
  BY <1>2, <1>3, OtherHandles
<1>4. HandleInv(h)'
  BY <1>2 DEF HandleInv, BatchFits, Mirrored, Covered, Matches
<1> QED
  BY <1>1, <1>3, <1>4

\* The rows that are selected are the first after the cursor.
LEMMA SelectKeeps ==
  ASSUME MirrorInv, NEW h \in Handles, NEW full \in BOOLEAN, Select(h, full)
  PROVE  MirrorInv'
<1> USE DEF MirrorInv, MirrorTypeOK
<1>1. Len(auditLog) \in Nat /\ Pending(h) \in SUBSET (1 .. Len(auditLog))
  BY DEF Pending
<1>2. /\ auditLog' = auditLog /\ tape' = tape /\ cursor' = cursor /\ faults' = faults
      /\ \A g \in Handles : g # h => phase'[g] = phase[g] /\ batch'[g] = batch[g]
      /\ Pending(h)' = Pending(h)
  BY DEF Select, Pending, Matches
<1>3. /\ phase'[h] \in Phases \ {"closed"} /\ phase[h] # "closed"
      /\ phase'[h] = "empty" => Filter[h] # AnyRun
      /\ phase'[h] = "folding" => batch'[h] \in {Pending(h), FirstOf(Pending(h))}
      /\ phase'[h] # "folding" => batch'[h] = batch[h]
  BY DEF Select, Phases
<1>4. /\ FirstOf(Pending(h)) \subseteq Pending(h)
      /\ \A i \in FirstOf(Pending(h)), j \in Pending(h) :
           j < i => j \in FirstOf(Pending(h))
  BY <1>1, FirstOfIs
<1>5. batch'[h] \in SUBSET Nat
  BY <1>1, <1>3, <1>4
<1>6. MirrorTypeOK'
  <2>1. phase' \in [Handles -> Phases] /\ batch' = [batch EXCEPT ![h] = batch'[h]]
    BY <1>3 DEF Select
  <2> QED
    BY <1>2, <1>5, <2>1
<1>7. ASSUME NEW g \in Handles, g # h PROVE HandleInv(g)'
  BY <1>2, <1>7, OtherHandles
<1>8. HandleInv(h)'
  <2>1. BatchFits(h)'
    BY <1>2, <1>3, <1>4 DEF BatchFits
  <2> QED
    BY <1>2, <1>3, <2>1 DEF HandleInv, Mirrored, Covered, Matches
<1> QED
  BY <1>6, <1>7, <1>8

\* Only a handle that mirrors one run skips rows it has not looked at.
LEMMA SkipKeeps ==
  ASSUME MirrorInv, NEW h \in Handles, SkipToEnd(h)
  PROVE  MirrorInv'
<1> USE DEF MirrorInv, MirrorTypeOK
<1>1. SkipTarget(h) \in Nat /\ SkipTarget(h) = Len(auditLog)
  BY DEF SkipTarget, HandleInv
<1>2. MirrorTypeOK'
  BY <1>1 DEF SkipToEnd, Phases
<1>3. /\ auditLog' = auditLog /\ tape' = tape /\ batch' = batch
      /\ \A g \in Handles : g # h => phase'[g] = phase[g] /\ cursor'[g] = cursor[g]
      /\ phase[h] = "empty" /\ phase'[h] = "idle" /\ cursor'[h] = Len(auditLog)
  BY <1>1 DEF SkipToEnd
<1>4. ASSUME NEW g \in Handles, g # h PROVE HandleInv(g)'
  BY <1>3, <1>4, OtherHandles
<1>5. HandleInv(h)'
  BY <1>3 DEF HandleInv, BatchFits, Mirrored, Matches
<1> QED
  BY <1>2, <1>4, <1>5

\* The row whose turn it is is the first one the handle has to mirror, so that
\* the cursor passes no other.
LEMMA TurnIs ==
  ASSUME MirrorInv, NEW h \in Handles, phase[h] = "folding", NEW i \in batch[h],
         Turn(h, i)
  PROVE  /\ i \in 1 .. Len(auditLog) /\ cursor[h] < i /\ Matches(h, auditLog[i])
         /\ \A j \in Pending(h) : i <= j
<1> USE DEF MirrorInv, MirrorTypeOK, HandleInv
<1>1. i \in Pending(h) /\ Pending(h) \subseteq Nat
  BY DEF BatchFits, Pending
<1>2. ASSUME NEW j \in Pending(h), j < i PROVE FALSE
  <2>1. j \in batch[h]
    BY <1>2 DEF BatchFits
  <2> QED
    BY <1>1, <1>2, <2>1 DEF Turn
<1> QED
  BY <1>1, <1>2 DEF Pending

\* A row that is folded is on the tape before the cursor passes it.
LEMMA FoldKeeps ==
  ASSUME MirrorInv, NEW h \in Handles, Fold(h)
  PROVE  MirrorInv'
<1> USE DEF MirrorInv, MirrorTypeOK
<1>1. PICK i \in batch[h] :
        /\ Turn(h, i)
        /\ tape' = [tape EXCEPT ![h] = @ \cup {auditLog[i]}]
        /\ cursor' = [cursor EXCEPT ![h] = i]
        /\ batch' = [batch EXCEPT ![h] = @ \ {i}]
        /\ phase' = [phase EXCEPT ![h] = IF batch[h] = {i} THEN "idle" ELSE "folding"]
  BY DEF Fold
<1>2. phase[h] = "folding" /\ auditLog' = auditLog /\ faults' = faults
  BY DEF Fold
<1>3. /\ i \in 1 .. Len(auditLog) /\ cursor[h] < i /\ Matches(h, auditLog[i])
      /\ \A j \in Pending(h) : i <= j
  BY <1>1, <1>2, TurnIs
<1>4. auditLog[i] \in Events /\ auditLog[i] \in ToSet(auditLog)
  BY <1>3 DEF ToSet
<1>5. MirrorTypeOK'
  BY <1>1, <1>2, <1>3, <1>4 DEF Phases
<1>6. ASSUME NEW g \in Handles, g # h PROVE HandleInv(g)'
  BY <1>1, <1>2, <1>6, OtherHandles
<1>7. HandleInv(h)'
  <2> USE DEF HandleInv
  <2>1. /\ cursor'[h] = i /\ batch'[h] = batch[h] \ {i}
        /\ tape'[h] = tape[h] \cup {auditLog[i]} /\ phase'[h] \in {"idle", "folding"}
    BY <1>1
  <2>2. \A j \in Pending(h)' : j \in Pending(h) /\ j > i
    BY <1>2, <1>3, <2>1 DEF Pending, Matches
  <2>3. \A j \in Pending(h) : j # i => j \in Pending(h)'
    BY <1>2, <1>3, <2>1 DEF Pending, Matches
  <2>4. BatchFits(h)'
    BY <1>2, <2>1, <2>2, <2>3 DEF BatchFits
  <2>5. Mirrored(h)'
    BY <1>2, <1>3, <1>4, <2>1 DEF Mirrored, Matches
  <2>6. ASSUME NEW j \in 1 .. Len(auditLog), j <= i, Matches(h, auditLog[j]),
               Covered(h)
        PROVE  auditLog[j] \in tape'[h]
    <3>1. CASE j <= cursor[h]
      BY <2>1, <2>6, <3>1 DEF Covered
    <3>2. CASE j > cursor[h]
      BY <1>3, <2>1, <2>6, <3>2 DEF Pending
    <3> QED
      BY <3>1, <3>2
  <2> QED
    BY <1>2, <1>3, <2>1, <2>4, <2>5, <2>6 DEF Covered, Matches
<1> QED
  BY <1>5, <1>6, <1>7

\* A fold that raises leaves the row behind it to the next repair.
LEMMA FoldRaisesKeeps ==
  ASSUME MirrorInv, NEW h \in Handles, FoldRaises(h)
  PROVE  MirrorInv'
<1> USE DEF MirrorInv, MirrorTypeOK
<1>1. PICK i \in batch[h] :
        /\ Turn(h, i)
        /\ \/ UNCHANGED tape
           \/ tape' = [tape EXCEPT ![h] = @ \cup {auditLog[i]}]
        /\ cursor' = [cursor EXCEPT ![h] = cursor[h]]
  BY DEF FoldRaises, CursorAfterFailure
<1>2. /\ phase[h] = "folding" /\ auditLog' = auditLog /\ faults' \in 0 .. MaxFaults
      /\ phase' = [phase EXCEPT ![h] = "idle"] /\ batch' = [batch EXCEPT ![h] = {}]
  BY MirrorAssumption DEF FoldRaises
<1>3. i \in 1 .. Len(auditLog) /\ Matches(h, auditLog[i])
  BY <1>1, <1>2, TurnIs
<1>4. auditLog[i] \in Events /\ auditLog[i] \in ToSet(auditLog)
  BY <1>3 DEF ToSet
<1>5. /\ cursor' = cursor /\ \A g \in Handles : g # h => tape'[g] = tape[g]
      /\ tape[h] \subseteq tape'[h] /\ tape'[h] \subseteq tape[h] \cup {auditLog[i]}
      /\ tape' \in [Handles -> SUBSET Events]
  BY <1>1, <1>4
<1>6. MirrorTypeOK'
  BY <1>2, <1>5 DEF Phases
<1>7. ASSUME NEW g \in Handles, g # h PROVE HandleInv(g)'
  BY <1>2, <1>5, <1>7, OtherHandles
<1>8. HandleInv(h)'
  BY <1>2, <1>3, <1>4, <1>5 DEF HandleInv, BatchFits, Mirrored, Covered, Matches
<1> QED
  BY <1>6, <1>7, <1>8

LEMMA MirrorNextInv == MirrorInv /\ [MirrorNext]_mirrorVars => MirrorInv'
<1> SUFFICES ASSUME MirrorInv, [MirrorNext]_mirrorVars PROVE MirrorInv'
  OBVIOUS
<1>1. CASE UNCHANGED mirrorVars
  BY <1>1 DEF mirrorVars, MirrorInv, MirrorTypeOK, HandleInv, BatchFits, Mirrored,
              Covered, Pending, Matches
<1>2. CASE MirrorNext
  BY <1>2, CommitKeeps, PhaseKeeps, SelectKeeps, SkipKeeps, FoldKeeps,
     FoldRaisesKeeps DEF MirrorNext, Repair
<1> QED
  BY <1>1, <1>2

\* repair_audit, of the control store and of the journal, for any number of
\* handles, runs and events: whatever raises or stops between the two
\* databases, a handle that mirrors every run leaves no event behind its
\* cursor, and no tape gets an event that is not committed or not its run's.
THEOREM MirrorIsFaithful == MirrorSpec => []MirrorFaithful
<1>1. MirrorInit => MirrorInv
  BY MirrorAssumption DEF MirrorInit, MirrorInv, MirrorTypeOK, HandleInv, BatchFits,
     Mirrored, Covered, Phases
<1>2. MirrorInv => MirrorFaithful
  BY DEF MirrorInv, HandleInv, MirrorFaithful, Mirrored
<1> QED
  BY <1>1, <1>2, MirrorNextInv, PTL DEF MirrorSpec

-----------------------------------------------------------------------------
(***************************************************************************)
(* The connectors over a journal: what a client that is in a write may     *)
(* rely on, and what a row and a reconciler's question say of the provider. *)
(***************************************************************************)

WriteCalls == [key : WriteKeys, channel : Channels, payload : Bodies]

\* A client whose write is under way; its key.
Writing(c) == writing[c] # "idle"
WritesTo(c, k) == Writing(c) /\ call[c].key = k

\* Nobody has sent, or is about to send, a write under k.
NotInFlight(k) == \A c \in Clients : WritesTo(c, k) => writing[c] = "back"

\* The row of k is of one request; before it is inserted nothing happens.
RowFits(k) ==
  /\ writeRow[k] = "none" => sends[k] = 0 /\ k \notin appliedWrites
  /\ writeRow[k] # "none" => request[k] \in
       [kind : Channels, payload : Bodies, id : 0 .. MaxId]
  /\ sends[k] <= 1
  /\ writeRow[k] = "succeeded" =>
       /\ result[k] \in {"rpc error", request[k].payload}
       /\ result[k] # "rpc error" => k \in appliedWrites
  /\ writeRow[k] = "failed" /\ k \notin askedEarly =>
       /\ NotInFlight(k)
       /\ request[k].kind # "mcp" => k \notin appliedWrites

\* The write of c is the only one under its key and is what its row says; what
\* it has sent and what came back say what the provider may have done.
WriteFits(c) ==
  LET k == call[c].key IN
  Writing(c) =>
    /\ call[c] \in WriteCalls
    /\ \A d \in Clients : WritesTo(d, k) => d = c
    /\ writeRow[k] # "none"
    /\ request[k].kind = call[c].channel /\ request[k].payload = call[c].payload
    /\ told[c] = Nothing
    /\ writing[c] = "owner" => sends[k] = 0 /\ k \notin appliedWrites
    /\ writing[c] = "back" =>
         /\ answer[c] \in AnswersOf(call[c].channel)
         /\ answer[c] = "ok" => k \in appliedWrites
         /\ answer[c] = "refused" => k \notin appliedWrites

\* A reconciler asks about a row that is there.  Unless its write was in flight
\* then, it is not in flight now, so that the provider's answer still holds.
InquiryFits ==
  inquiry # "idle" =>
    /\ inquired \in WriteKeys /\ writeRow[inquired] # "none"
    /\ inquired \notin askedEarly => NotInFlight(inquired)
    /\ inquiry = "found" => inquired \in appliedWrites
    /\ inquiry = "missing" /\ inquired \notin askedEarly => inquired \notin appliedWrites

ConnectorsInv ==
  /\ WritesTypeOK /\ ToldTheTruth /\ InquiryFits
  /\ \A k \in WriteKeys : RowFits(k)
  /\ \A c \in Clients : WriteFits(c)

LEMMA ConnectorsStart == WritesInit => ConnectorsInv
<1> SUFFICES ASSUME WritesInit
             PROVE  ConnectorsInv
  OBVIOUS
<1>1. WritesTypeOK
  BY RequestsAreCounted DEF WritesInit, WritesTypeOK
<1>2. /\ \A k \in WriteKeys : writeRow[k] = "none" /\ sends[k] = 0
      /\ \A c \in Clients : writing[c] = "idle" /\ told[c] = Nothing
      /\ appliedWrites = {} /\ inquiry = "idle"
  BY DEF WritesInit
<1>3. ToldTheTruth
  BY <1>2, BodiesAreResults DEF ToldTheTruth
<1>4. InquiryFits /\ \A c \in Clients : WriteFits(c)
  BY <1>2 DEF InquiryFits, WriteFits, Writing
<1>5. \A k \in WriteKeys : RowFits(k)
  <2> SUFFICES ASSUME NEW k \in WriteKeys
               PROVE  RowFits(k)
    OBVIOUS
  <2>1. /\ writeRow[k] = "none" /\ sends[k] = 0 /\ k \notin appliedWrites
        /\ sends[k] <= 1
    BY <1>2
  <2> QED
    BY <2>1 DEF RowFits
<1> QED
  BY <1>1, <1>3, <1>4, <1>5 DEF ConnectorsInv

\* The parts of the type invariant, which the actions change apart.
RowsTyped ==
  /\ writeRow \in [WriteKeys -> {"none", "pending", "uncertain", "succeeded", "failed"}]
  /\ request \in [WriteKeys -> {Nothing} \cup
       [kind : Channels, payload : Bodies, id : 0 .. MaxId]]
  /\ result \in [WriteKeys -> {Nothing, "rpc error"} \cup Bodies]
WorldTyped == sends \in [WriteKeys -> Nat] /\ appliedWrites \subseteq WriteKeys
CallsTyped ==
  /\ writing \in [Clients -> {"idle", "owner", "sent", "back"}]
  /\ call \in [Clients -> {Nothing} \cup WriteCalls]
  /\ answer \in [Clients -> Answers \cup {Nothing}]
  /\ told \in [Clients -> Bodies \cup Verdicts \cup {"rpc error", Nothing}]
LimitsTyped ==
  /\ nextId \in [Clients -> 0 .. MaxId] /\ window \in [Clients -> 0 .. MaxRequests]
  /\ writeFaults \in 0 .. MaxWriteFaults
InquiryTyped ==
  /\ inquiry \in {"idle", "asking", "found", "missing", "raised"}
  /\ inquired \in WriteKeys \cup {Nothing} /\ askedEarly \subseteq WriteKeys

LEMMA Typed ==
  ASSUME ConnectorsInv
  PROVE  RowsTyped /\ WorldTyped /\ CallsTyped /\ LimitsTyped /\ InquiryTyped
BY DEF ConnectorsInv, WritesTypeOK, RowsTyped, WorldTyped, CallsTyped, LimitsTyped,
       InquiryTyped, WriteCalls

LEMMA TypedAgain ==
  ASSUME RowsTyped', WorldTyped', CallsTyped', LimitsTyped', InquiryTyped'
  PROVE  WritesTypeOK'
BY DEF WritesTypeOK, RowsTyped, WorldTyped, CallsTyped, LimitsTyped, InquiryTyped,
       WriteCalls

\* A row that nobody touches, while nobody takes its write up.
LEMMA RowStays ==
  ASSUME NEW k \in WriteKeys, RowFits(k),
         writeRow'[k] = writeRow[k], request'[k] = request[k], result'[k] = result[k],
         sends'[k] = sends[k], k \in appliedWrites' <=> k \in appliedWrites,
         k \in askedEarly => k \in askedEarly',
         NotInFlight(k) => NotInFlight(k)'
  PROVE  RowFits(k)'
BY DEF RowFits

\* A client whose write nobody touches.
LEMMA WriteStays ==
  ASSUME NEW c \in Clients, WriteFits(c),
         writing'[c] = writing[c], call'[c] = call[c], answer'[c] = answer[c],
         told'[c] = told[c],
         Writing(c) => LET k == call[c].key IN
           /\ \A d \in Clients : WritesTo(d, k)' => WritesTo(d, k)
           /\ writeRow[k] # "none" => writeRow'[k] # "none"
           /\ request'[k] = request[k] /\ sends'[k] = sends[k]
           /\ k \in appliedWrites' <=> k \in appliedWrites
  PROVE  WriteFits(c)'
<1>1. Writing(c)' <=> Writing(c)
  BY DEF Writing
<1> SUFFICES ASSUME Writing(c)
             PROVE  WriteFits(c)'
  BY <1>1 DEF WriteFits
<1>k. PICK k : k = call[c].key
  OBVIOUS
<1>2. /\ \A d \in Clients : WritesTo(d, k)' => WritesTo(d, k)
      /\ writeRow[k] # "none" => writeRow'[k] # "none"
      /\ request'[k] = request[k] /\ sends'[k] = sends[k]
      /\ k \in appliedWrites' <=> k \in appliedWrites
  BY <1>k
<1>3. /\ call[c] \in WriteCalls
      /\ \A d \in Clients : WritesTo(d, k) => d = c
      /\ writeRow[k] # "none"
      /\ request[k].kind = call[c].channel /\ request[k].payload = call[c].payload
      /\ told[c] = Nothing
      /\ writing[c] = "owner" => sends[k] = 0 /\ k \notin appliedWrites
      /\ writing[c] = "back" =>
           /\ answer[c] \in AnswersOf(call[c].channel)
           /\ answer[c] = "ok" => k \in appliedWrites
           /\ answer[c] = "refused" => k \notin appliedWrites
  BY <1>k DEF WriteFits
<1>4. k = call'[c].key
  BY <1>k
<1>5. \A d \in Clients : WritesTo(d, k)' => d = c
  BY <1>2, <1>3
<1> QED
  BY <1>2, <1>3, <1>4, <1>5 DEF WriteFits

\* What a caller was told stays true while its row says so.
LEMMA ToldStays ==
  ASSUME ConnectorsInv, appliedWrites \subseteq appliedWrites',
         \A c \in Clients : told'[c] \in Bodies =>
           told'[c] = told[c] /\ call'[c] = call[c],
         \A k \in WriteKeys : writeRow[k] = "succeeded" =>
           writeRow'[k] = "succeeded" /\ result'[k] = result[k]
  PROVE  ToldTheTruth'
<1> SUFFICES ASSUME NEW c \in Clients, told'[c] \in Bodies
             PROVE  /\ told'[c] = call'[c].payload /\ call'[c].key \in appliedWrites'
                    /\ writeRow'[call'[c].key] = "succeeded"
                    /\ result'[call'[c].key] = told'[c]
  BY DEF ToldTheTruth
<1>k. PICK k : k = call[c].key
  OBVIOUS
<1>1. told'[c] = told[c] /\ call'[c] = call[c] /\ told[c] \in Bodies
  OBVIOUS
<1>2. /\ told[c] = call[c].payload /\ k \in appliedWrites
      /\ writeRow[k] = "succeeded" /\ result[k] = told[c]
  BY <1>k, <1>1 DEF ConnectorsInv, ToldTheTruth
<1>3. k \in WriteKeys
  BY <1>2, Typed DEF WorldTyped
<1> QED
  BY <1>k, <1>1, <1>2, <1>3

-----------------------------------------------------------------------------
(* The clients *)

\* What an action that leaves the rows and the writes alone keeps.
LEMMA RestStays ==
  ASSUME ConnectorsInv,
         UNCHANGED <<writeRow, request, result, writing, call, answer, told>>,
         UNCHANGED <<inquiry, inquired, askedEarly, sends, appliedWrites>>
  PROVE  /\ RowsTyped' /\ WorldTyped' /\ CallsTyped' /\ InquiryTyped'
         /\ ToldTheTruth' /\ InquiryFits'
         /\ \A k \in WriteKeys : RowFits(k)'
         /\ \A c \in Clients : WriteFits(c)'
<1>1. RowsTyped' /\ WorldTyped' /\ CallsTyped' /\ InquiryTyped'
  BY Typed DEF RowsTyped, WorldTyped, CallsTyped, InquiryTyped
<1>2. \A k \in WriteKeys : NotInFlight(k)' <=> NotInFlight(k)
  BY DEF NotInFlight, WritesTo, Writing
<1>3. \A k \in WriteKeys : RowFits(k)'
  BY <1>2, RowStays DEF ConnectorsInv
<1>4. \A c \in Clients : WriteFits(c)'
  BY DEF ConnectorsInv, WriteFits, WritesTo, Writing
<1>5. ToldTheTruth'
  BY ToldStays
<1>6. InquiryFits'
  BY <1>2 DEF ConnectorsInv, InquiryFits
<1> QED
  BY <1>1, <1>3, <1>4, <1>5, <1>6

LEMMA WindowMovesKeeps ==
  ASSUME ConnectorsInv, NEW c \in Clients, WindowMoves(c)
  PROVE  ConnectorsInv'
<1>1. /\ window' = [window EXCEPT ![c] = @ - 1] /\ window[c] > 0
      /\ UNCHANGED <<writeRow, request, result, writing, call, answer, told>>
      /\ UNCHANGED <<inquiry, inquired, askedEarly, sends, appliedWrites>>
      /\ UNCHANGED <<nextId, writeFaults>>
  BY DEF WindowMoves, rowVars, reconciler, world
<1>2. LimitsTyped'
  <2>1. LimitsTyped
    BY Typed
  <2>2. window[c] - 1 \in 0 .. MaxRequests
    BY <1>1, <2>1, RequestsAreCounted DEF LimitsTyped
  <2> QED
    BY <1>1, <2>1, <2>2 DEF LimitsTyped
<1> QED
  BY <1>1, <1>2, RestStays, TypedAgain DEF ConnectorsInv

LEMMA ClientDiesKeeps ==
  ASSUME ConnectorsInv, NEW c \in Clients, ClientDies(c)
  PROVE  ConnectorsInv'
<1>1. /\ writeFaults < MaxWriteFaults /\ writeFaults' = writeFaults + 1
      /\ writing' = [writing EXCEPT ![c] = "idle"]
      /\ call' = [call EXCEPT ![c] = Nothing]
      /\ answer' = [answer EXCEPT ![c] = Nothing]
      /\ told' = [told EXCEPT ![c] = Nothing]
      /\ nextId' = [nextId EXCEPT ![c] = 0]
      /\ window' = [window EXCEPT ![c] = 0]
      /\ UNCHANGED <<writeRow, request, result, inquiry, inquired, askedEarly>>
      /\ UNCHANGED <<sends, appliedWrites>>
  BY DEF ClientDies, rowVars, reconciler, world
<1>2. /\ RowsTyped /\ WorldTyped /\ CallsTyped /\ LimitsTyped /\ InquiryTyped
  BY Typed
<1>3. WritesTypeOK'
  <2>1. CallsTyped'
    BY <1>1, <1>2 DEF CallsTyped
  <2>2. LimitsTyped'
    BY <1>1, <1>2, RequestsAreCounted DEF LimitsTyped
  <2>3. RowsTyped' /\ WorldTyped' /\ InquiryTyped'
    BY <1>1, <1>2 DEF RowsTyped, WorldTyped, InquiryTyped
  <2> QED
    BY <2>1, <2>2, <2>3, TypedAgain
<1>4. \A d \in Clients : /\ writing'[d] = IF d = c THEN "idle" ELSE writing[d]
                         /\ d = c => told'[d] = Nothing
                         /\ d # c => call'[d] = call[d] /\ answer'[d] = answer[d]
                                     /\ told'[d] = told[d]
  BY <1>1, <1>2 DEF CallsTyped
<1>5. \A d \in Clients, k \in WriteKeys : WritesTo(d, k)' => WritesTo(d, k) /\ d # c
  BY <1>4 DEF WritesTo, Writing
<1>6. ToldTheTruth'
  <2>1. \A d \in Clients : told'[d] \in Bodies => told'[d] = told[d] /\ call'[d] = call[d]
    BY <1>4, BodiesAreResults
  <2> QED
    BY <1>1, <2>1, ToldStays
<1>7. \A k \in WriteKeys : NotInFlight(k) => NotInFlight(k)'
  BY <1>4, <1>5 DEF NotInFlight
<1>8. \A k \in WriteKeys : RowFits(k)'
  BY <1>1, <1>7, RowStays DEF ConnectorsInv
<1>9. ASSUME NEW d \in Clients
      PROVE  WriteFits(d)'
  <2>1. CASE d = c
    BY <1>4, <2>1 DEF WriteFits, Writing
  <2>2. CASE d # c
    <3>1. WriteFits(d) /\ (Writing(d) => call[d] \in WriteCalls)
      BY DEF ConnectorsInv, WriteFits
    <3>2. Writing(d) => \A x \in Clients : WritesTo(x, call[d].key)' => WritesTo(x, call[d].key)
      <4>1. PICK k : k = call[d].key
        OBVIOUS
      <4>2. Writing(d) => k \in WriteKeys
        BY <3>1, <4>1 DEF WriteCalls
      <4> QED
        BY <1>4, <1>5, <2>2, <4>1, <4>2
    <3> QED
      BY <1>1, <1>4, <2>2, <3>1, <3>2, WriteStays
  <2> QED
    BY <2>1, <2>2
<1>10. InquiryFits'
  BY <1>1, <1>7 DEF ConnectorsInv, InquiryFits
<1> QED
  BY <1>3, <1>6, <1>8, <1>9, <1>10 DEF ConnectorsInv

\* A new call: its row is inserted, or it learns what is there.
LEMMA CallConnectorKeeps ==
  ASSUME ConnectorsInv, NEW c \in Clients, NEW k \in WriteKeys, NEW channel \in Channels,
         NEW p \in Bodies, CallConnector(c, k, channel, p)
  PROVE  ConnectorsInv'
<1>r. PICK r : r = RequestOf(channel, p, nextId[c] + 1)
  OBVIOUS
<1>v. PICK v : v = [key |-> k, channel |-> channel, payload |-> p]
  OBVIOUS
<1>1. /\ writing[c] = "idle"
      /\ channel = "mcp" => nextId[c] < MaxId
      /\ nextId' = [nextId EXCEPT ![c] = IF channel = "mcp" THEN @ + 1 ELSE @]
      /\ call' = [call EXCEPT ![c] = v]
      /\ writing' = [writing EXCEPT ![c] = IF writeRow[k] = "none" THEN "owner" ELSE "idle"]
      /\ writeRow' = [writeRow EXCEPT ![k] = IF writeRow[k] = "none" THEN "pending" ELSE @]
      /\ request' = [request EXCEPT ![k] = IF writeRow[k] = "none" THEN r ELSE @]
      /\ told' = [told EXCEPT ![c] =
           IF writeRow[k] = "none" THEN Nothing
           ELSE IF ~SameRequest(k, r) THEN "other operation"
           ELSE IF writeRow[k] = "succeeded" THEN result[k]
           ELSE "reconcile first"]
  BY <1>r, <1>v DEF CallConnector
<1>u. /\ UNCHANGED <<result, answer, window, writeFaults>>
      /\ UNCHANGED <<inquiry, inquired, askedEarly, sends, appliedWrites>>
  BY DEF CallConnector, reconciler, world
<1>2. RowsTyped /\ WorldTyped /\ CallsTyped /\ LimitsTyped /\ InquiryTyped
  BY Typed
<1>n. /\ nextId[c] \in 0 .. MaxId
      /\ channel = "mcp" => nextId[c] + 1 \in 0 .. MaxId
  <2>1. PICK n : n = nextId[c]
    OBVIOUS
  <2>2. n \in 0 .. MaxId /\ (channel = "mcp" => n < MaxId) /\ MaxId \in Nat
    BY <1>1, <1>2, <2>1, RequestsAreCounted DEF LimitsTyped
  <2>3. channel = "mcp" => n + 1 \in 0 .. MaxId
    BY <2>2
  <2> QED
    BY <2>1, <2>2, <2>3
<1>3. /\ r.kind = channel /\ r.payload = p
      /\ r \in [kind : Channels, payload : Bodies, id : 0 .. MaxId]
  <2>2. channel = "mcp" => nextId[c] + 1 \in 0 .. MaxId
    BY <1>n
  <2>3. 0 \in 0 .. MaxId
    BY RequestsAreCounted
  <2>4. PICK i \in 0 .. MaxId : r = [kind |-> channel, payload |-> p, id |-> i]
    BY <1>r, <2>2, <2>3 DEF RequestOf
  <2> QED
    BY <2>4
<1>4. v \in WriteCalls /\ v.key = k /\ v.channel = channel /\ v.payload = p
  BY <1>v DEF WriteCalls
<1>5. RowsTyped'
  BY <1>1, <1>u, <1>2, <1>3 DEF RowsTyped
<1>6. /\ \A d \in Clients : d # c =>
           /\ writing'[d] = writing[d] /\ call'[d] = call[d]
           /\ answer'[d] = answer[d] /\ told'[d] = told[d]
      /\ call'[c] = v
      /\ writing'[c] = IF writeRow[k] = "none" THEN "owner" ELSE "idle"
  BY <1>1, <1>u, <1>2 DEF CallsTyped
<1>7. told'[c] = IF writeRow[k] = "none" THEN Nothing
                 ELSE IF ~SameRequest(k, r) THEN "other operation"
                 ELSE IF writeRow[k] = "succeeded" THEN result[k]
                 ELSE "reconcile first"
  BY <1>1, <1>2 DEF CallsTyped
<1>8. /\ \A q \in WriteKeys : q # k => writeRow'[q] = writeRow[q] /\ request'[q] = request[q]
      /\ writeRow[k] = "none" => writeRow'[k] = "pending" /\ request'[k] = r
      /\ writeRow[k] # "none" => writeRow'[k] = writeRow[k] /\ request'[k] = request[k]
  BY <1>1, <1>2 DEF RowsTyped
<1>9. CallsTyped'
  <2>1. told'[c] \in Bodies \cup Verdicts \cup {"rpc error", Nothing}
    <3>1. result[k] \in {Nothing, "rpc error"} \cup Bodies
      BY <1>2 DEF RowsTyped
    <3>2. {"other operation", "reconcile first"} \subseteq Verdicts
      BY DEF Verdicts
    <3>3. told'[c] \in {Nothing, "other operation", "reconcile first", result[k]}
      BY <1>7
    <3> QED
      BY <3>1, <3>2, <3>3
  <2>2. told' = [told EXCEPT ![c] = told'[c]]
    BY <1>1, <1>2, <1>7 DEF CallsTyped
  <2> QED
    BY <1>1, <1>u, <1>2, <1>4, <2>1, <2>2 DEF CallsTyped
<1>10. LimitsTyped'
  <2>1. nextId' \in [Clients -> 0 .. MaxId]
    <3>1. PICK n \in 0 .. MaxId : nextId' = [nextId EXCEPT ![c] = n]
      BY <1>1, <1>n
    <3> QED
      BY <1>2, <3>1 DEF LimitsTyped
  <2> QED
    BY <1>u, <1>2, <2>1 DEF LimitsTyped
<1>11. WritesTypeOK'
  <2>1. WorldTyped' /\ InquiryTyped'
    BY <1>u, <1>2 DEF WorldTyped, InquiryTyped
  <2> QED
    BY <1>5, <1>9, <1>10, <2>1, TypedAgain
<1>12. writeRow[k] = "none" => \A d \in Clients : ~WritesTo(d, k)
  BY DEF ConnectorsInv, WriteFits, WritesTo
<1>13. \A d \in Clients, q \in WriteKeys :
         WritesTo(d, q)' <=> IF d = c THEN writeRow[k] = "none" /\ q = k ELSE WritesTo(d, q)
  BY <1>4, <1>6 DEF WritesTo, Writing
<1>14. \A q \in WriteKeys : q # k \/ writeRow[k] # "none" => (NotInFlight(q) => NotInFlight(q)')
  BY <1>6, <1>13 DEF NotInFlight
<1>15. ASSUME NEW q \in WriteKeys
       PROVE  RowFits(q)'
  <2>1. RowFits(q)
    BY DEF ConnectorsInv
  <2>2. CASE q # k \/ writeRow[k] # "none"
    BY <1>u, <1>8, <1>14, <2>1, <2>2, RowStays
  <2>3. CASE q = k /\ writeRow[k] = "none"
    <3>1. sends'[k] = 0 /\ sends'[k] <= 1
      BY <1>u, <2>1, <2>3 DEF RowFits
    <3>2. /\ writeRow'[k] = "pending"
          /\ request'[k] \in [kind : Channels, payload : Bodies, id : 0 .. MaxId]
      BY <1>3, <1>8, <2>3
    <3> QED
      BY <2>3, <3>1, <3>2 DEF RowFits
  <2> QED
    BY <2>2, <2>3
<1>16. ASSUME NEW d \in Clients
       PROVE  WriteFits(d)'
  <2>1. CASE d # c
    <3>1. WriteFits(d)
      BY DEF ConnectorsInv
    <3>2. ASSUME Writing(d)
          PROVE  LET q == call[d].key IN
                 /\ \A x \in Clients : WritesTo(x, q)' => WritesTo(x, q)
                 /\ writeRow[q] # "none" => writeRow'[q] # "none"
                 /\ request'[q] = request[q] /\ sends'[q] = sends[q]
                 /\ q \in appliedWrites' <=> q \in appliedWrites
      <4>1. PICK q : q = call[d].key
        OBVIOUS
      <4>2. q \in WriteKeys /\ WritesTo(d, q)
        BY <3>1, <3>2, <4>1 DEF WriteFits, WriteCalls, WritesTo
      <4>3. q # k \/ writeRow[k] # "none"
        BY <1>12, <4>2
      <4>4. \A x \in Clients : WritesTo(x, q)' => WritesTo(x, q)
        BY <1>13, <4>2, <4>3
      <4> QED
        BY <1>u, <1>6, <1>8, <2>1, <4>1, <4>2, <4>3, <4>4
    <3> QED
      BY <1>6, <2>1, <3>1, <3>2, WriteStays
  <2>2. CASE d = c /\ writeRow[k] # "none"
    BY <1>6, <2>2 DEF WriteFits, Writing
  <2>3. CASE d = c /\ writeRow[k] = "none"
    <3>1. RowFits(k)
      BY DEF ConnectorsInv
    <3>2. sends'[k] = 0 /\ k \notin appliedWrites'
      BY <1>u, <2>3, <3>1 DEF RowFits
    <3>3. \A x \in Clients : WritesTo(x, k)' => x = c
      BY <1>12, <1>13, <2>3
    <3>4. told'[c] = Nothing /\ writing'[c] = "owner" /\ call'[c] = v
      BY <1>6, <1>7, <2>3
    <3>5. writeRow'[k] # "none" /\ request'[k] = r
      BY <1>8, <2>3
    <3> QED
      BY <1>3, <1>4, <2>3, <3>2, <3>3, <3>4, <3>5 DEF WriteFits
  <2> QED
    BY <2>1, <2>2, <2>3
<1>17. ToldTheTruth'
  <2> SUFFICES ASSUME NEW d \in Clients, told'[d] \in Bodies
               PROVE  /\ told'[d] = call'[d].payload /\ call'[d].key \in appliedWrites'
                      /\ writeRow'[call'[d].key] = "succeeded"
                      /\ result'[call'[d].key] = told'[d]
    BY DEF ToldTheTruth
  <2>1. CASE d # c
    <3>1. told'[d] = told[d] /\ call'[d] = call[d]
      BY <1>6, <2>1
    <3>2. PICK q : q = call[d].key
      OBVIOUS
    <3>3. /\ told[d] = call[d].payload /\ q \in appliedWrites
          /\ writeRow[q] = "succeeded" /\ result[q] = told[d]
      BY <3>1, <3>2 DEF ConnectorsInv, ToldTheTruth
    <3>4. q \in WriteKeys
      BY <1>2, <3>3 DEF WorldTyped
    <3>5. writeRow'[q] = "succeeded"
      BY <1>8, <3>3, <3>4
    <3> QED
      BY <1>u, <3>1, <3>2, <3>3, <3>5
  <2>2. CASE d = c
    <3>1. SameRequest(k, r) /\ writeRow[k] = "succeeded" /\ told'[c] = result[k]
      BY <1>7, <2>2, BodiesAreResults DEF Verdicts
    <3>2. result[k] = p /\ k \in appliedWrites
      <4>1. result[k] # "rpc error"
        BY <2>2, <3>1, BodiesAreResults
      <4>2. request[k] = r /\ RowFits(k)
        BY <3>1 DEF SameRequest, ConnectorsInv
      <4> QED
        BY <1>3, <3>1, <4>1, <4>2 DEF RowFits
    <3> QED
      BY <1>u, <1>4, <1>6, <1>8, <2>2, <3>1, <3>2
  <2> QED
    BY <2>1, <2>2
<1>18. InquiryFits'
  <2> SUFFICES ASSUME inquiry # "idle"
               PROVE  InquiryFits'
    BY <1>u DEF InquiryFits
  <2>1. /\ inquired \in WriteKeys /\ writeRow[inquired] # "none"
        /\ inquired \notin askedEarly => NotInFlight(inquired)
        /\ inquiry = "found" => inquired \in appliedWrites
        /\ inquiry = "missing" /\ inquired \notin askedEarly => inquired \notin appliedWrites
    BY DEF ConnectorsInv, InquiryFits
  <2>2. inquired # k \/ writeRow[k] # "none"
    BY <2>1
  <2>3. writeRow'[inquired] # "none"
    BY <1>8, <2>1, <2>2
  <2>4. NotInFlight(inquired) => NotInFlight(inquired)'
    BY <1>u, <1>14, <2>1, <2>2 DEF NotInFlight
  <2> QED
    BY <1>u, <2>1, <2>3, <2>4 DEF InquiryFits
<1> QED
  BY <1>11, <1>15, <1>16, <1>17, <1>18 DEF ConnectorsInv

-----------------------------------------------------------------------------
(* A write that goes on *)

\* What a client in a write knows.
LEMMA WriteIs ==
  ASSUME ConnectorsInv, NEW c \in Clients, Writing(c), NEW k, k = call[c].key
  PROVE  /\ call[c] \in WriteCalls /\ k \in WriteKeys
         /\ call[c].channel \in Channels /\ call[c].payload \in Bodies
         /\ \A d \in Clients : WritesTo(d, k) => d = c
         /\ writeRow[k] # "none" /\ told[c] = Nothing
         /\ request[k].kind = call[c].channel /\ request[k].payload = call[c].payload
         /\ writing[c] = "owner" => sends[k] = 0 /\ k \notin appliedWrites
         /\ writing[c] = "back" =>
              /\ answer[c] \in AnswersOf(call[c].channel)
              /\ answer[c] = "ok" => k \in appliedWrites
              /\ answer[c] = "refused" => k \notin appliedWrites
<1>1. WriteFits(c)
  BY DEF ConnectorsInv
<1> QED
  BY <1>1 DEF WriteFits, WriteCalls

\* The write of c goes on: what it does to its row leaves all others alone.
LEMMA WriteGoesOn ==
  ASSUME ConnectorsInv, NEW c \in Clients, Writing(c), NEW k, k = call[c].key,
         \A d \in Clients : d # c =>
           writing'[d] = writing[d] /\ answer'[d] = answer[d] /\ told'[d] = told[d],
         UNCHANGED <<call, request, inquiry, inquired, askedEarly>>,
         \A q \in WriteKeys : q # k =>
           /\ writeRow'[q] = writeRow[q] /\ result'[q] = result[q]
           /\ sends'[q] = sends[q] /\ (q \in appliedWrites' <=> q \in appliedWrites),
         writeRow'[k] # "none", appliedWrites \subseteq appliedWrites',
         writing[c] = "back" =>
           /\ writing'[c] \in {"back", "idle"}
           /\ k \in appliedWrites' => k \in appliedWrites,
         RowFits(k)', WriteFits(c)'
  PROVE  /\ InquiryFits'
         /\ \A q \in WriteKeys : RowFits(q)'
         /\ \A d \in Clients : WriteFits(d)'
<1>1. k \in WriteKeys /\ \A d \in Clients : WritesTo(d, k) => d = c
  BY WriteIs
<1>2. WritesTo(c, k)
  BY DEF WritesTo
<1>3. \A d \in Clients : \A q \in WriteKeys : WritesTo(d, q)' => WritesTo(d, q)
  BY <1>2 DEF WritesTo, Writing
<1>4. ASSUME NEW q \in WriteKeys, NotInFlight(q)
      PROVE  NotInFlight(q)' /\ (q \in appliedWrites' <=> q \in appliedWrites)
  <2>1. CASE q # k
    <3>1. ASSUME NEW d \in Clients, WritesTo(d, q)'
          PROVE  writing'[d] = "back"
      <4>1. WritesTo(d, q) /\ d # c
        BY <1>2, <1>3, <2>1, <3>1 DEF WritesTo
      <4> QED
        BY <1>4, <4>1 DEF NotInFlight
    <3> QED
      BY <2>1, <3>1 DEF NotInFlight
  <2>2. CASE q = k
    <3>1. writing[c] = "back"
      BY <1>2, <1>4, <2>2 DEF NotInFlight
    <3>2. ASSUME NEW d \in Clients, WritesTo(d, q)'
          PROVE  writing'[d] = "back"
      <4>1. d = c /\ writing'[c] # "idle"
        BY <1>1, <1>3, <2>2, <3>2 DEF WritesTo, Writing
      <4> QED
        BY <3>1, <4>1
    <3> QED
      BY <2>2, <3>1, <3>2 DEF NotInFlight
  <2> QED
    BY <2>1, <2>2
<1>5. ASSUME NEW q \in WriteKeys
      PROVE  RowFits(q)'
  <2>1. CASE q = k
    BY <2>1
  <2>2. CASE q # k
    <3>1. RowFits(q)
      BY DEF ConnectorsInv
    <3>2. /\ request'[q] = request[q]
          /\ q \in askedEarly => q \in askedEarly'
      OBVIOUS
    <3> QED
      BY <1>4, <2>2, <3>1, <3>2, RowStays
  <2> QED
    BY <2>1, <2>2
<1>6. ASSUME NEW d \in Clients
      PROVE  WriteFits(d)'
  <2>1. CASE d = c
    BY <2>1
  <2>2. CASE d # c
    <3>1. WriteFits(d)
      BY DEF ConnectorsInv
    <3>2. PICK q : q = call[d].key
      OBVIOUS
    <3>3. Writing(d) => q \in WriteKeys /\ WritesTo(d, q) /\ q # k
      BY <1>1, <2>2, <3>1, <3>2 DEF WriteFits, WriteCalls, WritesTo
    <3>4. Writing(d) =>
            /\ \A x \in Clients : WritesTo(x, q)' => WritesTo(x, q)
            /\ writeRow[q] # "none" => writeRow'[q] # "none"
            /\ request'[q] = request[q] /\ sends'[q] = sends[q]
            /\ q \in appliedWrites' <=> q \in appliedWrites
      BY <1>3, <3>3
    <3>5. writing'[d] = writing[d] /\ call'[d] = call[d] /\ answer'[d] = answer[d]
          /\ told'[d] = told[d]
      BY <2>2
    <3> QED
      BY <3>1, <3>2, <3>4, <3>5, WriteStays
  <2> QED
    BY <2>1, <2>2
<1>7. InquiryFits'
  <2> SUFFICES ASSUME inquiry # "idle"
               PROVE  InquiryFits'
    BY DEF InquiryFits
  <2>1. /\ inquired \in WriteKeys /\ writeRow[inquired] # "none"
        /\ inquired \notin askedEarly => NotInFlight(inquired)
        /\ inquiry = "found" => inquired \in appliedWrites
        /\ inquiry = "missing" /\ inquired \notin askedEarly => inquired \notin appliedWrites
    BY DEF ConnectorsInv, InquiryFits
  <2>2. writeRow'[inquired] # "none"
    BY <2>1
  <2>3. inquired \notin askedEarly =>
          NotInFlight(inquired)' /\ (inquired \in appliedWrites' <=> inquired \in appliedWrites)
    BY <1>4, <2>1 DEF NotInFlight
  <2> QED
    BY <2>1, <2>2, <2>3 DEF InquiryFits
<1> QED
  BY <1>5, <1>6, <1>7

LEMMA SendKeeps ==
  ASSUME ConnectorsInv, NEW c \in Clients, Send(c)
  PROVE  ConnectorsInv'
<1>k. PICK k : k = call[c].key
  OBVIOUS
<1>1. /\ writing[c] = "owner" /\ Writing(c)
      /\ UNCHANGED <<writeRow, request, result, call, answer, nextId>>
      /\ UNCHANGED <<inquiry, inquired, askedEarly, appliedWrites, writeFaults>>
  BY DEF Send, rowVars, reconciler, Writing
<1>2. RowsTyped /\ WorldTyped /\ CallsTyped /\ LimitsTyped /\ InquiryTyped
  BY Typed
<1>3. /\ call[c] \in WriteCalls /\ k \in WriteKeys
      /\ \A d \in Clients : WritesTo(d, k) => d = c
      /\ writeRow[k] # "none" /\ told[c] = Nothing
      /\ request[k].kind = call[c].channel /\ request[k].payload = call[c].payload
      /\ sends[k] = 0 /\ k \notin appliedWrites
  BY <1>k, <1>1, WriteIs
<1>4. RowsTyped' /\ InquiryTyped'
  BY <1>1, <1>2 DEF RowsTyped, InquiryTyped
<1>5. RowFits(k)
  BY <1>3 DEF ConnectorsInv
<1>6. ~NotInFlight(k)
  BY <1>k, <1>1 DEF NotInFlight, WritesTo
<1>7. CASE /\ told' = [told EXCEPT ![c] = "throttled"]
           /\ writing' = [writing EXCEPT ![c] = "idle"]
           /\ UNCHANGED <<window, sends>>
  <2>1. /\ \A d \in Clients : d # c => writing'[d] = writing[d] /\ told'[d] = told[d]
        /\ writing'[c] = "idle" /\ told'[c] = "throttled"
    BY <1>2, <1>7 DEF CallsTyped
  <2>2. CallsTyped'
    BY <1>1, <1>2, <1>7 DEF CallsTyped, Verdicts
  <2>3. WritesTypeOK'
    BY <1>1, <1>2, <1>4, <1>7, <2>2, TypedAgain DEF LimitsTyped, WorldTyped
  <2>4. RowFits(k)'
    BY <1>1, <1>3, <1>5, <1>6, <1>7, RowStays
  <2>5. WriteFits(c)'
    BY <2>1 DEF WriteFits, Writing
  <2>6. /\ InquiryFits'
        /\ \A q \in WriteKeys : RowFits(q)'
        /\ \A d \in Clients : WriteFits(d)'
    BY <1>k, <1>1, <1>3, <1>7, <2>1, <2>4, <2>5, WriteGoesOn
  <2>7. ToldTheTruth'
    <3>1. "throttled" \notin Bodies
      BY BodiesAreResults DEF Verdicts
    <3> QED
      BY <1>1, <2>1, <3>1, ToldStays
  <2> QED
    BY <2>3, <2>6, <2>7 DEF ConnectorsInv
<1>8. CASE /\ ~Throttled(c)
           /\ writing' = [writing EXCEPT ![c] = "sent"]
           /\ window' = [window EXCEPT ![c] =
                IF call[c].channel = "http" THEN @ + 1 ELSE @]
           /\ sends' = [sends EXCEPT ![call[c].key] = @ + 1]
           /\ UNCHANGED told
  <2>1. /\ \A d \in Clients : d # c => writing'[d] = writing[d]
        /\ writing'[c] = "sent"
    BY <1>2, <1>8 DEF CallsTyped
  <2>2. CallsTyped'
    BY <1>1, <1>2, <1>8 DEF CallsTyped
  <2>3. LimitsTyped'
    <3>1. PICK n : n = window[c]
      OBVIOUS
    <3>2. n \in 0 .. MaxRequests /\ (call[c].channel = "http" => n # MaxRequests)
      BY <1>2, <1>8, <3>1 DEF LimitsTyped, Throttled
    <3>3. call[c].channel = "http" => n + 1 \in 0 .. MaxRequests
      BY <3>2, RequestsAreCounted
    <3>4. PICK m \in 0 .. MaxRequests : window' = [window EXCEPT ![c] = m]
      BY <1>8, <3>1, <3>2, <3>3
    <3> QED
      BY <1>1, <1>2, <3>4 DEF LimitsTyped
  <2>4. /\ WorldTyped' /\ sends'[k] = 1
        /\ \A q \in WriteKeys : q # k => sends'[q] = sends[q]
    BY <1>k, <1>1, <1>2, <1>3, <1>8 DEF WorldTyped
  <2>5. WritesTypeOK'
    BY <1>4, <2>2, <2>3, <2>4, TypedAgain
  <2>6. RowFits(k)'
    <3>1. sends'[k] <= 1
      BY <2>4
    <3> QED
      BY <1>1, <1>3, <1>5, <1>6, <3>1 DEF RowFits
  <2>7. WriteFits(c)'
    <3>1. \A d \in Clients : WritesTo(d, k)' => d = c
      BY <1>1, <1>3, <2>1 DEF WritesTo, Writing
    <3> QED
      BY <1>k, <1>1, <1>3, <1>8, <2>1, <3>1 DEF WriteFits
  <2>8. /\ InquiryFits'
        /\ \A q \in WriteKeys : RowFits(q)'
        /\ \A d \in Clients : WriteFits(d)'
    BY <1>k, <1>1, <1>3, <1>8, <2>1, <2>4, <2>6, <2>7, WriteGoesOn
  <2>9. ToldTheTruth'
    BY <1>1, <1>8, ToldStays
  <2> QED
    BY <2>5, <2>8, <2>9 DEF ConnectorsInv
<1> QED
  BY <1>7, <1>8 DEF Send

LEMMA ProviderWritesKeeps ==
  ASSUME ConnectorsInv, NEW k \in WriteKeys, ProviderWrites(k)
  PROVE  ConnectorsInv'
<1>1. PICK c \in Clients : writing[c] = "sent" /\ call[c].key = k
  BY DEF ProviderWrites
<1>2. /\ appliedWrites' = appliedWrites \cup {k}
      /\ UNCHANGED <<writeRow, request, result, writing, call, answer, told, nextId>>
      /\ UNCHANGED <<window, inquiry, inquired, askedEarly, sends, writeFaults>>
  BY DEF ProviderWrites, rowVars, reconciler, client
<1>3. RowsTyped /\ WorldTyped /\ CallsTyped /\ LimitsTyped /\ InquiryTyped /\ Writing(c)
  BY <1>1, Typed DEF Writing
<1>4. /\ call[c] \in WriteCalls
      /\ \A d \in Clients : WritesTo(d, k) => d = c
      /\ writeRow[k] # "none" /\ told[c] = Nothing
      /\ request[k].kind = call[c].channel /\ request[k].payload = call[c].payload
  BY <1>1, <1>3, WriteIs
<1>5. WritesTypeOK'
  <2>1. WorldTyped'
    BY <1>2, <1>3 DEF WorldTyped
  <2> QED
    BY <1>2, <1>3, <2>1, TypedAgain DEF RowsTyped, CallsTyped, LimitsTyped, InquiryTyped
<1>6. RowFits(k)'
  <2>1. RowFits(k) /\ ~NotInFlight(k)
    BY <1>1, <1>3 DEF ConnectorsInv, NotInFlight, WritesTo
  <2> QED
    BY <1>2, <1>4, <2>1 DEF RowFits
<1>7. WriteFits(c)'
  <2>1. \A d \in Clients : WritesTo(d, k)' => d = c
    BY <1>2, <1>4 DEF WritesTo, Writing
  <2> QED
    BY <1>1, <1>2, <1>4, <2>1 DEF WriteFits
<1>8. /\ InquiryFits'
      /\ \A q \in WriteKeys : RowFits(q)'
      /\ \A d \in Clients : WriteFits(d)'
  BY <1>1, <1>2, <1>3, <1>4, <1>6, <1>7, WriteGoesOn
<1>9. ToldTheTruth'
  BY <1>2, ToldStays
<1> QED
  BY <1>5, <1>8, <1>9 DEF ConnectorsInv

LEMMA ProviderAnswersKeeps ==
  ASSUME ConnectorsInv, NEW c \in Clients, ProviderAnswers(c)
  PROVE  ConnectorsInv'
<1>k. PICK k : k = call[c].key
  OBVIOUS
<1>1. PICK a \in AnswersOf(call[c].channel) :
        /\ a = "ok" => k \in appliedWrites
        /\ a = "refused" => k \notin appliedWrites
        /\ answer' = [answer EXCEPT ![c] = a]
  BY <1>k DEF ProviderAnswers
<1>2. /\ writing[c] = "sent" /\ Writing(c)
      /\ writing' = [writing EXCEPT ![c] = "back"]
      /\ UNCHANGED <<writeRow, request, result, call, told, nextId, window>>
      /\ UNCHANGED <<inquiry, inquired, askedEarly, sends, appliedWrites, writeFaults>>
  BY DEF ProviderAnswers, rowVars, reconciler, world, Writing
<1>3. RowsTyped /\ WorldTyped /\ CallsTyped /\ LimitsTyped /\ InquiryTyped
  BY Typed
<1>4. /\ call[c] \in WriteCalls /\ k \in WriteKeys
      /\ call[c].channel \in Channels
      /\ \A d \in Clients : WritesTo(d, k) => d = c
      /\ writeRow[k] # "none" /\ told[c] = Nothing
      /\ request[k].kind = call[c].channel /\ request[k].payload = call[c].payload
  BY <1>k, <1>2, WriteIs
<1>5. WritesTypeOK'
  <2>1. a \in Answers
    BY <1>1, <1>4 DEF AnswersOf, Answers, Channels
  <2>2. CallsTyped'
    BY <1>1, <1>2, <1>3, <2>1 DEF CallsTyped
  <2> QED
    BY <1>2, <1>3, <2>2, TypedAgain DEF RowsTyped, WorldTyped, LimitsTyped, InquiryTyped
<1>6. /\ \A d \in Clients : d # c => writing'[d] = writing[d] /\ answer'[d] = answer[d]
      /\ writing'[c] = "back" /\ answer'[c] = a
  BY <1>1, <1>2, <1>3 DEF CallsTyped
<1>7. RowFits(k)'
  <2>1. RowFits(k) /\ ~NotInFlight(k)
    BY <1>k, <1>2, <1>4 DEF ConnectorsInv, NotInFlight, WritesTo
  <2> QED
    BY <1>2, <1>4, <2>1, RowStays
<1>8. WriteFits(c)'
  <2>1. \A d \in Clients : WritesTo(d, k)' => d = c
    BY <1>2, <1>4, <1>6 DEF WritesTo, Writing
  <2> QED
    BY <1>k, <1>1, <1>2, <1>4, <1>6, <2>1 DEF WriteFits
<1>9. /\ InquiryFits'
      /\ \A q \in WriteKeys : RowFits(q)'
      /\ \A d \in Clients : WriteFits(d)'
  BY <1>k, <1>2, <1>4, <1>6, <1>7, <1>8, WriteGoesOn
<1>10. ToldTheTruth'
  BY <1>2, ToldStays
<1> QED
  BY <1>5, <1>9, <1>10 DEF ConnectorsInv

LEMMA RecordKeeps ==
  ASSUME ConnectorsInv, NEW c \in Clients, Record(c)
  PROVE  ConnectorsInv'
<1>k. PICK k : k = call[c].key
  OBVIOUS
<1>o. PICK outcome : outcome = OutcomeOf(call[c].channel, answer[c])
  OBVIOUS
<1>a. PICK accepted \in BOOLEAN : accepted <=> writeRow[k] \in SettlesFrom(outcome)
  <2>1. CASE writeRow[k] \in SettlesFrom(outcome)
    BY <2>1, TRUE \in BOOLEAN
  <2>2. CASE writeRow[k] \notin SettlesFrom(outcome)
    BY <2>2, FALSE \in BOOLEAN
  <2> QED
    BY <2>1, <2>2
<1>1. /\ writing[c] = "back" /\ Writing(c)
      /\ writeRow' = [writeRow EXCEPT ![k] = IF accepted THEN outcome ELSE @]
      /\ result' = [result EXCEPT ![k] =
           IF accepted /\ outcome = "succeeded" THEN ResultOf(c) ELSE @]
      /\ writing' = [writing EXCEPT ![c] = "idle"]
      /\ answer' = [answer EXCEPT ![c] = Nothing]
      /\ UNCHANGED <<request, call, nextId, window, writeFaults>>
      /\ UNCHANGED <<inquiry, inquired, askedEarly, sends, appliedWrites>>
  BY <1>k, <1>o, <1>a DEF Record, reconciler, world, Writing
<1>2. PICK t : /\ told' = [told EXCEPT ![c] = t]
               /\ t \in IF outcome = "uncertain" THEN {"uncertain"}
                        ELSE IF accepted
                        THEN {IF outcome = "failed" THEN "failed" ELSE ResultOf(c)}
                        ELSE {"settled by another"} \cup
                             (IF /\ writeRow[k] = outcome /\ outcome = "succeeded"
                                 /\ result[k] = ResultOf(c)
                              THEN {ResultOf(c)} ELSE {})
  BY <1>k, <1>o, <1>a DEF Record
<1>3. RowsTyped /\ WorldTyped /\ CallsTyped /\ LimitsTyped /\ InquiryTyped
  BY Typed
<1>4. /\ call[c] \in WriteCalls /\ k \in WriteKeys
      /\ call[c].payload \in Bodies
      /\ \A d \in Clients : WritesTo(d, k) => d = c
      /\ writeRow[k] # "none"
      /\ request[k].kind = call[c].channel /\ request[k].payload = call[c].payload
      /\ answer[c] = "ok" => k \in appliedWrites
      /\ answer[c] = "refused" => k \notin appliedWrites
  BY <1>k, <1>1, WriteIs
<1>5. /\ outcome \in {"succeeded", "failed", "uncertain"}
      /\ outcome = "failed" =>
           answer[c] = "refused" \/ (answer[c] = "server_error" /\ call[c].channel = "mcp")
  BY <1>o DEF OutcomeOf
<1>6. /\ accepted => writeRow[k] \in {"pending", "uncertain"}
      /\ writeRow[k] = "succeeded" => ~accepted
  BY <1>a DEF SettlesFrom
<1>7. /\ ResultOf(c) \in Bodies \cup {"rpc error"}
      /\ ResultOf(c) # "rpc error" => ResultOf(c) = call[c].payload /\ answer[c] = "ok"
  BY <1>4 DEF ResultOf
<1>8. /\ writeRow'[k] = IF accepted THEN outcome ELSE writeRow[k]
      /\ result'[k] = IF accepted /\ outcome = "succeeded" THEN ResultOf(c) ELSE result[k]
      /\ \A q \in WriteKeys : q # k => writeRow'[q] = writeRow[q] /\ result'[q] = result[q]
  BY <1>1, <1>3, <1>4 DEF RowsTyped
<1>9. /\ \A d \in Clients : d # c =>
           writing'[d] = writing[d] /\ answer'[d] = answer[d] /\ told'[d] = told[d]
      /\ writing'[c] = "idle" /\ told'[c] = t
  BY <1>1, <1>2, <1>3 DEF CallsTyped
<1>10. RowsTyped'
  BY <1>1, <1>3, <1>5, <1>7 DEF RowsTyped
<1>11. CallsTyped'
  <2>1. {"uncertain", "failed", "settled by another"} \subseteq Verdicts
    BY DEF Verdicts
  <2>2. t \in {"uncertain", "failed", "settled by another", ResultOf(c)}
    BY <1>2
  <2>3. t \in Bodies \cup Verdicts \cup {"rpc error", Nothing}
    BY <1>7, <2>1, <2>2
  <2> QED
    BY <1>1, <1>2, <1>3, <2>3 DEF CallsTyped
<1>12. WritesTypeOK'
  BY <1>1, <1>3, <1>10, <1>11, TypedAgain DEF WorldTyped, LimitsTyped, InquiryTyped
<1>13. NotInFlight(k)'
  BY <1>1, <1>4, <1>9 DEF NotInFlight, WritesTo, Writing
<1>14. RowFits(k)'
  <2>1. RowFits(k)
    BY <1>4 DEF ConnectorsInv
  <2>2. /\ writeRow'[k] # "none"
        /\ request'[k] \in [kind : Channels, payload : Bodies, id : 0 .. MaxId]
        /\ sends'[k] <= 1
    BY <1>1, <1>4, <1>5, <1>8, <2>1 DEF RowFits
  <2>3. ASSUME writeRow'[k] = "succeeded"
        PROVE  /\ result'[k] \in {"rpc error", request'[k].payload}
               /\ result'[k] # "rpc error" => k \in appliedWrites'
    <3>1. CASE accepted
      BY <1>1, <1>4, <1>7, <1>8, <2>3, <3>1
    <3>2. CASE ~accepted
      BY <1>1, <1>8, <2>1, <2>3, <3>2 DEF RowFits
    <3> QED
      BY <3>1, <3>2
  <2>4. ASSUME writeRow'[k] = "failed", k \notin askedEarly, request[k].kind # "mcp"
        PROVE  k \notin appliedWrites
    <3>1. CASE accepted
      BY <1>4, <1>5, <1>8, <2>4, <3>1
    <3>2. CASE ~accepted
      BY <1>8, <2>1, <2>4, <3>2 DEF RowFits
    <3> QED
      BY <3>1, <3>2
  <2> QED
    BY <1>1, <1>13, <2>2, <2>3, <2>4 DEF RowFits
<1>15. WriteFits(c)'
  BY <1>9 DEF WriteFits, Writing
<1>16. /\ InquiryFits'
       /\ \A q \in WriteKeys : RowFits(q)'
       /\ \A d \in Clients : WriteFits(d)'
  <2>1. writeRow'[k] # "none"
    BY <1>4, <1>5, <1>8
  <2> QED
    BY <1>k, <1>1, <1>8, <1>9, <1>14, <1>15, <2>1, WriteGoesOn
<1>17. ToldTheTruth'
  <2> SUFFICES ASSUME NEW d \in Clients, told'[d] \in Bodies
               PROVE  /\ told'[d] = call'[d].payload /\ call'[d].key \in appliedWrites'
                      /\ writeRow'[call'[d].key] = "succeeded"
                      /\ result'[call'[d].key] = told'[d]
    BY DEF ToldTheTruth
  <2>1. CASE d # c
    <3>1. told'[d] = told[d] /\ call'[d] = call[d]
      BY <1>1, <1>9, <2>1
    <3>2. PICK q : q = call[d].key
      OBVIOUS
    <3>3. /\ told[d] = call[d].payload /\ q \in appliedWrites
          /\ writeRow[q] = "succeeded" /\ result[q] = told[d]
      BY <3>1, <3>2 DEF ConnectorsInv, ToldTheTruth
    <3>4. q \in WriteKeys
      BY <1>3, <3>3 DEF WorldTyped
    <3>5. writeRow'[q] = "succeeded" /\ result'[q] = result[q]
      BY <1>6, <1>8, <3>3, <3>4
    <3> QED
      BY <1>1, <3>1, <3>2, <3>3, <3>5
  <2>2. CASE d = c
    <3>1. {"uncertain", "failed", "settled by another"} \cap Bodies = {}
      BY BodiesAreResults DEF Verdicts
    <3>2. /\ t = ResultOf(c) /\ t \in Bodies
          /\ \/ accepted /\ outcome = "succeeded"
             \/ ~accepted /\ writeRow[k] = "succeeded" /\ result[k] = ResultOf(c)
      BY <1>2, <1>5, <1>9, <2>2, <3>1
    <3>3. ResultOf(c) = call[c].payload /\ k \in appliedWrites
      BY <1>4, <1>7, <3>2, BodiesAreResults
    <3>4. writeRow'[k] = "succeeded" /\ result'[k] = ResultOf(c)
      BY <1>8, <3>2
    <3> QED
      BY <1>k, <1>1, <1>9, <2>2, <3>2, <3>3, <3>4
  <2> QED
    BY <2>1, <2>2
<1> QED
  BY <1>12, <1>16, <1>17 DEF ConnectorsInv

-----------------------------------------------------------------------------
(* The reconciler *)

\* A row that only the reconciler's question is about.
LEMMA AskingKeeps ==
  ASSUME ConnectorsInv,
         UNCHANGED <<writeRow, request, result, writing, call, answer, told, nextId>>,
         UNCHANGED <<window, sends, appliedWrites, writeFaults>>,
         askedEarly \subseteq askedEarly', InquiryTyped', InquiryFits'
  PROVE  ConnectorsInv'
<1>1. WritesTypeOK'
  BY Typed, TypedAgain DEF RowsTyped, WorldTyped, CallsTyped, LimitsTyped
<1>2. \A k \in WriteKeys : NotInFlight(k)' <=> NotInFlight(k)
  BY DEF NotInFlight, WritesTo, Writing
<1>3. \A k \in WriteKeys : RowFits(k)'
  BY <1>2, RowStays DEF ConnectorsInv
<1>4. \A c \in Clients : WriteFits(c)'
  BY DEF ConnectorsInv, WriteFits, WritesTo, Writing
<1>5. ToldTheTruth'
  BY ToldStays
<1> QED
  BY <1>1, <1>3, <1>4, <1>5 DEF ConnectorsInv

LEMMA StartLookupKeeps ==
  ASSUME ConnectorsInv, NEW k \in WriteKeys, StartLookup(k)
  PROVE  ConnectorsInv'
<1>1. /\ writeRow[k] \in {"pending", "uncertain"}
      /\ inquiry' = "asking" /\ inquired' = k
      /\ askedEarly' = IF InFlight(k) THEN askedEarly \cup {k} ELSE askedEarly
      /\ UNCHANGED <<writeRow, request, result, writing, call, answer, told, nextId>>
      /\ UNCHANGED <<window, sends, appliedWrites, writeFaults>>
  BY DEF StartLookup, rowVars, client, world
<1>2. InquiryTyped'
  BY <1>1, Typed DEF InquiryTyped
<1>3. k \notin askedEarly' => NotInFlight(k)'
  <2>1. \A c \in Clients : writing[c] \in {"idle", "owner", "sent", "back"}
    BY Typed DEF CallsTyped
  <2>2. ~InFlight(k) => NotInFlight(k)
    BY <2>1 DEF InFlight, NotInFlight, WritesTo, Writing
  <2>3. NotInFlight(k) => NotInFlight(k)'
    BY <1>1 DEF NotInFlight, WritesTo, Writing
  <2> QED
    BY <1>1, <2>2, <2>3
<1>4. InquiryFits'
  <2>1. inquiry' = "asking" /\ inquired' = k /\ writeRow'[k] # "none"
    BY <1>1
  <2>2. inquired' \notin askedEarly' => NotInFlight(inquired)'
    BY <1>1, <1>3 DEF NotInFlight, WritesTo, Writing
  <2> QED
    BY <2>1, <2>2 DEF InquiryFits
<1> QED
  BY <1>1, <1>2, <1>4, AskingKeeps

LEMMA LookUpWriteKeeps ==
  ASSUME ConnectorsInv, LookUpWrite
  PROVE  ConnectorsInv'
<1>1. /\ inquiry = "asking"
      /\ inquiry' \in {"raised", IF inquired \in appliedWrites THEN "found" ELSE "missing"}
      /\ UNCHANGED <<writeRow, request, result, writing, call, answer, told, nextId>>
      /\ UNCHANGED <<window, sends, appliedWrites, writeFaults>>
      /\ UNCHANGED <<inquired, askedEarly>>
  BY DEF LookUpWrite, rowVars, client, world
<1>2. InquiryTyped'
  BY <1>1, Typed DEF InquiryTyped
<1>3. InquiryFits'
  <2>1. /\ inquired \in WriteKeys /\ writeRow[inquired] # "none"
        /\ inquired \notin askedEarly => NotInFlight(inquired)
    BY <1>1 DEF ConnectorsInv, InquiryFits
  <2>2. NotInFlight(inquired) => NotInFlight(inquired)'
    BY <1>1 DEF NotInFlight, WritesTo, Writing
  <2> QED
    BY <1>1, <2>1, <2>2 DEF InquiryFits
<1> QED
  BY <1>1, <1>2, <1>3, AskingKeeps

LEMMA RecordAnswerKeeps ==
  ASSUME ConnectorsInv, RecordAnswer
  PROVE  ConnectorsInv'
<1>k. PICK k : k = inquired
  OBVIOUS
<1>o. PICK outcome : outcome = CASE inquiry = "found" -> "succeeded"
                                 [] inquiry = "missing" -> "failed"
                                 [] inquiry = "raised" -> "uncertain"
  OBVIOUS
<1>a. PICK accepted \in BOOLEAN : accepted <=> writeRow[k] \in SettlesFrom(outcome)
  <2>1. CASE writeRow[k] \in SettlesFrom(outcome)
    BY <2>1, TRUE \in BOOLEAN
  <2>2. CASE writeRow[k] \notin SettlesFrom(outcome)
    BY <2>2, FALSE \in BOOLEAN
  <2> QED
    BY <2>1, <2>2
<1>1. /\ inquiry \in {"found", "missing", "raised"}
      /\ writeRow' = [writeRow EXCEPT ![k] = IF accepted THEN outcome ELSE @]
      /\ result' = [result EXCEPT ![k] =
           IF accepted /\ inquiry = "found" THEN request[k].payload ELSE @]
      /\ inquiry' = "idle" /\ inquired' = Nothing
      /\ UNCHANGED <<request, writing, call, answer, told, nextId, window>>
      /\ UNCHANGED <<askedEarly, sends, appliedWrites, writeFaults>>
  BY <1>k, <1>o, <1>a DEF RecordAnswer, client, world
<1>2. RowsTyped /\ WorldTyped /\ CallsTyped /\ LimitsTyped /\ InquiryTyped
  BY Typed
<1>3. /\ k \in WriteKeys /\ writeRow[k] # "none"
      /\ k \notin askedEarly => NotInFlight(k)
      /\ inquiry = "found" => k \in appliedWrites
      /\ inquiry = "missing" /\ k \notin askedEarly => k \notin appliedWrites
  BY <1>k, <1>1 DEF ConnectorsInv, InquiryFits
<1>4. /\ outcome \in {"succeeded", "failed", "uncertain"}
      /\ outcome = "succeeded" <=> inquiry = "found"
      /\ outcome = "failed" <=> inquiry = "missing"
  BY <1>o, <1>1
<1>5. accepted => writeRow[k] \in {"pending", "uncertain"}
  BY <1>a DEF SettlesFrom
<1>6. RowFits(k) /\ request[k] \in [kind : Channels, payload : Bodies, id : 0 .. MaxId]
  BY <1>3 DEF ConnectorsInv, RowFits
<1>7. /\ writeRow'[k] = IF accepted THEN outcome ELSE writeRow[k]
      /\ result'[k] = IF accepted /\ inquiry = "found" THEN request[k].payload ELSE result[k]
      /\ \A q \in WriteKeys : q # k => writeRow'[q] = writeRow[q] /\ result'[q] = result[q]
  BY <1>1, <1>2, <1>3 DEF RowsTyped
<1>8. WritesTypeOK'
  <2>1. request[k].payload \in Bodies
    BY <1>6
  <2>2. RowsTyped'
    BY <1>1, <1>2, <1>4, <2>1 DEF RowsTyped
  <2>3. InquiryTyped'
    BY <1>1, <1>2 DEF InquiryTyped
  <2> QED
    BY <1>1, <1>2, <2>2, <2>3, TypedAgain DEF WorldTyped, CallsTyped, LimitsTyped
<1>9. \A q \in WriteKeys : NotInFlight(q)' <=> NotInFlight(q)
  BY <1>1 DEF NotInFlight, WritesTo, Writing
<1>10. ASSUME NEW q \in WriteKeys
       PROVE  RowFits(q)'
  <2>1. CASE q # k
    BY <1>1, <1>7, <1>9, <2>1, RowStays DEF ConnectorsInv
  <2>2. CASE q = k
    <3>1. CASE accepted
      <4>1. writeRow'[k] = outcome
        BY <1>7, <3>1
      <4>2. sends[k] <= 1
        BY <1>6 DEF RowFits
      <4>3. CASE outcome = "succeeded"
        <5>1. result'[k] = request[k].payload /\ k \in appliedWrites
          BY <1>3, <1>4, <1>7, <3>1, <4>3
        <5> QED
          BY <1>1, <1>6, <2>2, <4>1, <4>2, <4>3, <5>1 DEF RowFits
      <4>4. CASE outcome = "failed"
        <5>1. k \notin askedEarly => NotInFlight(k)' /\ k \notin appliedWrites
          BY <1>3, <1>4, <1>9, <4>4
        <5> QED
          BY <1>1, <1>6, <2>2, <4>1, <4>2, <4>4, <5>1 DEF RowFits
      <4>5. CASE outcome = "uncertain"
        BY <1>1, <1>6, <2>2, <4>1, <4>2, <4>5 DEF RowFits
      <4> QED
        BY <1>4, <4>3, <4>4, <4>5
    <3>2. CASE ~accepted
      <4>1. writeRow'[k] = writeRow[k] /\ result'[k] = result[k]
        BY <1>7, <3>2
      <4> QED
        BY <1>1, <1>3, <1>6, <1>9, <2>2, <4>1, RowStays
    <3> QED
      BY <3>1, <3>2
  <2> QED
    BY <2>1, <2>2
<1>11. ASSUME NEW c \in Clients
       PROVE  WriteFits(c)'
  <2>1. WriteFits(c)
    BY DEF ConnectorsInv
  <2>2. ASSUME Writing(c), NEW q, q = call[c].key
        PROVE  q \in WriteKeys /\ (writeRow[q] # "none" => writeRow'[q] # "none")
    <3>1. q \in WriteKeys
      BY <2>2, WriteIs
    <3> QED
      BY <1>3, <1>4, <1>7, <3>1
  <2>3. Writing(c) =>
          \A d \in Clients : WritesTo(d, call[c].key)' => WritesTo(d, call[c].key)
    BY <1>1 DEF WritesTo, Writing
  <2> QED
    BY <1>1, <2>1, <2>2, <2>3, WriteStays
<1>12. ToldTheTruth'
  <2>1. \A q \in WriteKeys : writeRow[q] = "succeeded" =>
          writeRow'[q] = "succeeded" /\ result'[q] = result[q]
    BY <1>5, <1>7
  <2> QED
    BY <1>1, <2>1, ToldStays
<1>13. InquiryFits'
  BY <1>1 DEF InquiryFits
<1> QED
  BY <1>8, <1>10, <1>11, <1>12, <1>13 DEF ConnectorsInv

LEMMA ConnectorsKeep == ConnectorsInv /\ [WritesNext]_writesVars => ConnectorsInv'
<1> SUFFICES ASSUME ConnectorsInv, [WritesNext]_writesVars
             PROVE  ConnectorsInv'
  OBVIOUS
<1>1. ASSUME NEW c \in Clients, NEW k \in WriteKeys, NEW channel \in Channels,
             NEW p \in Bodies, CallConnector(c, k, channel, p)
      PROVE  ConnectorsInv'
  BY <1>1, CallConnectorKeeps
<1>2. ASSUME NEW c \in Clients,
             Send(c) \/ WindowMoves(c) \/ ProviderAnswers(c) \/ Record(c) \/ ClientDies(c)
      PROVE  ConnectorsInv'
  BY <1>2, SendKeeps, WindowMovesKeeps, ProviderAnswersKeeps, RecordKeeps, ClientDiesKeeps
<1>3. ASSUME NEW k \in WriteKeys, ProviderWrites(k) \/ StartLookup(k)
      PROVE  ConnectorsInv'
  BY <1>3, ProviderWritesKeeps, StartLookupKeeps
<1>4. ASSUME LookUpWrite \/ RecordAnswer
      PROVE  ConnectorsInv'
  BY <1>4, LookUpWriteKeeps, RecordAnswerKeeps
<1>5. ASSUME UNCHANGED writesVars
      PROVE  ConnectorsInv'
  <2>1. /\ UNCHANGED <<writeRow, request, result, writing, call, answer, told, nextId>>
        /\ UNCHANGED <<window, sends, appliedWrites, writeFaults>>
        /\ UNCHANGED <<inquiry, inquired, askedEarly>>
    BY <1>5 DEF writesVars, rowVars, client, reconciler, world
  <2>2. InquiryTyped'
    BY <2>1, Typed DEF InquiryTyped
  <2>3. InquiryFits'
    BY <2>1 DEF ConnectorsInv, InquiryFits, NotInFlight, WritesTo, Writing
  <2> QED
    BY <2>1, <2>2, <2>3, AskingKeeps
<1> QED
  BY <1>1, <1>2, <1>3, <1>4, <1>5 DEF WritesNext

\* For any clients, channels, keys, bodies, answers, crashes and lookups: a key
\* is submitted once, a row says what the provider did as far as the connector
\* can know, and a caller that is told a result is told that of its own write.
THEOREM ConnectorsAreSound == WritesSpec => []ConnectorsSound
<1>1. WritesSpec => []ConnectorsInv
  BY ConnectorsStart, ConnectorsKeep, PTL DEF WritesSpec
<1>2. ConnectorsInv => ConnectorsSound
  <2> SUFFICES ASSUME ConnectorsInv
               PROVE  ConnectorsSound
    OBVIOUS
  <2>1. \A k \in WriteKeys : RowFits(k)
    BY DEF ConnectorsInv
  <2>2. OneSubmission /\ RowsTellTheWorld
    BY <2>1 DEF OneSubmission, RowsTellTheWorld, RowFits
  <2> QED
    BY <2>2 DEF ConnectorsSound, ConnectorsInv
<1> QED
  BY <1>1, <1>2, PTL
=============================================================================
