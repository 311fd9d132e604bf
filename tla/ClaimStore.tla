----------------------------- MODULE ClaimStore -----------------------------
(***************************************************************************)
(* The durable Claim tape (lipas/serialization/store_sqlite.py): several   *)
(* handles fold claims into one SQLite file, each keeps the merged         *)
(* projection of what it has read, and projection snapshots let a later    *)
(* open replay only the claims after them.                                 *)
(*                                                                         *)
(* Merging is not commutative (last_write, append, keep), so a projection  *)
(* is represented by the claims merged into it, in order, each with the    *)
(* fingerprint of the reducer registry it was merged under.                *)
(***************************************************************************)
EXTENDS Naturals, Sequences, FiniteSets, SequencesExt, FiniteSetsExt

CONSTANTS
  Ids, Payloads,    \* claim ids and the contents delivered under them
  Handles,          \* SqliteClaimStore instances, in one or several processes
  Plain, WithRows,  \* registry fingerprints: as opened, and with rows added
  SnapshotInterval, \* snapshot_interval
  KeepSnapshots,    \* the newest snapshots kept per fingerprint (3)
  MaxClaims, MaxFaults

BoundsAreNaturals == {MaxClaims, MaxFaults} \subseteq Nat

VARIABLES
  claims,    \* the claims table in seq order
  snapshots, \* claim_projection_snapshots
  phase,     \* what each handle is doing
  opened,    \* _projection_key, the fingerprint computed at the opening
  registry,  \* the fingerprint of the registry as it is now
  view,      \* _merged
  covered,   \* how many claims the handle's newest snapshot covers
  faults     \* failed snapshots and damaged snapshot rows so far

storeVars == <<claims, snapshots, phase, opened, registry, view, covered, faults>>

Fingerprints == {Plain, WithRows}
Phases == {"closed", "loading", "ready", "due", "writing"}
Claim == [id : Ids, payload : Payloads]
Merged == [claim : Claim, under : Fingerprints]

\* The claims from position n on, merged under fingerprint f.
MergedFrom(cs, n, f) ==
  [i \in 1 .. Len(cs) - n + 1 |-> [claim |-> cs[n + i - 1], under |-> f]]

\* _refresh_existing: merge the rows with seq >= self._seq.
Refreshed(h, cs) == view[h] \o MergedFrom(cs, Len(view[h]) + 1, registry[h])

\* The position a snapshot of this projection covers the tape up to.
CoveredBy(merged) == Len(merged)

\* The newest n snapshots taken under fingerprint f.
Newest(ss, f, n) ==
  {s \in ss : /\ s.key = f
              /\ Cardinality({q \in ss : q.key = f /\ Len(q.view) > Len(s.view)}) < n}

StoreInit ==
  /\ claims = <<>>
  /\ snapshots = {}
  /\ phase = [h \in Handles |-> "closed"]
  /\ opened = [h \in Handles |-> Plain]
  /\ registry = [h \in Handles |-> Plain]
  /\ view = [h \in Handles |-> <<>>]
  /\ covered = [h \in Handles |-> 0]
  /\ faults = 0

-----------------------------------------------------------------------------
(* Opening *)

\* The candidates of _load_existing: same fingerprint, checksum intact.
Usable(f) == {s \in Newest(snapshots, f, KeepSnapshots) : s.intact}

\* The first SELECT of _load_existing: the newest usable snapshot, if any.
Open(h, f) ==
  LET best == {s \in Usable(f) : \A q \in Usable(f) : Len(q.view) <= Len(s.view)}
      start == IF best = {} THEN <<>> ELSE (CHOOSE s \in best : TRUE).view
  IN
  /\ phase[h] = "closed"
  /\ phase' = [phase EXCEPT ![h] = "loading"]
  /\ opened' = [opened EXCEPT ![h] = f]
  /\ registry' = [registry EXCEPT ![h] = f]
  /\ view' = [view EXCEPT ![h] = start]
  /\ covered' = [covered EXCEPT ![h] = CoveredBy(start)]
  /\ UNCHANGED <<claims, snapshots, faults>>

\* The second SELECT: replay the claims after it.
Load(h) ==
  /\ phase[h] = "loading"
  /\ view' = [view EXCEPT ![h] = Refreshed(h, claims)]
  /\ phase' = [phase EXCEPT ![h] = "ready"]
  /\ UNCHANGED <<claims, snapshots, opened, registry, covered, faults>>

\* RowSet.add registers a row's strategies in the registry of an open store.
AddRows(h) ==
  /\ phase[h] = "ready"
  /\ registry' = [registry EXCEPT ![h] = WithRows]
  /\ UNCHANGED <<claims, snapshots, phase, opened, view, covered, faults>>

\* merged and refresh().
Refresh(h) ==
  /\ phase[h] = "ready"
  /\ view' = [view EXCEPT ![h] = Refreshed(h, claims)]
  /\ UNCHANGED <<claims, snapshots, phase, opened, registry, covered, faults>>

-----------------------------------------------------------------------------
(* Folding *)

\* Mutant: the id is looked up in the resident tail only, and nothing else
\* keeps it unique.
Known_ResidentOnly(h, c) ==
  \E i \in covered[h] + 1 .. Len(view[h]) : view[h][i].claim.id = c.id

\* _claim_by_id, under the writer lock.
Known(h, c) == \E i \in 1 .. Len(claims) : claims[i].id = c.id

\* A known id is a repeated delivery (no-op) or a conflict (raises); either
\* way the projection has been refreshed and nothing is appended.
Fold(h, c) ==
  /\ phase[h] = "ready"
  /\ IF Known(h, c)
     THEN /\ view' = [view EXCEPT ![h] = Refreshed(h, claims)]
          /\ UNCHANGED <<claims, phase>>
     ELSE /\ Len(claims) < MaxClaims
          /\ claims' = Append(claims, c)
          /\ view' = [view EXCEPT ![h] = Refreshed(h, claims')]
          /\ phase' = [phase EXCEPT ![h] =
                         IF Len(claims') - covered[h] >= SnapshotInterval
                         THEN "due" ELSE "ready"]
  /\ UNCHANGED <<snapshots, opened, registry, covered, faults>>

-----------------------------------------------------------------------------
(* Snapshots *)

\* An explicit checkpoint_projection(); fold makes its own when one is due.
Checkpoint(h) ==
  /\ phase[h] = "ready"
  /\ phase' = [phase EXCEPT ![h] = "due"]
  /\ UNCHANGED <<claims, snapshots, opened, registry, view, covered, faults>>

\* Mutant: a registry changed since the opening is not noticed.
SameReducer_Unchecked(h) == TRUE

\* The fingerprint is computed again and compared with the one at opening.
SameReducer(h) == registry[h] = opened[h]

\* The refresh, and the checks that refuse or skip the snapshot.
BeginSnapshot(h) ==
  LET merged == Refreshed(h, claims) IN
  /\ phase[h] = "due"
  /\ view' = [view EXCEPT ![h] = merged]
  /\ phase' = [phase EXCEPT ![h] =
                 IF SameReducer(h) /\ Len(merged) > covered[h]
                 THEN "writing" ELSE "ready"]
  /\ UNCHANGED <<claims, snapshots, opened, registry, covered, faults>>

\* The transaction: replace the row of this position, drop all but the newest.
WriteSnapshot(h) ==
  LET taken == [key |-> opened[h], view |-> view[h], intact |-> TRUE]
      others == {s \in snapshots : ~(s.key = taken.key /\ Len(s.view) = Len(taken.view))}
      all == others \cup {taken}
  IN
  /\ phase[h] = "writing"
  /\ snapshots' = {s \in all : s.key # taken.key}
                    \cup Newest(all, taken.key, KeepSnapshots)
  /\ covered' = [covered EXCEPT ![h] = CoveredBy(view[h])]
  /\ phase' = [phase EXCEPT ![h] = "ready"]
  /\ UNCHANGED <<claims, opened, registry, view, faults>>

\* _try_snapshot swallows whatever else goes wrong with a snapshot.
SnapshotFails(h) ==
  /\ phase[h] \in {"due", "writing"}
  /\ faults < MaxFaults
  /\ faults' = faults + 1
  /\ phase' = [phase EXCEPT ![h] = "ready"]
  /\ UNCHANGED <<claims, snapshots, opened, registry, view, covered>>

\* External: a snapshot row is torn or damaged on disk, whatever it then says.
Damage(s) ==
  /\ faults < MaxFaults
  /\ faults' = faults + 1
  /\ snapshots' = (snapshots \ {s}) \cup
                    {[s EXCEPT !.intact = FALSE, !.view = Front(s.view) \o
                        <<[Last(s.view) EXCEPT !.claim = Head(s.view).claim]>>]}
  /\ UNCHANGED <<claims, phase, opened, registry, view, covered>>

\* close(), or the process stops between any two of its steps.
Close(h) ==
  /\ phase[h] # "closed"
  /\ phase' = [phase EXCEPT ![h] = "closed"]
  /\ opened' = [opened EXCEPT ![h] = Plain]
  /\ registry' = [registry EXCEPT ![h] = Plain]
  /\ view' = [view EXCEPT ![h] = <<>>]
  /\ covered' = [covered EXCEPT ![h] = 0]
  /\ UNCHANGED <<claims, snapshots, faults>>

-----------------------------------------------------------------------------
StoreNext ==
  \/ \E h \in Handles, f \in Fingerprints : Open(h, f)
  \/ \E h \in Handles, c \in Claim : Fold(h, c)
  \/ \E h \in Handles : \/ Load(h) \/ AddRows(h) \/ Refresh(h) \/ Checkpoint(h)
                        \/ BeginSnapshot(h) \/ WriteSnapshot(h)
                        \/ SnapshotFails(h) \/ Close(h)
  \/ \E s \in snapshots : Damage(s)

StoreSpec == StoreInit /\ [][StoreNext]_storeVars

-----------------------------------------------------------------------------
(* Properties *)

\* Every variable of the store and its handles has its type.
StoreTypeOK ==
  /\ claims \in Seq(Claim)
  /\ \A s \in snapshots : /\ s.key \in Fingerprints
                          /\ s.view \in Seq(Merged)
                          /\ s.intact \in BOOLEAN
  /\ phase \in [Handles -> Phases]
  /\ opened \in [Handles -> Fingerprints]
  /\ registry \in [Handles -> Fingerprints]
  /\ view \in [Handles -> Seq(Merged)]
  /\ covered \in [Handles -> 0 .. MaxClaims]
  /\ faults \in 0 .. MaxFaults

\* Every projection is the fold of a prefix of the tape, in tape order, each
\* claim once, however it came about: snapshot and replay, refreshes of other
\* processes' claims, repeated deliveries.  A handle whose registry has not
\* changed merged every claim under it.
ViewsAreReplays ==
  \A h \in Handles :
    /\ Len(view[h]) <= Len(claims)
    /\ \A i \in 1 .. Len(view[h]) :
         /\ view[h][i].claim = claims[i]
         /\ registry[h] = opened[h] => view[h][i].under = opened[h]

\* An intact snapshot is what replaying the tape under its fingerprint gives:
\* using it or deleting it changes no projection.
SnapshotsAreReplays ==
  \A s \in snapshots : s.intact =>
    /\ Len(s.view) <= Len(claims)
    /\ s.view = MergedFrom(SubSeq(claims, 1, Len(s.view)), 1, s.key)

\* Whatever a reader can get - a live projection, a snapshot to start from -
\* tells what the tape tells.
ProjectionsFollowTape == StoreTypeOK /\ ViewsAreReplays /\ SnapshotsAreReplays

\* The tape is append-only, and it never holds a claim id twice, whichever
\* handles race to deliver it and whatever their snapshots have emptied.
Tape == INSTANCE ClaimTape WITH tape <- claims
ImplementsClaimTape == Tape!Spec
=============================================================================
