-------------------------- MODULE ClaimStoreProofs --------------------------
(***************************************************************************)
(* Machine-checked proofs about ClaimStore, Supervision and ChangeSet.     *)
(*                                                                         *)
(* ClaimStore: for any handles, claims, snapshot policy and damage, every  *)
(* projection and every snapshot tells what the tape tells, and the store  *)
(* implements ClaimTape.                                                   *)
(*                                                                         *)
(* Supervision: for any runs, cap and crashes, what the Supervisor         *)
(* recommends is within its cap and a run stops as it recorded.            *)
(*                                                                         *)
(* ChangeSet: for any workbenches, files, edits and crashes, the files the *)
(* user leaves alone are delivered whole, and a decision is final.         *)
(***************************************************************************)
EXTENDS ClaimStore, Supervision, ChangeSet, SequenceTheorems, FiniteSetTheorems, TLAPS

Snapshot == [key : Fingerprints, view : Seq(Merged), intact : BOOLEAN]

\* A snapshot in the table or about to be written holds a claim, and the
\* handle that writes it merged all of it under the fingerprint it goes by.
SnapshotsHoldClaims ==
  /\ snapshots \subseteq Snapshot
  /\ \A s \in snapshots : s.view # <<>>
  /\ \A h \in Handles : phase[h] = "writing" =>
       registry[h] = opened[h] /\ view[h] # <<>>

\* Only rows are added to a registry, so one that has them again is unchanged.
RegistriesGrow == \A h \in Handles : registry[h] \in {opened[h], WithRows}

StoreInv ==
  /\ StoreTypeOK /\ Len(claims) <= MaxClaims
  /\ ViewsAreReplays /\ SnapshotsAreReplays /\ SnapshotsHoldClaims
  /\ RegistriesGrow

-----------------------------------------------------------------------------
(* Replays *)

\* The claims merged from a position on, one by one.
LEMMA MergedFromIs ==
  ASSUME NEW ds \in Seq(Claim), NEW n \in Nat, n <= Len(ds), NEW f \in Fingerprints
  PROVE  /\ MergedFrom(ds, n + 1, f) \in Seq(Merged)
         /\ Len(MergedFrom(ds, n + 1, f)) = Len(ds) - n
         /\ \A i \in 1 .. Len(ds) - n :
              MergedFrom(ds, n + 1, f)[i] = [claim |-> ds[n + i], under |-> f]
<1> DEFINE m == MergedFrom(ds, n + 1, f)
           k == Len(ds) - n
<1>1. k \in Nat /\ Len(ds) - (n + 1) + 1 = k
  OBVIOUS
<1>2. \A i \in 1 .. k : (n + 1) + i - 1 = n + i /\ ds[n + i] \in Claim
  OBVIOUS
<1> HIDE DEF k
<1>3. m = [i \in 1 .. k |-> [claim |-> ds[(n + 1) + i - 1], under |-> f]]
  BY <1>1 DEF MergedFrom
<1> HIDE DEF m
<1>4. \A i \in 1 .. k : m[i] = [claim |-> ds[n + i], under |-> f]
  BY <1>2, <1>3
<1>5. ASSUME NEW i \in 1 .. k PROVE m[i] \in Merged
  <2>1. [claim |-> ds[n + i], under |-> f] \in Merged
    BY <1>2 DEF Merged
  <2> QED
    BY <1>4, <2>1
<1> HIDE DEF Merged
<1>6. m \in [1 .. k -> Merged]
  BY <1>3, <1>5
<1>7. m \in Seq(Merged) /\ Len(m) = k
  BY <1>1, <1>6
<1> QED
  BY <1>4, <1>7 DEF m, k

\* A refresh appends what the tape has beyond the projection.
LEMMA RefreshedIs ==
  ASSUME NEW h \in Handles, NEW ds \in Seq(Claim), view[h] \in Seq(Merged),
         Len(view[h]) <= Len(ds), registry[h] \in Fingerprints
  PROVE  /\ Refreshed(h, ds) \in Seq(Merged)
         /\ Len(Refreshed(h, ds)) = Len(ds)
         /\ \A i \in 1 .. Len(ds) :
              Refreshed(h, ds)[i] =
                IF i <= Len(view[h]) THEN view[h][i]
                ELSE [claim |-> ds[i], under |-> registry[h]]
<1> DEFINE v == view[h]
           m == MergedFrom(ds, Len(v) + 1, registry[h])
<1>1. /\ m \in Seq(Merged) /\ Len(m) = Len(ds) - Len(v)
      /\ \A i \in 1 .. Len(ds) - Len(v) :
           m[i] = [claim |-> ds[Len(v) + i], under |-> registry[h]]
  <2>1. Len(v) \in Nat
    OBVIOUS
  <2> QED
    BY <2>1, MergedFromIs
<1>2. Refreshed(h, ds) = v \o m
  BY DEF Refreshed
<1> HIDE DEF m, Merged
<1>3. /\ v \o m \in Seq(Merged) /\ Len(v \o m) = Len(v) + Len(m)
      /\ \A i \in 1 .. Len(v) + Len(m) :
           (v \o m)[i] = IF i <= Len(v) THEN v[i] ELSE m[i - Len(v)]
  BY <1>1, ConcatProperties
<1>4. Len(v) \in Nat /\ Len(ds) \in Nat /\ Len(v) + Len(m) = Len(ds)
  BY <1>1
<1> HIDE DEF v
<1>5. ASSUME NEW i \in 1 .. Len(ds), i > Len(v)
      PROVE  m[i - Len(v)] = [claim |-> ds[i], under |-> registry[h]]
  <2>1. i - Len(v) \in 1 .. Len(ds) - Len(v) /\ Len(v) + (i - Len(v)) = i
    BY <1>4, <1>5
  <2> QED
    BY <1>1, <2>1
<1>6. \A i \in 1 .. Len(ds) :
        (v \o m)[i] = IF i <= Len(v) THEN v[i]
                      ELSE [claim |-> ds[i], under |-> registry[h]]
  <2>1. TAKE i \in 1 .. Len(ds)
  <2>2. (v \o m)[i] = IF i <= Len(v) THEN v[i] ELSE m[i - Len(v)]
    BY <1>3, <1>4
  <2>3. CASE i <= Len(v)
    BY <2>2, <2>3
  <2>4. CASE i > Len(v)
    <3>1. m[i - Len(v)] = [claim |-> ds[i], under |-> registry[h]]
      BY <1>5, <2>4
    <3>2. ~(i <= Len(v))
      BY <1>4, <2>4
    <3> QED
      BY <2>2, <3>1, <3>2
  <2> QED
    BY <1>4, <2>3, <2>4
<1> QED
  BY <1>2, <1>3, <1>4, <1>6 DEF v

\* A projection of a prefix of the tape, merged under one fingerprint, is what
\* replaying that prefix gives.
LEMMA ReplayIs ==
  ASSUME NEW ds \in Seq(Claim), NEW v \in Seq(Merged), NEW f \in Fingerprints,
         Len(v) <= Len(ds),
         \A i \in 1 .. Len(v) : v[i].claim = ds[i] /\ v[i].under = f
  PROVE  v = MergedFrom(SubSeq(ds, 1, Len(v)), 1, f)
<1> DEFINE p == SubSeq(ds, 1, Len(v))
<1>1. p \in Seq(Claim) /\ Len(p) = Len(v) /\ \A i \in 1 .. Len(v) : p[i] = ds[i]
  OBVIOUS
<1> DEFINE m == MergedFrom(p, 0 + 1, f)
<1> HIDE DEF p
<1>2. /\ m \in Seq(Merged) /\ Len(m) = Len(p) - 0
      /\ \A i \in 1 .. Len(p) - 0 : m[i] = [claim |-> p[0 + i], under |-> f]
  <2>1. 0 \in Nat /\ 0 <= Len(p)
    BY <1>1
  <2> QED
    BY <1>1, <2>1, MergedFromIs
<1>3. m = MergedFrom(p, 1, f)
  OBVIOUS
<1> HIDE DEF m
<1>4. Len(m) = Len(v) /\ \A i \in 1 .. Len(v) : m[i] = [claim |-> ds[i], under |-> f]
  BY <1>1, <1>2
<1>5. \A i \in 1 .. Len(v) : v[i] = [claim |-> ds[i], under |-> f]
  <2> SUFFICES ASSUME NEW i \in 1 .. Len(v)
               PROVE  v[i] = [claim |-> ds[i], under |-> f]
    OBVIOUS
  <2>1. v[i] \in Merged /\ v[i].claim = ds[i] /\ v[i].under = f
    OBVIOUS
  <2> QED
    BY <2>1 DEF Merged
<1> HIDE DEF Merged
<1>6. v = m
  <2>1. \A i \in 1 .. Len(v) : v[i] = m[i]
    BY <1>4, <1>5
  <2> QED
    BY <1>2, <1>4, <2>1, SeqEqual
<1> QED
  BY <1>3, <1>6 DEF p

\* And the other way round.
LEMMA IsReplay ==
  ASSUME NEW ds \in Seq(Claim), NEW n \in Nat, NEW f \in Fingerprints, n <= Len(ds),
         NEW v, v = MergedFrom(SubSeq(ds, 1, n), 1, f)
  PROVE  /\ v \in Seq(Merged) /\ Len(v) = n
         /\ \A i \in 1 .. n : v[i].claim = ds[i] /\ v[i].under = f
<1> DEFINE p == SubSeq(ds, 1, n)
<1>1. p \in Seq(Claim) /\ Len(p) = n /\ \A i \in 1 .. n : p[i] = ds[i]
  OBVIOUS
<1>2. v = MergedFrom(p, 0 + 1, f)
  OBVIOUS
<1> HIDE DEF p
<1> HIDE DEF Merged
<1>3. /\ v \in Seq(Merged) /\ Len(v) = Len(p) - 0
      /\ \A i \in 1 .. Len(p) - 0 : v[i] = [claim |-> p[0 + i], under |-> f]
  <2>1. 0 \in Nat /\ 0 <= Len(p)
    BY <1>1
  <2> DEFINE m == MergedFrom(p, 0 + 1, f)
  <2>2. /\ m \in Seq(Merged) /\ Len(m) = Len(p) - 0
        /\ \A i \in 1 .. Len(p) - 0 : m[i] = [claim |-> p[0 + i], under |-> f]
    BY <1>1, <2>1, MergedFromIs
  <2>3. v = m
    BY <1>2
  <2> HIDE DEF m
  <2> QED
    BY <2>2, <2>3
<1>4. Len(v) = n /\ \A i \in 1 .. n : v[i] = [claim |-> ds[i], under |-> f]
  BY <1>1, <1>3
<1>5. ASSUME NEW i \in 1 .. n PROVE v[i].claim = ds[i] /\ v[i].under = f
  <2>1. v[i] = [claim |-> ds[i], under |-> f]
    BY <1>4
  <2> QED
    BY <2>1
<1>6. v \in Seq(Merged)
  BY <1>3
<1>7. Len(v) = n
  BY <1>4
<1> QED
  BY <1>5, <1>6, <1>7

-----------------------------------------------------------------------------
(* The inductive invariant *)

\* An empty store without open handles satisfies the invariant.
LEMMA InitInv == ASSUME BoundsAreNaturals, StoreInit PROVE StoreInv
<1>1. <<>> \in Seq(Claim) /\ <<>> \in Seq(Merged)
  OBVIOUS
<1>2. StoreTypeOK
  BY <1>1 DEF StoreInit, StoreTypeOK, Phases, Fingerprints, BoundsAreNaturals
<1> QED
  BY <1>2 DEF StoreInit, StoreInv, ViewsAreReplays, SnapshotsAreReplays,
     SnapshotsHoldClaims, RegistriesGrow, BoundsAreNaturals

\* What a refresh makes of the projection of a handle.
LEMMA RefreshKeeps ==
  ASSUME StoreInv, NEW h \in Handles, NEW ds \in Seq(Claim),
         Len(claims) <= Len(ds), Len(ds) <= MaxClaims,
         \A i \in 1 .. Len(claims) : ds[i] = claims[i]
  PROVE  LET v == Refreshed(h, ds) IN
         /\ v \in Seq(Merged) /\ Len(v) = Len(ds)
         /\ \A i \in 1 .. Len(ds) :
              /\ v[i].claim = ds[i]
              /\ registry[h] = opened[h] => v[i].under = opened[h]
<1>1. /\ view[h] \in Seq(Merged) /\ registry[h] \in Fingerprints /\ claims \in Seq(Claim)
      /\ Len(view[h]) <= Len(claims)
      /\ \A i \in 1 .. Len(view[h]) :
           /\ view[h][i].claim = claims[i]
           /\ registry[h] = opened[h] => view[h][i].under = opened[h]
  BY DEF StoreInv, StoreTypeOK, ViewsAreReplays
<1>2. Len(view[h]) <= Len(ds)
  BY <1>1
<1>3. /\ Refreshed(h, ds) \in Seq(Merged)
      /\ Len(Refreshed(h, ds)) = Len(ds)
      /\ \A i \in 1 .. Len(ds) :
           Refreshed(h, ds)[i] =
             IF i <= Len(view[h]) THEN view[h][i]
             ELSE [claim |-> ds[i], under |-> registry[h]]
  BY <1>1, <1>2, RefreshedIs
<1> DEFINE v == Refreshed(h, ds)
<1> HIDE DEF v
<1>4. ASSUME NEW i \in 1 .. Len(ds)
      PROVE  v[i].claim = ds[i] /\ (registry[h] = opened[h] => v[i].under = opened[h])
  <2>1. CASE i <= Len(view[h])
    <3>1. i \in 1 .. Len(view[h]) /\ i \in 1 .. Len(claims)
      BY <1>1, <2>1
    <3>2. v[i] = view[h][i]
      BY <1>3, <2>1 DEF v
    <3> QED
      BY <1>1, <3>1, <3>2
  <2>2. CASE ~(i <= Len(view[h]))
    <3>1. v[i] = [claim |-> ds[i], under |-> registry[h]]
      BY <1>3, <2>2 DEF v
    <3> QED
      BY <3>1
  <2> QED
    BY <2>1, <2>2
<1> QED
  BY <1>3, <1>4 DEF v

\* A step that changes no more than the projection, the phase and the
\* fingerprints of one handle keeps the invariant if what it leaves is a replay.
LEMMA HandleKeeps ==
  ASSUME BoundsAreNaturals, StoreInv, NEW h \in Handles,
         NEW p \in Phases, NEW v \in Seq(Merged), NEW o \in Fingerprints,
         NEW g \in Fingerprints, NEW k \in 0 .. MaxClaims,
         UNCHANGED <<claims, snapshots, faults>>,
         phase' = [phase EXCEPT ![h] = p], view' = [view EXCEPT ![h] = v],
         opened' = [opened EXCEPT ![h] = o], registry' = [registry EXCEPT ![h] = g],
         covered' = [covered EXCEPT ![h] = k],
         Len(v) <= Len(claims),
         \A i \in 1 .. Len(v) : v[i].claim = claims[i] /\ (g = o => v[i].under = o),
         p = "writing" => g = o /\ v # <<>>, g \in {o, WithRows}
  PROVE  StoreInv'
<1> USE DEF StoreInv
<1>1. StoreTypeOK'
  BY DEF StoreTypeOK
<1>2. ViewsAreReplays'
  BY DEF ViewsAreReplays, StoreTypeOK
<1>3. SnapshotsAreReplays' /\ SnapshotsHoldClaims' /\ (Len(claims) <= MaxClaims)'
      /\ RegistriesGrow'
  BY DEF SnapshotsAreReplays, SnapshotsHoldClaims, RegistriesGrow, StoreTypeOK
<1> QED
  BY <1>1, <1>2, <1>3

LEMMA OpenKeeps ==
  ASSUME BoundsAreNaturals, StoreInv, NEW h \in Handles, NEW f \in Fingerprints,
         Open(h, f)
  PROVE  StoreInv'
<1> USE DEF StoreInv
<1> DEFINE best == {s \in Usable(f) : \A q \in Usable(f) : Len(q.view) <= Len(s.view)}
           start == IF best = {} THEN <<>> ELSE (CHOOSE s \in best : TRUE).view
<1>1. /\ phase' = [phase EXCEPT ![h] = "loading"]
      /\ opened' = [opened EXCEPT ![h] = f]
      /\ registry' = [registry EXCEPT ![h] = f]
      /\ view' = [view EXCEPT ![h] = start]
      /\ covered' = [covered EXCEPT ![h] = CoveredBy(start)]
      /\ UNCHANGED <<claims, snapshots, faults>>
  BY DEF Open
<1>2. claims \in Seq(Claim)
  BY DEF StoreTypeOK
<1>3. /\ start \in Seq(Merged) /\ Len(start) <= Len(claims)
      /\ \A i \in 1 .. Len(start) : start[i].claim = claims[i] /\ start[i].under = f
  <2>1. CASE best = {}
    <3>1. start = <<>>
      BY <2>1
    <3>2. <<>> \in Seq(Merged) /\ Len(<<>>) = 0
      OBVIOUS
    <3> HIDE DEF start
    <3> QED
      BY <1>2, <3>1, <3>2
  <2>2. CASE best # {}
    <3>1. PICK s \in best : start = s.view
      BY <2>2
    <3>2. s \in snapshots /\ s.intact /\ s.key = f
      BY <3>1 DEF Usable, Newest
    <3>3. /\ s.view \in Seq(Merged) /\ Len(s.view) <= Len(claims)
          /\ s.view = MergedFrom(SubSeq(claims, 1, Len(s.view)), 1, f)
      BY <3>2 DEF SnapshotsAreReplays, StoreTypeOK
    <3>4. Len(s.view) \in Nat
      BY <3>3
    <3>5. \A i \in 1 .. Len(s.view) : s.view[i].claim = claims[i] /\ s.view[i].under = f
      BY <1>2, <3>3, <3>4, IsReplay
    <3> QED
      BY <3>1, <3>3, <3>5
  <2> QED
    BY <2>1, <2>2
<1> HIDE DEF start
<1>4. CoveredBy(start) \in 0 .. MaxClaims
  BY <1>2, <1>3 DEF CoveredBy, BoundsAreNaturals
<1>5. "loading" \in Phases /\ "loading" # "writing" /\ f \in {f, WithRows}
  BY DEF Phases
<1> QED
  BY <1>1, <1>3, <1>4, <1>5, HandleKeeps

\* The steps of a ready handle that read the tape or do less.
LEMMA ReadKeeps ==
  ASSUME BoundsAreNaturals, StoreInv, NEW h \in Handles,
         Load(h) \/ AddRows(h) \/ Refresh(h) \/ Checkpoint(h) \/ BeginSnapshot(h)
           \/ Close(h)
  PROVE  StoreInv'
<1> USE DEF StoreInv
<1>1. /\ claims \in Seq(Claim) /\ Len(claims) <= Len(claims) /\ Len(claims) <= MaxClaims
      /\ view[h] \in Seq(Merged) /\ opened[h] \in Fingerprints
      /\ registry[h] \in Fingerprints /\ covered[h] \in 0 .. MaxClaims
  BY DEF StoreTypeOK
<1>2. /\ phase = [phase EXCEPT ![h] = phase[h]] /\ view = [view EXCEPT ![h] = view[h]]
      /\ opened = [opened EXCEPT ![h] = opened[h]]
      /\ registry = [registry EXCEPT ![h] = registry[h]]
      /\ covered = [covered EXCEPT ![h] = covered[h]]
  BY DEF StoreTypeOK
<1> DEFINE v == Refreshed(h, claims)
<1>3. /\ v \in Seq(Merged) /\ Len(v) = Len(claims)
      /\ \A i \in 1 .. Len(claims) :
           /\ v[i].claim = claims[i]
           /\ registry[h] = opened[h] => v[i].under = opened[h]
  BY <1>1, RefreshKeeps
<1> HIDE DEF v
<1>4. /\ Len(view[h]) <= Len(claims)
      /\ \A i \in 1 .. Len(view[h]) :
           /\ view[h][i].claim = claims[i]
           /\ registry[h] = opened[h] => view[h][i].under = opened[h]
  BY DEF ViewsAreReplays
<1>5. {"closed", "ready", "due", "writing"} \subseteq Phases
      /\ {Plain, WithRows} \subseteq Fingerprints
  BY DEF Phases, Fingerprints
<1>6. /\ registry[h] \in {opened[h], WithRows}
      /\ phase[h] = "writing" => registry[h] = opened[h] /\ view[h] # <<>>
  BY DEF RegistriesGrow, SnapshotsHoldClaims
<1>7. CASE Load(h) \/ Refresh(h)
  <2>1. /\ phase' = [phase EXCEPT ![h] = "ready"] /\ view' = [view EXCEPT ![h] = v]
        /\ opened' = [opened EXCEPT ![h] = opened[h]]
        /\ registry' = [registry EXCEPT ![h] = registry[h]]
        /\ covered' = [covered EXCEPT ![h] = covered[h]]
        /\ UNCHANGED <<claims, snapshots, faults>>
    BY <1>2, <1>7 DEF Load, Refresh, v
  <2>2. "ready" \in Phases /\ "ready" # "writing" /\ Len(v) <= Len(claims)
    BY <1>1, <1>3, <1>5
  <2> QED
    BY <1>1, <1>3, <1>6, <2>1, <2>2, HandleKeeps
<1>8. CASE AddRows(h)
  <2>1. /\ phase' = [phase EXCEPT ![h] = "ready"] /\ view' = [view EXCEPT ![h] = view[h]]
        /\ opened' = [opened EXCEPT ![h] = opened[h]]
        /\ registry' = [registry EXCEPT ![h] = WithRows]
        /\ covered' = [covered EXCEPT ![h] = covered[h]]
        /\ UNCHANGED <<claims, snapshots, faults>>
    BY <1>2, <1>8 DEF AddRows
  <2>2. WithRows = opened[h] => registry[h] = opened[h]
    BY <1>6
  <2>3. "ready" \in Phases /\ "ready" # "writing" /\ WithRows \in Fingerprints
        /\ WithRows \in {opened[h], WithRows}
    BY <1>5
  <2> QED
    BY <1>1, <1>4, <2>1, <2>2, <2>3, HandleKeeps
<1>9. CASE Checkpoint(h)
  <2>1. /\ phase' = [phase EXCEPT ![h] = "due"] /\ view' = [view EXCEPT ![h] = view[h]]
        /\ opened' = [opened EXCEPT ![h] = opened[h]]
        /\ registry' = [registry EXCEPT ![h] = registry[h]]
        /\ covered' = [covered EXCEPT ![h] = covered[h]]
        /\ UNCHANGED <<claims, snapshots, faults>>
    BY <1>2, <1>9 DEF Checkpoint
  <2>2. "due" \in Phases /\ "due" # "writing"
    BY <1>5
  <2> QED
    BY <1>1, <1>4, <1>6, <2>1, <2>2, HandleKeeps
<1>10. CASE BeginSnapshot(h)
  <2> DEFINE p == IF SameReducer(h) /\ Len(v) > covered[h] THEN "writing" ELSE "ready"
  <2>1. /\ phase' = [phase EXCEPT ![h] = p] /\ view' = [view EXCEPT ![h] = v]
        /\ opened' = [opened EXCEPT ![h] = opened[h]]
        /\ registry' = [registry EXCEPT ![h] = registry[h]]
        /\ covered' = [covered EXCEPT ![h] = covered[h]]
        /\ UNCHANGED <<claims, snapshots, faults>>
    BY <1>2, <1>10 DEF BeginSnapshot, v
  <2>2. p \in Phases
    BY DEF Phases
  <2>3. p = "writing" => registry[h] = opened[h] /\ v # <<>>
    <3>1. ASSUME p = "writing" PROVE SameReducer(h) /\ Len(v) > covered[h]
      BY <3>1
    <3>2. Len(<<>>) = 0
      OBVIOUS
    <3> QED
      BY <1>1, <3>1, <3>2 DEF SameReducer
  <2>4. Len(v) <= Len(claims)
    BY <1>1, <1>3
  <2> HIDE DEF p
  <2> QED
    BY <1>1, <1>3, <1>6, <2>1, <2>2, <2>3, <2>4, HandleKeeps
<1>11. CASE Close(h)
  <2>1. <<>> \in Seq(Merged) /\ Len(<<>>) = 0 /\ 0 \in 0 .. MaxClaims
    BY DEF BoundsAreNaturals
  <2>2. "closed" \in Phases /\ "closed" # "writing" /\ Plain \in Fingerprints
        /\ Plain \in {Plain, WithRows} /\ Len(<<>>) <= Len(claims)
        /\ \A i \in 1 .. Len(<<>>) : <<>>[i].claim = claims[i]
                                    /\ (Plain = Plain => <<>>[i].under = Plain)
    BY <1>1, <1>5, <2>1
  <2>3. /\ phase' = [phase EXCEPT ![h] = "closed"] /\ view' = [view EXCEPT ![h] = <<>>]
        /\ opened' = [opened EXCEPT ![h] = Plain]
        /\ registry' = [registry EXCEPT ![h] = Plain]
        /\ covered' = [covered EXCEPT ![h] = 0]
        /\ UNCHANGED <<claims, snapshots, faults>>
    BY <1>11 DEF Close
  <2> QED
    BY <2>1, <2>2, <2>3, HandleKeeps
<1> QED
  BY <1>7, <1>8, <1>9, <1>10, <1>11

\* A claim is appended at the end of the tape, where no projection has got to.
LEMMA FoldKeeps ==
  ASSUME BoundsAreNaturals, StoreInv, NEW h \in Handles, NEW c \in Claim, Fold(h, c)
  PROVE  StoreInv'
<1> USE DEF StoreInv
<1>1. claims \in Seq(Claim) /\ Len(claims) <= MaxClaims
  BY DEF StoreTypeOK
<1>2. CASE Known(h, c)
  <2>1. Refresh(h)
    BY <1>2 DEF Fold, Refresh
  <2> QED
    BY <2>1, ReadKeeps
<1>3. CASE ~Known(h, c)
  <2>1. /\ phase[h] = "ready" /\ Len(claims) < MaxClaims
        /\ claims' = Append(claims, c)
        /\ view' = [view EXCEPT ![h] = Refreshed(h, claims')]
        /\ phase' = [phase EXCEPT ![h] =
                       IF Len(claims') - covered[h] >= SnapshotInterval
                       THEN "due" ELSE "ready"]
        /\ UNCHANGED <<snapshots, opened, registry, covered, faults>>
    BY <1>3 DEF Fold
  <2>2. /\ claims' \in Seq(Claim) /\ Len(claims') = Len(claims) + 1
        /\ Len(claims') <= MaxClaims /\ Len(claims) <= Len(claims')
        /\ \A i \in 1 .. Len(claims) : claims'[i] = claims[i]
    BY <1>1, <2>1 DEF BoundsAreNaturals
  <2> DEFINE v == Refreshed(h, claims')
  <2>3. /\ v \in Seq(Merged) /\ Len(v) = Len(claims')
        /\ \A i \in 1 .. Len(claims') :
             /\ v[i].claim = claims'[i]
             /\ registry[h] = opened[h] => v[i].under = opened[h]
    BY <2>2, RefreshKeeps
  <2> HIDE DEF v
  <2>4. view' = [view EXCEPT ![h] = v]
    BY <2>1 DEF v
  <2>5. StoreTypeOK'
    BY <2>1, <2>2, <2>3, <2>4 DEF StoreTypeOK, Phases
  <2>6. ViewsAreReplays'
    <3>1. ASSUME NEW g \in Handles, g # h
          PROVE  /\ Len(view'[g]) <= Len(claims')
                 /\ \A i \in 1 .. Len(view'[g]) :
                      /\ view'[g][i].claim = claims'[i]
                      /\ registry'[g] = opened'[g] => view'[g][i].under = opened'[g]
      <4>1. view'[g] = view[g] /\ Len(view[g]) <= Len(claims) /\ view[g] \in Seq(Merged)
        BY <2>4, <3>1 DEF StoreTypeOK, ViewsAreReplays
      <4>2. \A i \in 1 .. Len(view[g]) : claims'[i] = claims[i]
        BY <1>1, <2>2, <4>1
      <4> QED
        BY <1>1, <2>1, <2>2, <4>1, <4>2 DEF ViewsAreReplays
    <3>2. view'[h] = v /\ registry' = registry /\ opened' = opened
      BY <2>1, <2>4 DEF StoreTypeOK
    <3> QED
      BY <2>2, <2>3, <3>1, <3>2 DEF ViewsAreReplays
  <2>7. SnapshotsAreReplays'
    <3>1. ASSUME NEW s \in snapshots, s.intact
          PROVE  /\ Len(s.view) <= Len(claims')
                 /\ s.view = MergedFrom(SubSeq(claims', 1, Len(s.view)), 1, s.key)
      <4>1. /\ s.view \in Seq(Merged) /\ s.key \in Fingerprints
            /\ Len(s.view) <= Len(claims)
            /\ s.view = MergedFrom(SubSeq(claims, 1, Len(s.view)), 1, s.key)
        BY <3>1 DEF SnapshotsAreReplays, StoreTypeOK
      <4>2. SubSeq(claims', 1, Len(s.view)) = SubSeq(claims, 1, Len(s.view))
        BY <1>1, <2>2, <4>1
      <4>3. Len(s.view) <= Len(claims')
        BY <1>1, <2>2, <4>1
      <4> QED
        BY <4>1, <4>2, <4>3
    <3>2. snapshots' = snapshots
      BY <2>1
    <3> QED
      BY <3>1, <3>2 DEF SnapshotsAreReplays
  <2>8. SnapshotsHoldClaims' /\ RegistriesGrow'
    BY <2>1 DEF SnapshotsHoldClaims, RegistriesGrow, StoreTypeOK
  <2> QED
    BY <2>2, <2>5, <2>6, <2>7, <2>8
<1> QED
  BY <1>2, <1>3

\* A snapshot that is written replays the prefix of the tape that it covers.
LEMMA WriteSnapshotKeeps ==
  ASSUME BoundsAreNaturals, StoreInv, NEW h \in Handles, WriteSnapshot(h)
  PROVE  StoreInv'
<1> USE DEF StoreInv
<1> DEFINE taken == [key |-> opened[h], view |-> view[h], intact |-> TRUE]
<1>1. /\ phase[h] = "writing"
      /\ snapshots' \subseteq snapshots \cup {taken}
      /\ covered' = [covered EXCEPT ![h] = CoveredBy(view[h])]
      /\ phase' = [phase EXCEPT ![h] = "ready"]
      /\ UNCHANGED <<claims, opened, registry, view, faults>>
  BY DEF WriteSnapshot, Newest
<1>2. /\ view[h] \in Seq(Merged) /\ opened[h] \in Fingerprints /\ claims \in Seq(Claim)
      /\ registry[h] = opened[h] /\ view[h] # <<>> /\ Len(view[h]) <= Len(claims)
      /\ \A i \in 1 .. Len(view[h]) :
           view[h][i].claim = claims[i] /\ view[h][i].under = opened[h]
  BY <1>1 DEF StoreTypeOK, SnapshotsHoldClaims, ViewsAreReplays
<1>3. view[h] = MergedFrom(SubSeq(claims, 1, Len(view[h])), 1, opened[h])
  BY <1>2, ReplayIs
<1>4. /\ taken \in Snapshot /\ taken.view = view[h] /\ taken.key = opened[h]
      /\ taken.intact = TRUE
  BY <1>2 DEF Snapshot
<1> HIDE DEF taken
<1>5. CoveredBy(view[h]) \in 0 .. MaxClaims
  BY <1>2 DEF CoveredBy, BoundsAreNaturals
<1>6. StoreTypeOK'
  <2>1. \A s \in snapshots' : /\ s.key \in Fingerprints /\ s.view \in Seq(Merged)
                              /\ s.intact \in BOOLEAN
    BY <1>1, <1>2, <1>4 DEF StoreTypeOK
  <2> QED
    BY <1>1, <1>5, <2>1 DEF StoreTypeOK, Phases
<1>7. SnapshotsAreReplays'
  BY <1>1, <1>2, <1>3, <1>4 DEF SnapshotsAreReplays
<1>8. ViewsAreReplays' /\ SnapshotsHoldClaims' /\ (Len(claims) <= MaxClaims)'
      /\ RegistriesGrow'
  BY <1>1, <1>2, <1>4 DEF ViewsAreReplays, SnapshotsHoldClaims, RegistriesGrow, StoreTypeOK
<1> QED
  BY <1>6, <1>7, <1>8

\* A failed snapshot changes nothing that is read; damage is noticed.
LEMMA FaultKeeps ==
  ASSUME BoundsAreNaturals, StoreInv,
         (\E h \in Handles : SnapshotFails(h)) \/ \E s \in snapshots : Damage(s)
  PROVE  StoreInv'
<1> USE DEF StoreInv
<1>1. ASSUME NEW h \in Handles, SnapshotFails(h) PROVE StoreInv'
  <2>1. /\ faults < MaxFaults /\ faults' = faults + 1
        /\ phase' = [phase EXCEPT ![h] = "ready"]
        /\ UNCHANGED <<claims, snapshots, opened, registry, view, covered>>
    BY <1>1 DEF SnapshotFails
  <2>2. StoreTypeOK'
    BY <2>1 DEF StoreTypeOK, Phases, BoundsAreNaturals
  <2>3. ViewsAreReplays' /\ SnapshotsAreReplays' /\ SnapshotsHoldClaims' /\ RegistriesGrow'
    BY <2>1 DEF ViewsAreReplays, SnapshotsAreReplays, SnapshotsHoldClaims,
                RegistriesGrow, StoreTypeOK
  <2> QED
    BY <2>1, <2>2, <2>3
<1>2. ASSUME NEW s \in snapshots, Damage(s) PROVE StoreInv'
  <2> DEFINE torn == Front(s.view) \o <<[Last(s.view) EXCEPT !.claim = Head(s.view).claim]>>
             bad == [s EXCEPT !.intact = FALSE, !.view = torn]
  <2>1. /\ faults < MaxFaults /\ faults' = faults + 1
        /\ snapshots' = (snapshots \ {s}) \cup {bad}
        /\ UNCHANGED <<claims, phase, opened, registry, view, covered>>
    BY <1>2 DEF Damage
  <2>2. s \in Snapshot /\ s.view \in Seq(Merged) /\ s.view # <<>>
    BY DEF SnapshotsHoldClaims, Snapshot
  <2>3. torn \in Seq(Merged) /\ torn # <<>>
    <3>1. Len(s.view) \in Nat \ {0} /\ s.view[Len(s.view)] \in Merged /\ Head(s.view) \in Merged
      BY <2>2
    <3>2. Last(s.view) \in Merged
      BY <3>1 DEF Last
    <3>3. [Last(s.view) EXCEPT !.claim = Head(s.view).claim] \in Merged
      BY <3>1, <3>2 DEF Merged
    <3> HIDE DEF Merged
    <3>4. Front(s.view) \in Seq(Merged)
      BY <2>2, <3>1 DEF Front
    <3> QED
      BY <3>3, <3>4
  <2> HIDE DEF torn
  <2>4. bad \in Snapshot /\ bad.intact = FALSE /\ bad.view = torn
    BY <2>2, <2>3 DEF Snapshot
  <2> HIDE DEF bad
  <2>5. StoreTypeOK'
    <3>1. bad.key \in Fingerprints /\ bad.view \in Seq(Merged) /\ bad.intact \in BOOLEAN
      BY <2>4 DEF Snapshot
    <3> QED
      BY <2>1, <3>1 DEF StoreTypeOK, BoundsAreNaturals
  <2>6. ViewsAreReplays' /\ SnapshotsAreReplays' /\ SnapshotsHoldClaims' /\ RegistriesGrow'
    BY <2>1, <2>3, <2>4 DEF ViewsAreReplays, SnapshotsAreReplays, SnapshotsHoldClaims,
                            RegistriesGrow
  <2> QED
    BY <2>1, <2>5, <2>6
<1> QED
  BY <1>1, <1>2

\* Every step of a handle, and damage, keep the invariant.
LEMMA NextInv ==
  ASSUME BoundsAreNaturals, StoreInv, [StoreNext]_storeVars
  PROVE  StoreInv'
<1>1. CASE UNCHANGED storeVars
  BY <1>1 DEF storeVars, StoreInv, StoreTypeOK, ViewsAreReplays, SnapshotsAreReplays,
              SnapshotsHoldClaims, RegistriesGrow
<1>2. CASE StoreNext
  BY <1>2, OpenKeeps, ReadKeeps, FoldKeeps, WriteSnapshotKeeps, FaultKeeps DEF StoreNext
<1> QED
  BY <1>1, <1>2

-----------------------------------------------------------------------------
\* store_sqlite.py refresh, snapshot and fold, for any handles and any damage:
\* a projection is the replay of a prefix of the tape, however it came about,
\* and an intact snapshot too, so that using or dropping one changes nothing.
THEOREM ProjectionsAreReplays ==
  ASSUME BoundsAreNaturals PROVE StoreSpec => []ProjectionsFollowTape
<1>1. StoreInv => ProjectionsFollowTape
  BY DEF StoreInv, ProjectionsFollowTape
<1>2. StoreInit => StoreInv
  BY InitInv
<1>3. StoreInv /\ [StoreNext]_storeVars => StoreInv'
  BY NextInv
<1> QED
  BY <1>1, <1>2, <1>3, PTL DEF StoreSpec

\* The store implements the tape: claims are only appended, and never under an
\* id that is on it, whichever handles race to fold them (the look-up of
\* _claim_by_id under the writer lock).
THEOREM Refinement == StoreSpec => ImplementsClaimTape
<1>1. StoreInit => Tape!Init
  BY DEF StoreInit, Tape!Init
<1>2. [StoreNext]_storeVars => [Tape!Next]_claims
  <2>1. ASSUME NEW h \in Handles, NEW c \in Claim, Fold(h, c)
        PROVE  [Tape!Next]_claims
    <3>1. CASE Known(h, c)
      BY <2>1, <3>1 DEF Fold
    <3>2. CASE ~Known(h, c)
      <4>1. claims' = Append(claims, c) /\ \A i \in 1 .. Len(claims) : claims[i].id # c.id
        BY <2>1, <3>2 DEF Fold, Known
      <4> QED
        BY <4>1 DEF Tape!Next, Tape!Admit, Tape!Claim, Claim
    <3> QED
      BY <3>1, <3>2
  <2>2. ASSUME StoreNext, ~\E h \in Handles, c \in Claim : Fold(h, c)
        PROVE  claims' = claims
    BY <2>2 DEF StoreNext, Open, Load, AddRows, Refresh, Checkpoint, BeginSnapshot,
                WriteSnapshot, SnapshotFails, Close, Damage
  <2> QED
    BY <2>1, <2>2 DEF storeVars
<1> QED
  BY <1>1, <1>2, PTL DEF StoreSpec, ImplementsClaimTape, Tape!Spec

-----------------------------------------------------------------------------
(* The Supervisor *)

ActionIds == DurableRuns \X Nat \X Nat
Recommendations == [tag : {"retry", "escalate"}, attempt : Nat, id : ActionIds]
Blocks == [tag : {"goal_blocked"}, id : ActionIds \X {"goal-blocked"}, source : Nat]
Failed == [tag |-> "failure"]
TapeClaims == {Failed} \cup Recommendations \cup Blocks

SupervisorTypeOK ==
  /\ together \in BOOLEAN
  /\ tape \in Seq(TapeClaims)
  /\ iteration \in [DurableRuns -> Nat]
  /\ pc \in [DurableRuns ->
              {"work", "fold", "pair", "checkpoint", "stopped", "completed", "failed"}]
  /\ pending \in [DurableRuns -> Seq(Recommendations)]

\* The tape holds a claim id once.
IdsAreUnique ==
  \A m, n \in 1 .. Len(tape) :
    tape[m].tag # "failure" /\ tape[n].tag # "failure" /\ tape[m].id = tape[n].id
      => m = n

\* In one process the retries are attempts 1, 2 and so on, each once.
AttemptsInOrder ==
  together =>
    \A n \in Tagged("retry") :
      /\ tape[n].attempt <= MaxAttempts
      /\ tape[n].attempt <= Cardinality(Tagged("retry"))
      /\ \A m \in Tagged("retry") : tape[m].attempt = tape[n].attempt => m = n

\* A retry is the first action of its tick.
RetriesComeFirst == \A n \in Tagged("retry") : tape[n].id[3] = 1

\* What blocked a goal is earlier on the tape.
BlocksFollow == \A g \in Tagged("goal_blocked") : tape[g].source < g

\* The ticks of one process do not interleave.
OneTick ==
  together => \A r, s \in DurableRuns : Ticking(r) /\ Ticking(s) => r = s

HasEscalated(r) ==
  \E n \in Tagged("escalate") :
    tape[n].id[1] = r /\ tape[n].id[2] = iteration[r] /\ IsPaired(n)

\* A tick has at most a retry and an escalation left, in this order, under ids
\* of its iteration; the next retry is the attempt after all on the tape.
PendingFits(r) ==
  LET p == pending[r] IN
  /\ pc[r] = "fold" => Len(p) \in {1, 2} /\ (Len(p) = 2 =>
                         p[1].tag = "retry" /\ p[2].tag = "escalate")
  /\ pc[r] = "pair" => /\ Len(p) = 1 /\ p[1].tag = "escalate"
                       /\ \E n \in Tagged("escalate") : tape[n] = p[1]
  /\ pc[r] \in {"fold", "pair"} => \A k \in 1 .. Len(p) :
       /\ p[k].id[1] = r /\ p[k].id[2] = iteration[r]
       /\ p[k].tag = "retry" => p[k].id[3] = 1
       /\ p[k].tag = "escalate" => Cardinality(Tagged("failure")) >= 2
  /\ pc[r] = "checkpoint" => p = <<>> \/ HasEscalated(r)
  /\ pc[r] = "stopped" => HasEscalated(r)
  /\ together /\ pc[r] = "fold" /\ p[1].tag = "retry" =>
       p[1].attempt = PriorRetries(r) + 1 /\ p[1].attempt <= MaxAttempts

\* A run that escalated is in the iteration that did and ends in it.
EscalationsFit(r) ==
  \A n \in Tagged("escalate") : tape[n].id[1] = r =>
    /\ tape[n].id[2] = iteration[r]
    /\ Cardinality(Tagged("failure")) >= 2
    /\ pc[r] # "completed"
    /\ pc[r] = "fold" => pending[r][Len(pending[r])].tag = "escalate"
    /\ pc[r] = "checkpoint" => pending[r] # <<>>

TapeFits ==
  IdsAreUnique /\ AttemptsInOrder /\ RetriesComeFirst /\ BlocksFollow

SupervisorInv ==
  /\ SupervisorTypeOK /\ TapeFits /\ OneTick
  /\ \A r \in DurableRuns : PendingFits(r) /\ EscalationsFit(r)

-----------------------------------------------------------------------------
\* The claims with a tag are finitely many.
LEMMA TaggedAreFinite ==
  ASSUME tape \in Seq(TapeClaims), NEW tag
  PROVE  /\ Tagged(tag) \subseteq 1 .. Len(tape)
         /\ IsFiniteSet(Tagged(tag)) /\ Cardinality(Tagged(tag)) \in Nat
<1>1. Len(tape) \in Nat
  OBVIOUS
<1>2. Tagged(tag) \subseteq 1 .. Len(tape)
  BY DEF Tagged
<1>3. IsFiniteSet(1 .. Len(tape))
  BY <1>1, FS_Interval
<1>4. IsFiniteSet(Tagged(tag))
  BY <1>2, <1>3, FS_Subset
<1> QED
  BY <1>2, <1>4, FS_CardinalityType

\* Folding a claim adds it at the end, under its own tag.
LEMMA TapeAppends ==
  ASSUME tape \in Seq(TapeClaims), NEW e \in TapeClaims, tape' = Append(tape, e)
  PROVE  /\ tape' \in Seq(TapeClaims) /\ Len(tape') = Len(tape) + 1
         /\ Len(tape) \in Nat
         /\ \A n \in 1 .. Len(tape) : tape'[n] = tape[n]
         /\ tape'[Len(tape) + 1] = e
         /\ \A n \in 1 .. Len(tape') : n \in 1 .. Len(tape) \/ n = Len(tape) + 1
<1>1. Len(tape) \in Nat
  OBVIOUS
<1>2. /\ tape' \in Seq(TapeClaims) /\ Len(tape') = Len(tape) + 1
      /\ \A n \in 1 .. Len(tape) : tape'[n] = tape[n]
      /\ tape'[Len(tape) + 1] = e
  BY AppendProperties
<1> QED
  BY <1>1, <1>2

LEMMA TaggedAppends ==
  ASSUME tape \in Seq(TapeClaims), NEW e \in TapeClaims, tape' = Append(tape, e), NEW t
  PROVE  /\ e.tag = t => Tagged(t)' = Tagged(t) \cup {Len(tape) + 1}
         /\ e.tag # t => Tagged(t)' = Tagged(t)
         /\ Len(tape) + 1 \notin Tagged(t)
         /\ e.tag = t => Cardinality(Tagged(t)') = Cardinality(Tagged(t)) + 1
<1>1. /\ Len(tape') = Len(tape) + 1 /\ Len(tape) \in Nat
      /\ \A n \in 1 .. Len(tape) : tape'[n] = tape[n]
      /\ tape'[Len(tape) + 1] = e
  BY TapeAppends
<1> DEFINE k == Len(tape) + 1
<1>2. 1 .. Len(tape') = (1 .. Len(tape)) \cup {k} /\ k \notin 1 .. Len(tape)
  BY <1>1
<1>3. \A n : n \in Tagged(t)' <=> n \in 1 .. Len(tape') /\ tape'[n].tag = t
  BY DEF Tagged
<1>4. \A n : n \in Tagged(t) <=> n \in 1 .. Len(tape) /\ tape[n].tag = t
  BY DEF Tagged
<1> HIDE DEF k
<1>5. tape'[k] = e
  BY <1>1 DEF k
<1>6. e.tag = t => Tagged(t)' = Tagged(t) \cup {k}
  BY <1>1, <1>2, <1>3, <1>4, <1>5
<1>7. ASSUME e.tag # t PROVE Tagged(t)' = Tagged(t)
  <2>1. \A n : n \in Tagged(t)' <=> n \in Tagged(t)
    BY <1>1, <1>2, <1>3, <1>4, <1>5, <1>7
  <2> QED
    BY <2>1
<1>8. k \notin Tagged(t)
  BY <1>2, <1>4
<1>9. IsFiniteSet(Tagged(t))
  BY TaggedAreFinite
<1>10. e.tag = t => Cardinality(Tagged(t)') = Cardinality(Tagged(t)) + 1
  BY <1>6, <1>8, <1>9, FS_AddElement
<1> QED
  BY <1>6, <1>7, <1>8, <1>10 DEF k

\* What the tape tells stays told.
LEMMA TapeKeeps ==
  ASSUME tape \in Seq(TapeClaims),
         tape' = tape \/ \E e \in TapeClaims : tape' = Append(tape, e)
  PROVE  /\ tape' \in Seq(TapeClaims) /\ Len(tape') >= Len(tape)
         /\ \A n \in 1 .. Len(tape) : tape'[n] = tape[n] /\ n \in 1 .. Len(tape')
         /\ \A t : Tagged(t) \subseteq Tagged(t)'
         /\ Cardinality(Tagged("failure")') >= Cardinality(Tagged("failure"))
         /\ \A n \in 1 .. Len(tape) : IsPaired(n) => IsPaired(n)'
<1>1. Len(tape) \in Nat /\ Cardinality(Tagged("failure")) \in Nat
  BY TaggedAreFinite
<1>2. /\ tape' \in Seq(TapeClaims) /\ Len(tape') >= Len(tape) /\ Len(tape') \in Nat
      /\ \A n \in 1 .. Len(tape) : tape'[n] = tape[n]
  BY <1>1, TapeAppends
<1>3. \A n \in 1 .. Len(tape) : n \in 1 .. Len(tape')
  BY <1>1, <1>2
<1>4. ASSUME NEW t PROVE Tagged(t) \subseteq Tagged(t)'
  <2>1. \A n : n \in Tagged(t)' <=> n \in 1 .. Len(tape') /\ tape'[n].tag = t
    BY DEF Tagged
  <2>2. \A n : n \in Tagged(t) <=> n \in 1 .. Len(tape) /\ tape[n].tag = t
    BY DEF Tagged
  <2> QED
    BY <1>2, <1>3, <2>1, <2>2
<1>5. Cardinality(Tagged("failure")') >= Cardinality(Tagged("failure"))
  <2>1. CASE tape' = tape
    <3>1. Tagged("failure")' = Tagged("failure")
      BY <2>1 DEF Tagged
    <3> QED
      BY <3>1, <1>1
  <2>2. CASE \E e \in TapeClaims : tape' = Append(tape, e)
    <3>1. PICK e \in TapeClaims : tape' = Append(tape, e)
      BY <2>2
    <3>2. \/ Cardinality(Tagged("failure")') = Cardinality(Tagged("failure")) + 1
          \/ Tagged("failure")' = Tagged("failure")
      BY <3>1, TaggedAppends
    <3> QED
      BY <3>2, <1>1
  <2> QED
    BY <2>1, <2>2
<1>6. ASSUME NEW n \in 1 .. Len(tape), IsPaired(n) PROVE IsPaired(n)'
  <2>1. PICK g \in n + 1 .. Len(tape) : tape[g].tag = "goal_blocked" /\ tape[g].source = n
    BY <1>6 DEF IsPaired
  <2>2. g \in 1 .. Len(tape) /\ g \in n + 1 .. Len(tape')
    BY <2>1, <1>1, <1>2
  <2>3. tape'[g] = tape[g]
    BY <2>2, <1>2
  <2> QED
    BY <2>1, <2>2, <2>3 DEF IsPaired
<1> QED
  BY <1>2, <1>3, <1>4, <1>5, <1>6

\* A step of another run leaves what is asked of a run, if what it folds is
\* its own and no two runs of one process tick.
LEMMA OtherRunsFit ==
  ASSUME SupervisorInv, NEW r \in DurableRuns, NEW s \in DurableRuns, s # r,
         tape' = tape \/ \E e \in TapeClaims :
           tape' = Append(tape, e) /\ MayStep(r) /\ (e.tag = "escalate" => e.id[1] = r),
         together' = together, iteration'[s] = iteration[s], pc'[s] = pc[s],
         pending'[s] = pending[s]
  PROVE  PendingFits(s)' /\ EscalationsFit(s)'
<1>1. tape \in Seq(TapeClaims)
  BY DEF SupervisorInv, SupervisorTypeOK
<1>2. PendingFits(s) /\ EscalationsFit(s)
  BY DEF SupervisorInv
<1>3. tape' = tape \/ \E e \in TapeClaims : tape' = Append(tape, e)
  OBVIOUS
<1>4. /\ \A n \in 1 .. Len(tape) : tape'[n] = tape[n] /\ n \in 1 .. Len(tape')
      /\ \A t : Tagged(t) \subseteq Tagged(t)'
      /\ Cardinality(Tagged("failure")') >= Cardinality(Tagged("failure"))
      /\ \A n \in 1 .. Len(tape) : IsPaired(n) => IsPaired(n)'
  BY <1>1, <1>3, TapeKeeps
<1>5. \A t : Tagged(t) \subseteq 1 .. Len(tape)
  BY DEF Tagged
<1>6. HasEscalated(s) => HasEscalated(s)'
  BY <1>4, <1>5 DEF HasEscalated
<1>7. together /\ pc[s] = "fold" => tape' = tape
  BY DEF MayStep, Ticking
<1>8. tape' = tape => PriorRetries(s)' = PriorRetries(s)
  BY DEF PriorRetries, Tagged
<1>9. (\E n \in Tagged("escalate") : tape[n] = pending[s][1]) =>
        \E n \in Tagged("escalate")' : tape'[n] = pending'[s][1]
  BY <1>4, <1>5
<1>13. Cardinality(Tagged("failure")) >= 2 => Cardinality(Tagged("failure")') >= 2
  <2>1. Cardinality(Tagged("failure")) \in Nat
    BY <1>1, TaggedAreFinite
  <2>2. tape' \in Seq(TapeClaims)
    BY <1>1, <1>3, TapeKeeps
  <2>3. IsFiniteSet(1 .. Len(tape')) /\ Tagged("failure")' \subseteq 1 .. Len(tape')
    BY <2>2, FS_Interval DEF Tagged
  <2>4. Cardinality(Tagged("failure")') \in Nat
    BY <2>3, FS_Subset, FS_CardinalityType
  <2> QED
    BY <2>1, <2>4, <1>4
<1>10. PendingFits(s)'
  <2>1. \A k \in 1 .. Len(pending[s])' :
          pending'[s][k] = pending[s][k] /\ k \in 1 .. Len(pending[s])
    OBVIOUS
  <2> QED
    BY <1>2, <1>6, <1>7, <1>8, <1>9, <1>13, <2>1 DEF PendingFits
<1>11. ASSUME NEW n \in Tagged("escalate")', tape'[n].id[1] = s
       PROVE  n \in Tagged("escalate") /\ tape'[n] = tape[n]
  <2>1. CASE tape' = tape
    BY <2>1, <1>11 DEF Tagged
  <2>2. CASE \E e \in TapeClaims :
               tape' = Append(tape, e) /\ (e.tag = "escalate" => e.id[1] = r)
    <3>1. PICK e \in TapeClaims :
            tape' = Append(tape, e) /\ (e.tag = "escalate" => e.id[1] = r)
      BY <2>2
    <3>2. tape'[Len(tape) + 1] = e
      BY <1>1, <3>1, TapeAppends
    <3>3. \/ e.tag = "escalate" /\ Tagged("escalate")' = Tagged("escalate") \cup {Len(tape) + 1}
          \/ Tagged("escalate")' = Tagged("escalate")
      BY <1>1, <3>1, TaggedAppends
    <3>4. n \in Tagged("escalate")
      BY <1>11, <3>1, <3>2, <3>3
    <3> QED
      BY <3>4, <1>4, <1>5
  <2> QED
    BY <2>1, <2>2
<1>12. EscalationsFit(s)'
  BY <1>2, <1>11, <1>13 DEF EscalationsFit
<1> QED
  BY <1>10, <1>12

\* The retries of other ticks are all the retries, if the tick in progress has
\* none of its own on the tape.
LEMMA PriorAreAll ==
  ASSUME SupervisorInv, NEW r \in DurableRuns,
         \A n \in Tagged("retry") : tape[n].id # <<r, iteration[r], 1>>
  PROVE  PriorRetries(r) = Cardinality(Tagged("retry"))
<1>1. tape \in Seq(TapeClaims) /\ RetriesComeFirst
  BY DEF SupervisorInv, SupervisorTypeOK, TapeFits
<1>2. ASSUME NEW n \in Tagged("retry")
      PROVE  tape[n].id[1] # r \/ tape[n].id[2] # iteration[r]
  <2>1. tape[n] \in TapeClaims /\ tape[n].tag = "retry"
    BY <1>1 DEF Tagged
  <2>2. tape[n] \in Recommendations
    BY <2>1 DEF TapeClaims, Failed, Blocks
  <2>3. tape[n].id \in ActionIds
    BY <2>2 DEF Recommendations
  <2>4. tape[n].id = <<tape[n].id[1], tape[n].id[2], tape[n].id[3]>>
    BY <2>3 DEF ActionIds
  <2>5. tape[n].id[3] = 1
    BY <1>1 DEF RetriesComeFirst
  <2> QED
    BY <2>4, <2>5
<1>3. {n \in Tagged("retry") : tape[n].id[1] # r \/ tape[n].id[2] # iteration[r]}
        = Tagged("retry")
  BY <1>2
<1> QED
  BY <1>3 DEF PriorRetries

-----------------------------------------------------------------------------
\* The invariant holds at the start.
LEMMA SupervisorStarts == SupervisorInit => SupervisorInv
<1> SUFFICES ASSUME SupervisorInit PROVE SupervisorInv
  OBVIOUS
<1>1. /\ together \in BOOLEAN /\ tape = <<>> /\ iteration = [r \in DurableRuns |-> 1]
      /\ pc = [r \in DurableRuns |-> "work"] /\ pending = [r \in DurableRuns |-> <<>>]
  BY DEF SupervisorInit
<1>2. <<>> \in Seq(TapeClaims) /\ <<>> \in Seq(Recommendations)
  OBVIOUS
<1>3. SupervisorTypeOK
  BY <1>1, <1>2 DEF SupervisorTypeOK
<1>4. Len(tape) = 0 /\ \A t : Tagged(t) = {}
  BY <1>1 DEF Tagged
<1>5. TapeFits
  BY <1>4 DEF TapeFits, IdsAreUnique, AttemptsInOrder, RetriesComeFirst, BlocksFollow
<1>6. \A r \in DurableRuns : pc[r] = "work"
  BY <1>1
<1>7. OneTick
  BY <1>6 DEF OneTick, Ticking
<1>8. \A r \in DurableRuns : PendingFits(r) /\ EscalationsFit(r)
  BY <1>4, <1>6 DEF PendingFits, EscalationsFit
<1> QED
  BY <1>3, <1>5, <1>7, <1>8 DEF SupervisorInv

\* When a run that may step moves, at most one run of a process ticks.
LEMMA OneTickStays ==
  ASSUME SupervisorInv, NEW r \in DurableRuns, MayStep(r) \/ Ticking(r),
         together' = together, \A s \in DurableRuns \ {r} : pc'[s] = pc[s]
  PROVE  OneTick'
BY DEF SupervisorInv, OneTick, Ticking, MayStep

\* A failure is recorded.
LEMMA FailFits ==
  ASSUME SupervisorInv, NEW r \in DurableRuns, Fail(r)
  PROVE  SupervisorInv'
<1>1. /\ pc[r] = "work" /\ MayStep(r) /\ tape' = Append(tape, Failed)
      /\ together' = together /\ iteration' = iteration /\ pc' = pc /\ pending' = pending
  BY DEF Fail, Failed
<1>2. SupervisorTypeOK /\ TapeFits /\ PendingFits(r) /\ EscalationsFit(r)
  BY DEF SupervisorInv
<1>3. tape \in Seq(TapeClaims) /\ Failed \in TapeClaims /\ Failed.tag = "failure"
  BY <1>2 DEF SupervisorTypeOK, TapeClaims, Failed
<1> HIDE DEF Failed
<1>4. /\ tape' \in Seq(TapeClaims) /\ Len(tape') = Len(tape) + 1 /\ Len(tape) \in Nat
      /\ \A n \in 1 .. Len(tape) : tape'[n] = tape[n]
      /\ tape'[Len(tape) + 1] = Failed
      /\ \A n \in 1 .. Len(tape') : n \in 1 .. Len(tape) \/ n = Len(tape) + 1
  BY <1>1, <1>3, TapeAppends
<1>5. SupervisorTypeOK'
  BY <1>1, <1>2, <1>4 DEF SupervisorTypeOK
<1>6. \A t : t # "failure" => Tagged(t)' = Tagged(t)
  BY <1>1, <1>3, TaggedAppends
<1>7. \A t : Tagged(t) \subseteq 1 .. Len(tape)
  BY DEF Tagged
<1>8. IdsAreUnique'
  BY <1>2, <1>3, <1>4 DEF TapeFits, IdsAreUnique
<1>9. AttemptsInOrder' /\ RetriesComeFirst' /\ BlocksFollow'
  BY <1>1, <1>2, <1>4, <1>6, <1>7
    DEF TapeFits, AttemptsInOrder, RetriesComeFirst, BlocksFollow
<1>10. OneTick'
  BY <1>1, OneTickStays
<1>11. PendingFits(r)'
  BY <1>1 DEF PendingFits
<1>12. EscalationsFit(r)'
  <2>1. /\ Cardinality(Tagged("failure")) \in Nat
        /\ Cardinality(Tagged("failure")') = Cardinality(Tagged("failure")) + 1
    BY <1>1, <1>3, TaggedAppends, TaggedAreFinite
  <2> QED
    BY <1>1, <1>2, <1>4, <1>6, <1>7, <2>1 DEF EscalationsFit
<1>13. ASSUME NEW s \in DurableRuns, s # r PROVE PendingFits(s)' /\ EscalationsFit(s)'
  BY <1>1, <1>3, <1>13, OtherRunsFit
<1> QED
  BY <1>5, <1>8, <1>9, <1>10, <1>11, <1>12, <1>13 DEF SupervisorInv, TapeFits

\* What the rules recommend, by what they find.
LEMMA RecommendedIs ==
  ASSUME SupervisorTypeOK, NEW r \in DurableRuns
  PROVE  LET a == Recommended(r)
             failures == Cardinality(Tagged("failure"))
             attempt == PriorRetries(r) + 1
             retry == [tag |-> "retry", attempt |-> attempt]
             escalate == [tag |-> "escalate", attempt |-> 0] IN
         /\ attempt \in Nat
         /\ \/ a = <<>> /\ ~(failures >= 2)
            \/ a = <<retry>> /\ ~(failures >= 2) /\ attempt <= MaxAttempts
            \/ a = <<escalate>> /\ failures >= 2
            \/ a = <<retry, escalate>> /\ failures >= 2 /\ attempt <= MaxAttempts
<1> DEFINE failures == Cardinality(Tagged("failure"))
           attempt == PriorRetries(r) + 1
           retry == [tag |-> "retry", attempt |-> attempt]
           escalate == [tag |-> "escalate", attempt |-> 0]
           first == IF failures >= 1 /\ attempt <= MaxAttempts THEN <<retry>> ELSE <<>>
           second == IF failures >= 2 THEN <<escalate>> ELSE <<>>
<1>1. Recommended(r) = first \o second
  BY DEF Recommended
<1>2. PriorRetries(r) \in Nat
  <2>1. IsFiniteSet(Tagged("retry"))
    BY TaggedAreFinite DEF SupervisorTypeOK
  <2>2. {n \in Tagged("retry") : tape[n].id[1] # r \/ tape[n].id[2] # iteration[r]}
          \subseteq Tagged("retry")
    OBVIOUS
  <2> QED
    BY <2>1, <2>2, FS_Subset, FS_CardinalityType DEF PriorRetries
<1>3. attempt \in Nat
  BY <1>2
<1> HIDE DEF attempt, retry, escalate, failures
<1>4. /\ <<>> \o <<>> = <<>> /\ <<retry>> \o <<>> = <<retry>>
      /\ <<>> \o <<escalate>> = <<escalate>>
      /\ <<retry>> \o <<escalate>> = <<retry, escalate>>
  <2> DEFINE S == {retry, escalate}
  <2>1. <<>> \in Seq(S) /\ <<retry>> \in Seq(S) /\ <<escalate>> \in Seq(S)
    OBVIOUS
  <2>2. \A s \in Seq(S) : s \o <<>> = s /\ <<>> \o s = s
    BY ConcatEmptySeq
  <2> DEFINE c == <<retry>> \o <<escalate>>
             p == <<retry, escalate>>
  <2>3. c \in Seq(S) /\ p \in Seq(S) /\ Len(p) = 2 /\ p[1] = retry /\ p[2] = escalate
    OBVIOUS
  <2>4. Len(<<retry>>) = 1 /\ Len(<<escalate>>) = 1
    OBVIOUS
  <2>5. Len(c) = 2 /\ c[1] = retry /\ c[2] = escalate
    BY <2>1, <2>4, ConcatProperties
  <2>6. Len(c) = Len(p) /\ \A i \in 1 .. Len(c) : c[i] = p[i]
    BY <2>3, <2>5
  <2>7. c = p
    BY <2>3, <2>6, SeqEqual
  <2> QED
    BY <2>1, <2>2, <2>7
<1>5. \/ Recommended(r) = <<>> /\ ~(failures >= 2)
      \/ Recommended(r) = <<retry>> /\ ~(failures >= 2) /\ attempt <= MaxAttempts
      \/ Recommended(r) = <<escalate>> /\ failures >= 2
      \/ Recommended(r) = <<retry, escalate>> /\ failures >= 2 /\ attempt <= MaxAttempts
  BY <1>1, <1>4
<1> QED
  BY <1>3, <1>5 DEF attempt, retry, escalate, failures

\* A tick begins: its actions are what the rules recommend.
LEMMA TickFits ==
  ASSUME SupervisorInv, NEW r \in DurableRuns, SupervisorTick(r)
  PROVE  SupervisorInv'
<1>1. SupervisorTypeOK /\ TapeFits /\ PendingFits(r) /\ EscalationsFit(r)
  BY DEF SupervisorInv
<1> DEFINE attempt == PriorRetries(r) + 1
           failures == Cardinality(Tagged("failure"))
           rt == [tag |-> "retry", attempt |-> attempt]
           es == [tag |-> "escalate", attempt |-> 0]
<1>2. PICK a : a = Recommended(r)
  OBVIOUS
<1>3. /\ attempt \in Nat
      /\ \/ a = <<>> /\ ~(failures >= 2)
         \/ a = <<rt>> /\ ~(failures >= 2) /\ attempt <= MaxAttempts
         \/ a = <<es>> /\ failures >= 2
         \/ a = <<rt, es>> /\ failures >= 2 /\ attempt <= MaxAttempts
  BY <1>1, <1>2, RecommendedIs
<1>4. PICK p : p = [k \in 1 .. Len(a) |->
             [tag |-> a[k].tag, attempt |-> a[k].attempt, id |-> <<r, iteration[r], k>>]]
  OBVIOUS
<1>5. /\ pc[r] = "work" /\ MayStep(r)
      /\ pending' = [pending EXCEPT ![r] = p]
      /\ pc' = [pc EXCEPT ![r] = IF a = <<>> THEN "checkpoint" ELSE "fold"]
      /\ together' = together /\ tape' = tape /\ iteration' = iteration
  BY <1>2, <1>4 DEF SupervisorTick
<1>6. /\ together \in BOOLEAN /\ tape \in Seq(TapeClaims)
      /\ iteration \in [DurableRuns -> Nat] /\ iteration[r] \in Nat
      /\ pc \in [DurableRuns ->
              {"work", "fold", "pair", "checkpoint", "stopped", "completed", "failed"}]
      /\ pending \in [DurableRuns -> Seq(Recommendations)]
  BY <1>1 DEF SupervisorTypeOK
<1>7. /\ pc'[r] = IF a = <<>> THEN "checkpoint" ELSE "fold"
      /\ pending'[r] = p
      /\ \A s \in DurableRuns : s # r => pc'[s] = pc[s] /\ pending'[s] = pending[s]
  BY <1>5, <1>6
<1>8. Len(a) \in {0, 1, 2} /\ \A k \in 1 .. Len(a) : a[k] \in {rt, es}
  <2>1. /\ Len(<<>>) = 0 /\ Len(<<rt>>) = 1 /\ Len(<<es>>) = 1 /\ Len(<<rt, es>>) = 2
        /\ <<rt>>[1] = rt /\ <<es>>[1] = es /\ <<rt, es>>[1] = rt /\ <<rt, es>>[2] = es
    OBVIOUS
  <2> HIDE DEF rt, es, failures, attempt
  <2>2. CASE a = <<>>
    BY <2>1, <2>2
  <2>3. CASE a = <<rt>>
    BY <2>1, <2>3
  <2>4. CASE a = <<es>>
    BY <2>1, <2>4
  <2>5. CASE a = <<rt, es>>
    BY <2>1, <2>5
  <2> QED
    BY <1>3, <2>2, <2>3, <2>4, <2>5
<1>9. \A k \in 1 .. Len(a) :
        /\ p[k] = [tag |-> a[k].tag, attempt |-> a[k].attempt, id |-> <<r, iteration[r], k>>]
        /\ p[k] \in Recommendations
  <2> SUFFICES ASSUME NEW k \in 1 .. Len(a)
               PROVE  /\ p[k] = [tag |-> a[k].tag, attempt |-> a[k].attempt,
                                 id |-> <<r, iteration[r], k>>]
                      /\ p[k] \in Recommendations
    OBVIOUS
  <2>1. p[k] = [tag |-> a[k].tag, attempt |-> a[k].attempt, id |-> <<r, iteration[r], k>>]
    BY <1>4
  <2>2. k \in Nat
    BY <1>8
  <2>3. <<r, iteration[r], k>> \in ActionIds
    BY <1>6, <2>2 DEF ActionIds
  <2>4. a[k].tag \in {"retry", "escalate"} /\ a[k].attempt \in Nat
    BY <1>3, <1>8
  <2> QED
    BY <2>1, <2>3, <2>4 DEF Recommendations
<1>10. p \in Seq(Recommendations) /\ Len(p) = Len(a)
  <2>1. Len(a) \in Nat
    BY <1>8
  <2>2. p \in [1 .. Len(a) -> Recommendations]
    BY <1>4, <1>9
  <2>3. p \in Seq(Recommendations)
    BY <2>1, <2>2 DEF Seq
  <2>4. DOMAIN p = 1 .. Len(a)
    BY <1>4
  <2> QED
    BY <2>1, <2>3, <2>4, LenProperties
<1>11. SupervisorTypeOK'
  BY <1>5, <1>6, <1>10 DEF SupervisorTypeOK
<1>12. \A t : Tagged(t)' = Tagged(t)
  BY <1>5 DEF Tagged
<1>13. TapeFits'
  BY <1>1, <1>5, <1>12
    DEF TapeFits, IdsAreUnique, AttemptsInOrder, RetriesComeFirst, BlocksFollow
<1>14. OneTick'
  BY <1>5, <1>7, OneTickStays
<1> HIDE DEF failures, attempt
<1>20. \/ a = <<>> /\ Len(a) = 0 /\ ~(failures >= 2)
       \/ Len(a) = 1 /\ a[1] = rt /\ ~(failures >= 2) /\ attempt <= MaxAttempts
       \/ Len(a) = 1 /\ a[1] = es /\ failures >= 2
       \/ Len(a) = 2 /\ a[1] = rt /\ a[2] = es /\ failures >= 2 /\ attempt <= MaxAttempts
  <2> HIDE DEF rt, es
  <2>1. /\ Len(<<>>) = 0 /\ Len(<<rt>>) = 1 /\ Len(<<es>>) = 1 /\ Len(<<rt, es>>) = 2
        /\ <<rt>>[1] = rt /\ <<es>>[1] = es /\ <<rt, es>>[1] = rt /\ <<rt, es>>[2] = es
    OBVIOUS
  <2>2. CASE a = <<>> /\ ~(failures >= 2)
    BY <2>1, <2>2
  <2>3. CASE a = <<rt>> /\ ~(failures >= 2) /\ attempt <= MaxAttempts
    BY <2>1, <2>3
  <2>4. CASE a = <<es>> /\ failures >= 2
    BY <2>1, <2>4
  <2>5. CASE a = <<rt, es>> /\ failures >= 2 /\ attempt <= MaxAttempts
    BY <2>1, <2>5
  <2> QED
    BY <1>3, <2>2, <2>3, <2>4, <2>5
<1>21. rt.tag = "retry" /\ rt.attempt = attempt /\ es.tag = "escalate"
  OBVIOUS
<1>22. \A k \in 1 .. Len(a) : p[k].tag = a[k].tag /\ p[k].attempt = a[k].attempt
          /\ p[k].id = <<r, iteration[r], k>>
  <2> TAKE k \in 1 .. Len(a)
  <2> DEFINE tg == a[k].tag
             at == a[k].attempt
             d == <<r, iteration[r], k>>
  <2>1. p[k] = [tag |-> tg, attempt |-> at, id |-> d]
    BY <1>9
  <2> HIDE DEF tg, at, d
  <2>2. p[k].tag = tg /\ p[k].attempt = at /\ p[k].id = d
    BY <2>1
  <2> QED
    BY <2>2 DEF tg, at, d
<1> HIDE DEF rt, es
<1>15. \/ a = <<>> /\ Len(p) = 0 /\ ~(failures >= 2)
       \/ Len(p) = 1 /\ p[1].tag = "retry" /\ p[1].id = <<r, iteration[r], 1>>
          /\ ~(failures >= 2) /\ attempt <= MaxAttempts /\ p[1].attempt = attempt
       \/ Len(p) = 1 /\ p[1].tag = "escalate" /\ p[1].id = <<r, iteration[r], 1>>
          /\ failures >= 2
       \/ Len(p) = 2 /\ p[1].tag = "retry" /\ p[1].id = <<r, iteration[r], 1>>
          /\ failures >= 2 /\ attempt <= MaxAttempts /\ p[1].attempt = attempt
          /\ p[2].tag = "escalate" /\ p[2].id = <<r, iteration[r], 2>>
  BY <1>20, <1>21, <1>22, <1>10
<1>16. PriorRetries(r)' = PriorRetries(r)
  BY <1>5, <1>12 DEF PriorRetries
<1>23. /\ p # <<>> => Len(p) \in {1, 2} /\ p[1].id[3] = 1
       /\ Len(p) = 2 => p[1].tag = "retry" /\ p[2].tag = "escalate"
       /\ \A k \in 1 .. Len(p) : /\ p[k].id[1] = r /\ p[k].id[2] = iteration[r]
                                 /\ p[k].tag = "retry" => p[k].id[3] = 1
                                 /\ p[k].tag = "escalate" => failures >= 2
       /\ Len(p) > 0 /\ p[1].tag = "retry" => p[1].attempt = attempt /\ attempt <= MaxAttempts
       /\ a = <<>> <=> p = <<>>
  <2>1. \A k \in 1 .. Len(p) :
          p[k].id[1] = r /\ p[k].id[2] = iteration[r] /\ p[k].id[3] = k
    BY <1>10, <1>22
  <2>2. Len(p) = 0 <=> p = <<>>
    BY <1>10, EmptySeq
  <2>3. Len(p) \in Nat /\ (Len(p) = 0 <=> a = <<>>)
    BY <1>8, <1>10, <1>20
  <2> QED
    BY <1>15, <2>1, <2>2, <2>3
<1>17. PendingFits(r)'
  <2>1. Cardinality(Tagged("failure"))' = failures /\ PriorRetries(r)' + 1 = attempt
    BY <1>12, <1>16 DEF failures, attempt
  <2>2. p # <<>> => Len(p) > 0
    BY <1>10, EmptySeq
  <2>3. pc'[r] = "fold" => a # <<>>
    BY <1>7
  <2> QED
    BY <1>5, <1>7, <1>23, <2>1, <2>2, <2>3 DEF PendingFits
<1>18. EscalationsFit(r)'
  <2>1. (\E n \in Tagged("escalate") : tape[n].id[1] = r) => failures >= 2
    BY <1>1 DEF EscalationsFit, failures
  <2>2. failures >= 2 => pc'[r] = "fold" /\ p[Len(p)].tag = "escalate"
    BY <1>7, <1>10, <1>15, <1>23
  <2>3. Cardinality(Tagged("failure"))' = Cardinality(Tagged("failure"))
    BY <1>12
  <2> QED
    BY <1>1, <1>5, <1>7, <1>12, <2>1, <2>2, <2>3 DEF EscalationsFit
<1>19. ASSUME NEW s \in DurableRuns, s # r PROVE PendingFits(s)' /\ EscalationsFit(s)'
  BY <1>5, <1>7, <1>19, OtherRunsFit
<1> QED
  BY <1>11, <1>13, <1>14, <1>17, <1>18, <1>19 DEF SupervisorInv

\* Folding a claim: it is on the tape already, or it is added under a new id.
LEMMA FoldedOnce ==
  ASSUME SupervisorInv, NEW c \in Recommendations \cup Blocks, Folds(c)
  PROVE  /\ c \in TapeClaims /\ c.tag # "failure"
         /\ \/ tape' = tape /\ \E n \in 1 .. Len(tape) : tape[n] = c
            \/ /\ tape' = Append(tape, c)
               /\ \A n \in 1 .. Len(tape) : tape[n].tag # "failure" => tape[n].id # c.id
         /\ tape' \in Seq(TapeClaims) /\ IdsAreUnique'
         /\ \E n \in Tagged(c.tag)' : tape'[n] = c
<1>1. tape \in Seq(TapeClaims) /\ IdsAreUnique
  BY DEF SupervisorInv, SupervisorTypeOK, TapeFits
<1>2. c \in TapeClaims
  BY DEF TapeClaims
<1>3. c.tag # "failure"
  BY DEF Recommendations, Blocks
<1>4. CASE Recorded(c.id) # {}
  <2>1. tape' = tape
    BY <1>4 DEF Folds
  <2>2. PICK n \in Recorded(c.id) : tape[n] = c
    BY <1>4 DEF Folds
  <2>3. n \in 1 .. Len(tape)
    BY DEF Recorded
  <2>4. IdsAreUnique'
    BY <1>1, <2>1 DEF IdsAreUnique
  <2>5. n \in Tagged(c.tag)' /\ tape'[n] = c
    BY <2>1, <2>2, <2>3 DEF Tagged
  <2> QED
    BY <1>1, <1>2, <1>3, <2>1, <2>2, <2>3, <2>4, <2>5
<1>5. CASE Recorded(c.id) = {}
  <2>1. tape' = Append(tape, c)
    BY <1>5 DEF Folds
  <2>2. \A n \in 1 .. Len(tape) : tape[n].tag # "failure" => tape[n].id # c.id
    BY <1>5 DEF Recorded
  <2>3. /\ tape' \in Seq(TapeClaims) /\ Len(tape') = Len(tape) + 1 /\ Len(tape) \in Nat
        /\ \A n \in 1 .. Len(tape) : tape'[n] = tape[n]
        /\ tape'[Len(tape) + 1] = c
        /\ \A n \in 1 .. Len(tape') : n \in 1 .. Len(tape) \/ n = Len(tape) + 1
    BY <1>1, <1>2, <2>1, TapeAppends
  <2>4. IdsAreUnique'
    BY <1>1, <2>2, <2>3 DEF IdsAreUnique
  <2>5. Len(tape) + 1 \in 1 .. Len(tape')
    BY <2>3
  <2>6. Len(tape) + 1 \in Tagged(c.tag)'
    BY <2>3, <2>5 DEF Tagged
  <2> QED
    BY <1>2, <1>3, <2>1, <2>2, <2>3, <2>4, <2>6
<1> QED
  BY <1>4, <1>5

\* Claims of other tags are where they were.
LEMMA OthersTagged ==
  ASSUME SupervisorInv, NEW c \in Recommendations \cup Blocks, Folds(c), NEW t, t # c.tag
  PROVE  /\ Tagged(t)' = Tagged(t)
         /\ \A n \in Tagged(t) : tape'[n] = tape[n]
<1>1. /\ tape \in Seq(TapeClaims) /\ c \in TapeClaims
      /\ tape' = tape \/ tape' = Append(tape, c)
  BY FoldedOnce DEF SupervisorInv, SupervisorTypeOK
<1>2. CASE tape' = tape
  BY <1>2 DEF Tagged
<1>3. CASE tape' = Append(tape, c)
  <2>1. Tagged(t)' = Tagged(t)
    BY <1>1, <1>3, TaggedAppends
  <2>2. \A n \in 1 .. Len(tape) : tape'[n] = tape[n]
    BY <1>1, <1>3, TapeAppends
  <2> QED
    BY <2>1, <2>2 DEF Tagged
<1> QED
  BY <1>1, <1>2, <1>3

\* A retry is folded.
LEMMA RetryFolds ==
  ASSUME SupervisorInv, NEW r \in DurableRuns, Folded(r), Head(pending[r]).tag # "escalate"
  PROVE  SupervisorInv'
<1>1. SupervisorTypeOK /\ TapeFits /\ PendingFits(r) /\ EscalationsFit(r)
  BY DEF SupervisorInv
<1>2. PICK p : p = pending[r]
  OBVIOUS
<1>3. PICK c : c = Head(p)
  OBVIOUS
<1>4. /\ pc[r] = "fold" /\ MayStep(r) /\ Folds(c) /\ c.tag # "escalate"
      /\ pending' = [pending EXCEPT ![r] = Tail(@)]
      /\ pc' = [pc EXCEPT ![r] = IF Len(p) = 1 THEN "checkpoint" ELSE "fold"]
      /\ together' = together /\ iteration' = iteration
  BY <1>2, <1>3 DEF Folded
<1>5. /\ together \in BOOLEAN /\ tape \in Seq(TapeClaims)
      /\ iteration \in [DurableRuns -> Nat] /\ iteration[r] \in Nat
      /\ pc \in [DurableRuns ->
              {"work", "fold", "pair", "checkpoint", "stopped", "completed", "failed"}]
      /\ pending \in [DurableRuns -> Seq(Recommendations)] /\ p \in Seq(Recommendations)
  BY <1>1, <1>2 DEF SupervisorTypeOK
<1>6. /\ Len(p) \in {1, 2} /\ (Len(p) = 2 => p[1].tag = "retry" /\ p[2].tag = "escalate")
      /\ \A k \in 1 .. Len(p) :
            /\ p[k].id[1] = r /\ p[k].id[2] = iteration[r]
            /\ p[k].tag = "retry" => p[k].id[3] = 1
            /\ p[k].tag = "escalate" => Cardinality(Tagged("failure")) >= 2
      /\ together /\ p[1].tag = "retry" =>
           p[1].attempt = PriorRetries(r) + 1 /\ p[1].attempt <= MaxAttempts
  BY <1>1, <1>2, <1>4 DEF PendingFits
<1>7. /\ p # <<>> /\ c = p[1] /\ c \in Recommendations
      /\ Tail(p) \in Seq(Recommendations) /\ Len(Tail(p)) = Len(p) - 1
      /\ \A k \in 1 .. Len(p) - 1 : Tail(p)[k] = p[k + 1]
  BY <1>3, <1>5, <1>6, HeadTailProperties
<1>8. c.tag = "retry" /\ c.id = <<r, iteration[r], 1>> /\ c.attempt \in Nat
  <2>1. c.tag = "retry" /\ c.id \in ActionIds /\ c.attempt \in Nat
    BY <1>4, <1>7 DEF Recommendations
  <2>2. c.id = <<c.id[1], c.id[2], c.id[3]>>
    BY <2>1 DEF ActionIds
  <2>3. 1 \in 1 .. Len(p)
    BY <1>6
  <2>4. c.id[1] = r /\ c.id[2] = iteration[r] /\ c.id[3] = 1
    BY <1>6, <1>7, <2>1, <2>3
  <2> QED
    BY <2>1, <2>2, <2>4
<1>9. /\ c \in TapeClaims
      /\ \/ tape' = tape
         \/ /\ tape' = Append(tape, c)
            /\ \A n \in 1 .. Len(tape) : tape[n].tag # "failure" => tape[n].id # c.id
      /\ tape' \in Seq(TapeClaims) /\ IdsAreUnique'
  BY <1>4, <1>7, FoldedOnce
<1>10. /\ pc'[r] = IF Len(p) = 1 THEN "checkpoint" ELSE "fold"
       /\ pending'[r] = Tail(p)
       /\ \A s \in DurableRuns : s # r => pc'[s] = pc[s] /\ pending'[s] = pending[s]
  BY <1>2, <1>4, <1>5
<1>11. SupervisorTypeOK'
  BY <1>4, <1>5, <1>7, <1>9, <1>2 DEF SupervisorTypeOK
<1>12. \A t : t # "retry" =>
         Tagged(t)' = Tagged(t) /\ \A n \in Tagged(t) : tape'[n] = tape[n]
  BY <1>4, <1>7, <1>8, OthersTagged
<1>13. AttemptsInOrder' /\ RetriesComeFirst'
  <2>1. CASE tape' = tape
    BY <1>1, <1>4, <2>1 DEF TapeFits, AttemptsInOrder, RetriesComeFirst, Tagged
  <2>2. CASE /\ tape' = Append(tape, c)
             /\ \A n \in 1 .. Len(tape) : tape[n].tag # "failure" => tape[n].id # c.id
    <3>1. /\ Tagged("retry")' = Tagged("retry") \cup {Len(tape) + 1}
          /\ Len(tape) + 1 \notin Tagged("retry")
          /\ Cardinality(Tagged("retry")') = Cardinality(Tagged("retry")) + 1
      BY <1>5, <1>8, <1>9, <2>2, TaggedAppends
    <3>2. Cardinality(Tagged("retry")) \in Nat /\ Tagged("retry") \subseteq 1 .. Len(tape)
      BY <1>5, TaggedAreFinite
    <3>3. /\ \A n \in 1 .. Len(tape) : tape'[n] = tape[n]
          /\ tape'[Len(tape) + 1] = c
      BY <1>5, <1>9, <2>2, TapeAppends
    <3>4. \A n \in Tagged("retry") : tape[n].id # <<r, iteration[r], 1>>
      <4>1. \A n \in Tagged("retry") : tape[n].tag # "failure"
        BY DEF Tagged
      <4> QED
        BY <1>8, <2>2, <3>2, <4>1
    <3>5. together => /\ c.attempt = Cardinality(Tagged("retry")) + 1
                      /\ c.attempt <= MaxAttempts
      BY <1>6, <1>7, <1>8, <3>4, PriorAreAll
    <3>6. \A n \in Tagged("retry") : tape[n].attempt \in Nat
      <4> TAKE n \in Tagged("retry")
      <4>1. tape[n] \in TapeClaims /\ tape[n].tag = "retry"
        BY <1>5 DEF Tagged
      <4>2. tape[n] \in Recommendations
        BY <4>1 DEF TapeClaims, Failed, Blocks
      <4> QED
        BY <4>2 DEF Recommendations
    <3>7. AttemptsInOrder'
      <4> SUFFICES ASSUME together PROVE
            \A n \in Tagged("retry")' :
              /\ tape'[n].attempt <= MaxAttempts
              /\ tape'[n].attempt <= Cardinality(Tagged("retry")')
              /\ \A m \in Tagged("retry")' : tape'[m].attempt = tape'[n].attempt => m = n
        BY <1>4 DEF AttemptsInOrder
      <4>1. \A n \in Tagged("retry") :
              /\ tape[n].attempt <= MaxAttempts
              /\ tape[n].attempt <= Cardinality(Tagged("retry"))
              /\ \A m \in Tagged("retry") : tape[m].attempt = tape[n].attempt => m = n
        BY <1>1 DEF TapeFits, AttemptsInOrder
      <4>2. \A n \in Tagged("retry") : tape'[n] = tape[n]
        BY <3>2, <3>3
      <4> DEFINE size == Cardinality(Tagged("retry"))
      <4>3. \A n \in Tagged("retry")' : n \in Tagged("retry") \/ n = Len(tape) + 1
        BY <3>1
      <4>4. \A n \in Tagged("retry") : tape[n].attempt <= size + 1 /\ tape[n].attempt # size + 1
        BY <3>2, <3>6, <4>1
      <4> HIDE DEF size
      <4>5. /\ Cardinality(Tagged("retry")') = size + 1 /\ size \in Nat
            /\ tape'[Len(tape) + 1].attempt = size + 1 /\ size + 1 <= MaxAttempts
        BY <3>1, <3>2, <3>3, <3>5 DEF size
      <4> QED
        BY <4>1, <4>2, <4>3, <4>4, <4>5
    <3>8. RetriesComeFirst'
      <4>1. tape'[Len(tape) + 1].id[3] = 1
        BY <1>8, <3>3
      <4> QED
        BY <1>1, <3>1, <3>2, <3>3, <4>1 DEF TapeFits, RetriesComeFirst
    <3> QED
      BY <3>7, <3>8
  <2> QED
    BY <1>9, <2>1, <2>2
<1>14. BlocksFollow'
  BY <1>1, <1>12 DEF TapeFits, BlocksFollow
<1>15. TapeFits'
  BY <1>9, <1>13, <1>14 DEF TapeFits
<1>16. OneTick'
  BY <1>4, <1>10, OneTickStays
<1>17. PendingFits(r)'
  <2>1. Tagged("failure")' = Tagged("failure")
    BY <1>12
  <2>2. CASE Len(p) = 1
    <3>2. Tail(p) \in Seq(Recommendations) /\ Len(Tail(p)) = 0
      BY <1>7, <2>2
    <3>3. Tail(p) = <<>>
      BY <3>2, EmptySeq
    <3>1. Tail(p) = <<>> /\ pc'[r] = "checkpoint" /\ pending'[r] = <<>>
      BY <3>3, <1>10, <2>2
    <3> QED
      BY <3>1 DEF PendingFits
  <2>3. CASE Len(p) = 2
    <3>1. /\ pc'[r] = "fold" /\ Len(pending'[r]) = 1 /\ pending'[r][1] = p[2]
          /\ 2 \in 1 .. Len(p) /\ p[2].tag = "escalate"
      <4>1. pc'[r] = "fold" /\ pending'[r] = Tail(p)
        BY <1>10, <2>3
      <4>2. Len(Tail(p)) = 1 /\ 1 \in 1 .. Len(p) - 1 /\ 2 \in 1 .. Len(p)
        BY <1>7, <2>3
      <4>3. Tail(p)[1] = p[2] /\ p[2].tag = "escalate"
        <5>1. Tail(p)[1] = p[1 + 1]
          BY <1>7, <4>2
        <5>2. p[1 + 1] = p[2]
          OBVIOUS
        <5> QED
          BY <1>6, <2>3, <5>1, <5>2
      <4> QED
        BY <4>1, <4>2, <4>3
    <3>2. /\ p[2].id[1] = r /\ p[2].id[2] = iteration[r]
          /\ Cardinality(Tagged("failure")) >= 2
      BY <1>6, <3>1
    <3>3. \A k \in 1 .. Len(pending'[r]) : k = 1
      BY <3>1
    <3>4. PICK q : q = pending'[r]
      OBVIOUS
    <3>5. /\ Len(q) = 1 /\ q[1].tag = "escalate"
          /\ \A k \in 1 .. Len(q) : /\ q[k].tag = "escalate" /\ q[k].id[1] = r
                                    /\ q[k].id[2] = iteration'[r]
      BY <1>4, <3>1, <3>2, <3>3, <3>4
    <3>6. Cardinality(Tagged("failure"))' >= 2
      BY <2>1, <3>2
    <3> QED
      BY <3>1, <3>4, <3>5, <3>6 DEF PendingFits
  <2> QED
    BY <1>6, <2>2, <2>3
<1>18. EscalationsFit(r)'
  <2>1. /\ Tagged("failure")' = Tagged("failure") /\ Tagged("escalate")' = Tagged("escalate")
        /\ \A n \in Tagged("escalate") : tape'[n] = tape[n]
    BY <1>12
  <2>2. (\E n \in Tagged("escalate") : tape[n].id[1] = r) => p[Len(p)].tag = "escalate"
    BY <1>1, <1>2, <1>4 DEF EscalationsFit
  <2>3. p[Len(p)].tag = "escalate" => /\ pc'[r] = "fold" /\ Len(pending'[r]) = 1
                                      /\ pending'[r][1].tag = "escalate"
    BY <1>6, <1>7, <1>8, <1>10
  <2> QED
    BY <1>1, <1>4, <2>1, <2>2, <2>3 DEF EscalationsFit
<1>19. ASSUME NEW s \in DurableRuns, s # r PROVE PendingFits(s)' /\ EscalationsFit(s)'
  <2>1. tape' = tape \/ \E e \in TapeClaims :
          tape' = Append(tape, e) /\ MayStep(r) /\ (e.tag = "escalate" => e.id[1] = r)
    BY <1>4, <1>9
  <2> QED
    BY <1>4, <1>10, <1>19, <2>1, OtherRunsFit
<1> QED
  BY <1>11, <1>15, <1>16, <1>17, <1>18, <1>19 DEF SupervisorInv

\* An escalation is folded.
LEMMA EscalationFolds ==
  ASSUME SupervisorInv, NEW r \in DurableRuns, Folded(r), Head(pending[r]).tag = "escalate"
  PROVE  SupervisorInv'
<1>1. SupervisorTypeOK /\ TapeFits /\ PendingFits(r) /\ EscalationsFit(r)
  BY DEF SupervisorInv
<1>2. PICK p : p = pending[r]
  OBVIOUS
<1>3. PICK c : c = Head(p)
  OBVIOUS
<1>4. /\ pc[r] = "fold" /\ MayStep(r) /\ Folds(c) /\ c.tag = "escalate"
      /\ pending' = pending /\ pc' = [pc EXCEPT ![r] = "pair"]
      /\ together' = together /\ iteration' = iteration
  BY <1>2, <1>3 DEF Folded
<1>5. /\ together \in BOOLEAN /\ tape \in Seq(TapeClaims)
      /\ iteration \in [DurableRuns -> Nat] /\ iteration[r] \in Nat
      /\ pc \in [DurableRuns ->
              {"work", "fold", "pair", "checkpoint", "stopped", "completed", "failed"}]
      /\ pending \in [DurableRuns -> Seq(Recommendations)] /\ p \in Seq(Recommendations)
  BY <1>1, <1>2 DEF SupervisorTypeOK
<1>6. /\ Len(p) \in {1, 2} /\ (Len(p) = 2 => p[1].tag = "retry" /\ p[2].tag = "escalate")
      /\ \A k \in 1 .. Len(p) :
            /\ p[k].id[1] = r /\ p[k].id[2] = iteration[r]
            /\ p[k].tag = "retry" => p[k].id[3] = 1
            /\ p[k].tag = "escalate" => Cardinality(Tagged("failure")) >= 2
  BY <1>1, <1>2, <1>4 DEF PendingFits
<1>7. p # <<>> /\ c = p[1] /\ c \in Recommendations
  BY <1>3, <1>5, <1>6, HeadTailProperties
<1>8. /\ Len(p) = 1 /\ c.id[1] = r /\ c.id[2] = iteration[r]
      /\ Cardinality(Tagged("failure")) >= 2
  <2>1. 1 \in 1 .. Len(p)
    BY <1>6
  <2> QED
    BY <1>4, <1>6, <1>7, <2>1
<1>9. /\ c \in TapeClaims
      /\ tape' = tape \/ tape' = Append(tape, c)
      /\ tape' \in Seq(TapeClaims) /\ IdsAreUnique'
      /\ \E n \in Tagged("escalate")' : tape'[n] = c
  BY <1>4, <1>7, FoldedOnce
<1>10. /\ pc'[r] = "pair" /\ \A s \in DurableRuns : s # r => pc'[s] = pc[s]
  BY <1>4, <1>5
<1>11. SupervisorTypeOK'
  BY <1>4, <1>5, <1>9 DEF SupervisorTypeOK
<1>12. \A t : t # "escalate" =>
         Tagged(t)' = Tagged(t) /\ \A n \in Tagged(t) : tape'[n] = tape[n]
  BY <1>4, <1>7, OthersTagged
<1>13. TapeFits'
  BY <1>1, <1>4, <1>9, <1>12
    DEF TapeFits, AttemptsInOrder, RetriesComeFirst, BlocksFollow
<1>16. OneTick'
  BY <1>4, <1>10, OneTickStays
<1>17. PendingFits(r)'
  <2>1. Cardinality(Tagged("failure"))' >= 2
    BY <1>8, <1>12
  <2>2. \A k \in 1 .. Len(p) : k = 1
    BY <1>8
  <2>3. /\ Len(p) = 1 /\ p[1].tag = "escalate"
        /\ \A k \in 1 .. Len(p) : /\ p[k].tag = "escalate" /\ p[k].id[1] = r
                                  /\ p[k].id[2] = iteration'[r]
    BY <1>4, <1>7, <1>8, <2>2
  <2>4. pending'[r] = p
    BY <1>2, <1>4
  <2>5. \E n \in Tagged("escalate")' : tape'[n] = p[1]
    BY <1>7, <1>9
  <2> QED
    BY <1>10, <2>1, <2>3, <2>4, <2>5 DEF PendingFits
<1>18. EscalationsFit(r)'
  <2> SUFFICES ASSUME NEW n \in Tagged("escalate")', tape'[n].id[1] = r
               PROVE  tape'[n].id[2] = iteration'[r] /\ Cardinality(Tagged("failure"))' >= 2
    BY <1>10 DEF EscalationsFit
  <2>1. Cardinality(Tagged("failure"))' >= 2
    BY <1>8, <1>12
  <2>2. tape'[n].id[2] = iteration[r]
    <3>1. CASE n \in Tagged("escalate") /\ tape'[n] = tape[n]
      BY <1>1, <3>1 DEF EscalationsFit
    <3>2. CASE tape'[n] = c
      BY <3>2, <1>8
    <3>3. CASE tape' = tape
      BY <3>1, <3>3 DEF Tagged
    <3>4. CASE tape' = Append(tape, c)
      <4>1. /\ Tagged("escalate")' = Tagged("escalate") \cup {Len(tape) + 1}
            /\ tape'[Len(tape) + 1] = c
        BY <1>4, <1>5, <1>9, <3>4, TaggedAppends, TapeAppends
      <4>2. \A k \in Tagged("escalate") : tape'[k] = tape[k]
        BY <1>5, <1>9, <3>4, TapeAppends DEF Tagged
      <4> QED
        BY <3>1, <3>2, <4>1, <4>2
    <3> QED
      BY <1>9, <3>3, <3>4
  <2> QED
    BY <1>4, <2>1, <2>2
<1>19. ASSUME NEW s \in DurableRuns, s # r PROVE PendingFits(s)' /\ EscalationsFit(s)'
  <2>1. tape' = tape \/ \E e \in TapeClaims :
          tape' = Append(tape, e) /\ MayStep(r) /\ (e.tag = "escalate" => e.id[1] = r)
    BY <1>4, <1>8, <1>9
  <2> QED
    BY <1>4, <1>10, <1>19, <2>1, OtherRunsFit
<1> QED
  BY <1>11, <1>13, <1>16, <1>17, <1>18, <1>19 DEF SupervisorInv

\* What an escalation blocked is recorded after it.
LEMMA PairFits ==
  ASSUME SupervisorInv, NEW r \in DurableRuns, Pair(r)
  PROVE  SupervisorInv'
<1>1. SupervisorTypeOK /\ TapeFits /\ PendingFits(r) /\ EscalationsFit(r)
  BY DEF SupervisorInv
<1>2. PICK p : p = pending[r]
  OBVIOUS
<1>3. PICK c : c = Head(p)
  OBVIOUS
<1>4. PICK n \in Recorded(c.id) :
        Folds([tag |-> "goal_blocked", id |-> <<c.id, "goal-blocked">>, source |-> n])
  BY <1>2, <1>3 DEF Pair
<1>5. PICK b : b = [tag |-> "goal_blocked", id |-> <<c.id, "goal-blocked">>, source |-> n]
  OBVIOUS
<1>6. /\ pc[r] = "pair" /\ MayStep(r) /\ Folds(b)
      /\ pending' = pending /\ pc' = [pc EXCEPT ![r] = "checkpoint"]
      /\ together' = together /\ iteration' = iteration
  BY <1>4, <1>5 DEF Pair
<1>7. /\ together \in BOOLEAN /\ tape \in Seq(TapeClaims)
      /\ iteration \in [DurableRuns -> Nat] /\ iteration[r] \in Nat
      /\ pc \in [DurableRuns ->
              {"work", "fold", "pair", "checkpoint", "stopped", "completed", "failed"}]
      /\ pending \in [DurableRuns -> Seq(Recommendations)] /\ p \in Seq(Recommendations)
  BY <1>1, <1>2 DEF SupervisorTypeOK
<1>8. /\ Len(p) = 1 /\ p[1].tag = "escalate" /\ p[1].id[1] = r /\ p[1].id[2] = iteration[r]
      /\ \E k \in Tagged("escalate") : tape[k] = p[1]
  <2>1. Len(p) = 1 => 1 \in 1 .. Len(p)
    OBVIOUS
  <2> QED
    BY <1>1, <1>2, <1>6, <2>1 DEF PendingFits
<1>9. p # <<>> /\ c = p[1] /\ c \in Recommendations
  <2>0. Len(<<>>) = 0
    OBVIOUS
  <2>3. Len(p) = 1
    BY <1>8
  <2>1. p # <<>>
    BY <2>0, <2>3
  <2>2. c \in Recommendations
    BY <1>3, <1>7, <2>1, HeadTailProperties
  <2> QED
    BY <1>3, <1>7, <2>1, <2>2
<1>10. n \in Tagged("escalate") /\ tape[n] = c /\ n \in 1 .. Len(tape)
  <2>1. PICK k \in Tagged("escalate") : tape[k] = c
    BY <1>8, <1>9
  <2>2. k \in 1 .. Len(tape) /\ tape[k].tag = "escalate"
    BY DEF Tagged
  <2>3. n \in 1 .. Len(tape) /\ tape[n].tag # "failure" /\ tape[n].id = c.id
    BY <1>4 DEF Recorded
  <2>4. n = k
    BY <1>1, <2>1, <2>2, <2>3 DEF TapeFits, IdsAreUnique
  <2> QED
    BY <2>1, <2>3, <2>4
<1>11. b \in Blocks /\ b.tag = "goal_blocked" /\ b.source = n
  <2>1. c.id \in ActionIds /\ n \in Nat
    BY <1>9, <1>10 DEF Recommendations
  <2>2. <<c.id, "goal-blocked">> \in ActionIds \X {"goal-blocked"}
    BY <2>1
  <2> QED
    BY <1>5, <2>1, <2>2 DEF Blocks
<1>12. /\ b \in TapeClaims
       /\ tape' = tape \/ tape' = Append(tape, b)
       /\ tape' \in Seq(TapeClaims) /\ IdsAreUnique'
       /\ \E g \in Tagged("goal_blocked")' : tape'[g] = b
  BY <1>6, <1>11, FoldedOnce
<1>13. /\ pc'[r] = "checkpoint" /\ \A s \in DurableRuns : s # r => pc'[s] = pc[s]
  BY <1>6, <1>7
<1>14. SupervisorTypeOK'
  BY <1>6, <1>7, <1>12 DEF SupervisorTypeOK
<1>15. \A t : t # "goal_blocked" =>
         Tagged(t)' = Tagged(t) /\ \A k \in Tagged(t) : tape'[k] = tape[k]
  BY <1>6, <1>11, OthersTagged
<1>16. BlocksFollow'
  <2> SUFFICES ASSUME NEW g \in Tagged("goal_blocked")' PROVE tape'[g].source < g
    BY DEF BlocksFollow
  <2>1. CASE tape' = tape
    BY <1>1, <2>1 DEF TapeFits, BlocksFollow, Tagged
  <2>2. CASE tape' = Append(tape, b)
    <3>1. /\ Tagged("goal_blocked")' = Tagged("goal_blocked") \cup {Len(tape) + 1}
          /\ tape'[Len(tape) + 1] = b /\ Len(tape) \in Nat
          /\ \A k \in 1 .. Len(tape) : tape'[k] = tape[k]
      BY <1>7, <1>11, <1>12, <2>2, TaggedAppends, TapeAppends
    <3>2. CASE g \in Tagged("goal_blocked")
      <4>1. tape'[g] = tape[g]
        BY <3>1, <3>2 DEF Tagged
      <4> QED
        BY <1>1, <3>2, <4>1 DEF TapeFits, BlocksFollow
    <3>3. CASE g = Len(tape) + 1
      BY <1>10, <1>11, <3>1, <3>3
    <3> QED
      BY <3>1, <3>2, <3>3
  <2> QED
    BY <1>12, <2>1, <2>2
<1>17. TapeFits'
  BY <1>1, <1>6, <1>12, <1>15, <1>16 DEF TapeFits, AttemptsInOrder, RetriesComeFirst
<1>18. OneTick'
  BY <1>6, <1>13, OneTickStays
<1>19. HasEscalated(r)'
  <2>1. n \in Tagged("escalate")' /\ tape'[n] = c
    BY <1>10, <1>15
  <2>2. PICK g \in Tagged("goal_blocked")' : tape'[g] = b
    BY <1>12
  <2>3. g \in 1 .. Len(tape') /\ n < g
    BY <1>11, <1>16, <2>2 DEF BlocksFollow, Tagged
  <2>4. IsPaired(n)'
    <3>1. g \in n + 1 .. Len(tape')
      BY <1>10, <2>3
    <3> QED
      BY <1>11, <2>2, <3>1 DEF IsPaired
  <2> QED
    BY <1>6, <1>8, <1>9, <2>1, <2>4 DEF HasEscalated
<1>20. PendingFits(r)'
  BY <1>13, <1>19 DEF PendingFits
<1>21. EscalationsFit(r)'
  <2>1. /\ Tagged("failure")' = Tagged("failure") /\ Tagged("escalate")' = Tagged("escalate")
        /\ \A k \in Tagged("escalate") : tape'[k] = tape[k]
    BY <1>15
  <2>2. pending'[r] # <<>>
    BY <1>2, <1>6, <1>9
  <2> QED
    BY <1>1, <1>6, <1>13, <2>1, <2>2 DEF EscalationsFit
<1>22. ASSUME NEW s \in DurableRuns, s # r PROVE PendingFits(s)' /\ EscalationsFit(s)'
  <2>1. tape' = tape \/ \E e \in TapeClaims :
          tape' = Append(tape, e) /\ MayStep(r) /\ (e.tag = "escalate" => e.id[1] = r)
    BY <1>6, <1>11, <1>12
  <2> QED
    BY <1>6, <1>13, <1>22, <2>1, OtherRunsFit
<1> QED
  BY <1>14, <1>17, <1>18, <1>20, <1>21, <1>22 DEF SupervisorInv

\* A run moves and the tape is as it was.
LEMMA TapeAsItWas ==
  ASSUME SupervisorInv, NEW r \in DurableRuns, MayStep(r) \/ Ticking(r),
         tape' = tape, together' = together, SupervisorTypeOK',
         \A s \in DurableRuns \ {r} :
           pc'[s] = pc[s] /\ pending'[s] = pending[s] /\ iteration'[s] = iteration[s],
         PendingFits(r)', EscalationsFit(r)'
  PROVE  SupervisorInv'
<1>1. TapeFits
  BY DEF SupervisorInv
<1>2. TapeFits'
  <2>1. \A t : Tagged(t)' = Tagged(t)
    BY DEF Tagged
  <2>2. Cardinality(Tagged("retry"))' = Cardinality(Tagged("retry"))
    BY <2>1
  <2> QED
    BY <1>1, <2>1, <2>2
      DEF TapeFits, IdsAreUnique, AttemptsInOrder, RetriesComeFirst, BlocksFollow
<1>3. OneTick'
  BY OneTickStays
<1>4. ASSUME NEW s \in DurableRuns, s # r PROVE PendingFits(s)' /\ EscalationsFit(s)'
  BY <1>4, OtherRunsFit
<1> QED
  BY <1>2, <1>3, <1>4 DEF SupervisorInv

\* A tick ends: with the run, with its iteration, in a conflict or a crash.
LEMMA TickEnds ==
  ASSUME SupervisorInv, NEW r \in DurableRuns, EndIteration(r) \/ Conflict(r) \/ DieInTick(r)
  PROVE  SupervisorInv'
<1>1. SupervisorTypeOK /\ PendingFits(r) /\ EscalationsFit(r)
  BY DEF SupervisorInv
<1>2. /\ tape' = tape /\ together' = together /\ pending' = [pending EXCEPT ![r] = <<>>]
      /\ MayStep(r) \/ Ticking(r)
  BY DEF EndIteration, Conflict, DieInTick
<1>3. /\ together \in BOOLEAN /\ tape \in Seq(TapeClaims)
      /\ iteration \in [DurableRuns -> Nat] /\ iteration[r] \in Nat
      /\ pc \in [DurableRuns ->
              {"work", "fold", "pair", "checkpoint", "stopped", "completed", "failed"}]
      /\ pending \in [DurableRuns -> Seq(Recommendations)]
  BY <1>1 DEF SupervisorTypeOK
<1>4. \/ pc' = [pc EXCEPT ![r] = "stopped"] /\ iteration' = iteration
         /\ pc[r] = "checkpoint" /\ pending[r] # <<>>
      \/ pc' = [pc EXCEPT ![r] = "completed"] /\ iteration' = iteration
         /\ pc[r] = "checkpoint" /\ pending[r] = <<>>
      \/ pc' = [pc EXCEPT ![r] = "work"]
         /\ iteration' = [iteration EXCEPT ![r] = iteration[r] + 1]
         /\ pc[r] = "checkpoint" /\ pending[r] = <<>>
      \/ pc' = [pc EXCEPT ![r] = "failed"] /\ iteration' = iteration
      \/ pc' = [pc EXCEPT ![r] = "work"] /\ iteration' = iteration
  BY DEF EndIteration, Conflict, DieInTick
<1>5. <<>> \in Seq(Recommendations)
  OBVIOUS
<1>6. SupervisorTypeOK'
  <2>1. /\ tape' \in Seq(TapeClaims) /\ together' \in BOOLEAN
        /\ pending' \in [DurableRuns -> Seq(Recommendations)]
    BY <1>2, <1>3, <1>5
  <2>2. pc' \in [DurableRuns ->
              {"work", "fold", "pair", "checkpoint", "stopped", "completed", "failed"}]
    BY <1>3, <1>4
  <2>3. iteration' \in [DurableRuns -> Nat]
    <3>1. PICK k : k = iteration[r] + 1
      OBVIOUS
    <3>2. k \in Nat
      BY <1>3, <3>1
    <3>3. iteration' = iteration \/ iteration' = [iteration EXCEPT ![r] = k]
      BY <1>4, <3>1
    <3> QED
      BY <1>3, <3>2, <3>3
  <2> QED
    BY <2>1, <2>2, <2>3 DEF SupervisorTypeOK
<1>7. \A s \in DurableRuns \ {r} :
        pc'[s] = pc[s] /\ pending'[s] = pending[s] /\ iteration'[s] = iteration[s]
  BY <1>2, <1>3, <1>4
<1>8. \/ pc'[r] = "stopped" /\ iteration'[r] = iteration[r] /\ HasEscalated(r)
      \/ pc'[r] \in {"completed", "work"} /\ \A n \in Tagged("escalate") : tape[n].id[1] # r
      \/ pc'[r] \in {"failed", "work"} /\ iteration'[r] = iteration[r]
  <2>1. pc[r] = "checkpoint" /\ pending[r] # <<>> => HasEscalated(r)
    BY <1>1 DEF PendingFits
  <2>2. pc[r] = "checkpoint" /\ pending[r] = <<>> =>
          \A n \in Tagged("escalate") : tape[n].id[1] # r
    BY <1>1 DEF EscalationsFit
  <2> QED
    BY <1>3, <1>4, <2>1, <2>2
<1>9. HasEscalated(r) /\ iteration'[r] = iteration[r] => HasEscalated(r)'
  BY <1>2 DEF HasEscalated, IsPaired, Tagged
<1>10. PendingFits(r)'
  BY <1>8, <1>9 DEF PendingFits
<1>11. EscalationsFit(r)'
  <2>1. \A t : Tagged(t)' = Tagged(t)
    BY <1>2 DEF Tagged
  <2> QED
    BY <1>1, <1>2, <1>8, <2>1 DEF EscalationsFit
<1> QED
  BY <1>2, <1>6, <1>7, <1>10, <1>11, TapeAsItWas

\* Every step keeps the invariant.
LEMMA SupervisorSteps ==
  SupervisorInv /\ [SupervisorNext]_supervisorVars => SupervisorInv'
<1> SUFFICES ASSUME SupervisorInv, [SupervisorNext]_supervisorVars PROVE SupervisorInv'
  OBVIOUS
<1>1. CASE UNCHANGED supervisorVars
  <2>1. /\ together' = together /\ tape' = tape /\ iteration' = iteration
        /\ pc' = pc /\ pending' = pending
    BY <1>1 DEF supervisorVars
  <2>2. /\ Tagged("retry")' = Tagged("retry") /\ Tagged("failure")' = Tagged("failure")
        /\ Tagged("escalate")' = Tagged("escalate")
        /\ Tagged("goal_blocked")' = Tagged("goal_blocked")
    BY <2>1 DEF Tagged
  <2>3. TapeFits'
    <3>1. Cardinality(Tagged("retry"))' = Cardinality(Tagged("retry"))
      BY <2>2
    <3> QED
      BY <2>1, <2>2, <3>1 DEF SupervisorInv, TapeFits, IdsAreUnique, AttemptsInOrder,
        RetriesComeFirst, BlocksFollow
  <2>4. SupervisorTypeOK' /\ OneTick'
    BY <2>1 DEF SupervisorInv, SupervisorTypeOK, OneTick, Ticking
  <2>5. ASSUME NEW r \in DurableRuns PROVE PendingFits(r)' /\ EscalationsFit(r)'
    <3>1. PriorRetries(r)' = PriorRetries(r) /\ HasEscalated(r)' = HasEscalated(r)
      BY <2>1, <2>2 DEF PriorRetries, HasEscalated, IsPaired
    <3>2. Cardinality(Tagged("failure"))' = Cardinality(Tagged("failure"))
      BY <2>2
    <3> QED
      BY <2>1, <2>2, <3>1, <3>2 DEF SupervisorInv, PendingFits, EscalationsFit
  <2> QED
    BY <2>3, <2>4, <2>5 DEF SupervisorInv
<1>2. ASSUME NEW r \in DurableRuns,
             \/ Fail(r) \/ SupervisorTick(r) \/ Folded(r) \/ Conflict(r)
             \/ Pair(r) \/ EndIteration(r) \/ DieInTick(r)
      PROVE  SupervisorInv'
  <2>1. CASE Fail(r)
    BY <2>1, FailFits
  <2>2. CASE SupervisorTick(r)
    BY <2>2, TickFits
  <2>3. CASE Folded(r)
    BY <2>3, RetryFolds, EscalationFolds
  <2>4. CASE Pair(r)
    BY <2>4, PairFits
  <2>5. CASE EndIteration(r) \/ Conflict(r) \/ DieInTick(r)
    BY <2>5, TickEnds
  <2> QED
    BY <1>2, <2>1, <2>2, <2>3, <2>4, <2>5
<1> QED
  BY <1>1, <1>2 DEF SupervisorNext

\* The invariant says what is promised.
LEMMA SupervisorInvSuffices == SupervisorInv => RecommendationsSound
<1> SUFFICES ASSUME SupervisorInv PROVE CapKept /\ StopsAsRecorded
  BY DEF RecommendationsSound
<1>1. CapKept
  BY DEF SupervisorInv, TapeFits, AttemptsInOrder, CapKept
<1>2. ASSUME NEW r \in DurableRuns, pc[r] = "stopped"
      PROVE  \E n \in {m \in Tagged("escalate") : tape[m].id[1] = r} :
               tape[n].id[2] = iteration[r] /\ IsPaired(n)
  BY <1>2 DEF SupervisorInv, PendingFits, HasEscalated
<1>3. ASSUME NEW r \in DurableRuns,
             NEW n \in {m \in Tagged("escalate") : tape[m].id[1] = r}
      PROVE  tape[n].id[2] = iteration[r] /\ pc[r] # "completed"
  BY DEF SupervisorInv, EscalationsFit
<1>4. StopsAsRecorded
  BY <1>2, <1>3 DEF StopsAsRecorded
<1> QED
  BY <1>1, <1>4

\* In one process the retries of a tick stay within their cap, whichever
\* crashes repeat it, and a run stops exactly when it recorded an escalation
\* and what that blocked (supervisor.py tick, _emit_batch).
THEOREM RecommendationsAreSound == SupervisorSpec => []RecommendationsSound
<1>1. SupervisorSpec => []SupervisorInv
  BY SupervisorStarts, SupervisorSteps, PTL DEF SupervisorSpec
<1> QED
  BY <1>1, SupervisorInvSuffices, PTL

-----------------------------------------------------------------------------
(* The ChangeSet *)

RunStates == {"active", "completed", "failed"}
ChangeStates == {"none", "open", "ready", "applied", "discarded"}
Workspaces == [Files -> Value]
StoredReports == [status : RunStates \cup {"none"}, delivery : ChangeStates]

\* What a Workbench may be in the middle of.
Copying == [at : {"copy"}, todo : SUBSET Files, baseline : Workspaces]
Comparing ==
  [at : {"files"}, todo : SUBSET Files, paths : SUBSET Files, desired : Workspaces]
Replacing ==
  [at : {"replace"}, next : Files, todo : SUBSET Files, paths : SUBSET Files,
   desired : Workspaces]
Deciding == [at : {"preflight", "remove", "mark"}]
Telling ==
  {Idle} \cup [at : {"prepare", "reported"}, status : RunStates]
  \cup [at : {"compose"}, status : RunStates, opened : BOOLEAN]
  \cup [at : {"write"}, status : RunStates, delivery : ChangeStates]
  \cup [at : {"event"}, kind : {"applied", "discarded"}, data : SUBSET Files]
  \cup [at : {"patch"}, kind : {"applied", "discarded"}]
  \cup [at : {"patched"}, report : StoredReports]
Doing == Copying \cup Comparing \cup Replacing \cup Deciding \cup Telling

ChangesTypeOK ==
  /\ run \in RunStates
  /\ source \in Workspaces
  /\ stage \in [exists : BOOLEAN, file : Workspaces]
  /\ cs \in [state : ChangeStates, baseline : Workspaces]
  /\ report \in StoredReports
  /\ op \in [Workbenches -> Doing]
  /\ edited \subseteq Files

\* What a Workbench in the middle of an operation may rely on: the one that
\* copies is alone with the stage, and what it copied from an untouched file
\* is there and in the copy; one that applies works for a run that is over, on
\* what is staged and on what had changed, and an untouched file it is done
\* with holds what is staged.
WorkFits(o) ==
  /\ op[o] \in Copying =>
       /\ cs.state = "none" /\ stage.exists
       /\ \A f \in Untouched \ op[o].todo :
            source[f] = op[o].baseline[f] /\ stage.file[f] = op[o].baseline[f]
  /\ op[o].at \in {"preflight", "files", "replace"} => run = "completed"
  /\ op[o].at \in {"preflight", "files", "replace", "remove", "mark"} => cs.state # "none"
  /\ op[o] \in Comparing \cup Replacing /\ stage.exists =>
       /\ op[o].desired = stage.file /\ op[o].paths = Changed
       /\ \A f \in Untouched \cap (Changed \ op[o].todo) : source[f] = stage.file[f]

OneCopies ==
  \A o, p \in Workbenches : op[o] \in Copying /\ op[p] \in Copying => o = p

\* Nothing is applied for a run that is not over, or for no ChangeSet.
AppliedForCompleted == cs.state = "applied" => run = "completed"

ChangesInv ==
  /\ ChangesTypeOK
  /\ \A o \in Workbenches : WorkFits(o)
  /\ OneCopies /\ AppliedForCompleted /\ DeliveredWhole

-----------------------------------------------------------------------------
\* Each stop of an operation has its own kind of record.
LEMMA Stops ==
  ASSUME NEW x \in Doing
  PROVE  /\ x.at = "copy" <=> x \in Copying
         /\ x.at = "files" <=> x \in Comparing
         /\ x.at = "replace" <=> x \in Replacing
         /\ x \in Telling =>
              x.at \notin {"copy", "files", "replace", "preflight", "remove", "mark"}
         /\ x.at \in {"preflight", "remove", "mark"} <=> x \in Deciding
<1>1. ASSUME x \in Copying PROVE x.at = "copy"
  BY <1>1 DEF Copying
<1>2. ASSUME x \in Comparing PROVE x.at = "files"
  BY <1>2 DEF Comparing
<1>3. ASSUME x \in Replacing PROVE x.at = "replace"
  BY <1>3 DEF Replacing
<1>4. ASSUME x \in Deciding PROVE x.at \in {"preflight", "remove", "mark"}
  BY <1>4 DEF Deciding
<1>5. ASSUME x \in Telling
      PROVE  x.at \notin {"copy", "files", "replace", "preflight", "remove", "mark"}
  BY <1>5 DEF Telling, Idle
<1> QED
  BY <1>1, <1>2, <1>3, <1>4, <1>5 DEF Doing

\* The invariant holds at the start.
LEMMA ChangesStart == ChangesInit => ChangesInv
<1> SUFFICES ASSUME ChangesInit PROVE ChangesInv
  OBVIOUS
<1>1. /\ run = "active" /\ source = Initial /\ stage = NoStage
      /\ cs = [state |-> "none", baseline |-> [f \in Files |-> Absent]]
      /\ report = NoReport /\ op = [o \in Workbenches |-> Idle] /\ edited = {}
  BY DEF ChangesInit
<1>2. source \in Workspaces
  BY <1>1, InitialIsWorkspace DEF Workspaces, Value
<1>3. [f \in Files |-> Absent] \in Workspaces
  BY DEF Workspaces, Value
<1>4. /\ stage \in [exists : BOOLEAN, file : Workspaces]
      /\ cs \in [state : ChangeStates, baseline : Workspaces]
  BY <1>1, <1>3 DEF NoStage, ChangeStates
<1>5. report \in StoredReports
  BY <1>1 DEF NoReport, StoredReports, ChangeStates
<1>6. Idle \in Doing /\ Idle \in Telling
  BY DEF Doing, Telling
<1>7. ChangesTypeOK
  BY <1>1, <1>2, <1>4, <1>5, <1>6 DEF ChangesTypeOK, RunStates
<1>8. \A o \in Workbenches : op[o] = Idle
  BY <1>1
<1>9. /\ Idle \notin Copying /\ Idle \notin Comparing /\ Idle \notin Replacing
      /\ Idle.at \notin {"preflight", "files", "replace", "remove", "mark"}
  BY <1>6, Stops
<1>10. \A o \in Workbenches : WorkFits(o)
  BY <1>8, <1>9 DEF WorkFits
<1>11. OneCopies
  BY <1>8, <1>9 DEF OneCopies
<1>12. cs.state = "none"
  BY <1>1
<1> QED
  BY <1>7, <1>10, <1>11, <1>12 DEF ChangesInv, AppliedForCompleted, DeliveredWhole

\* A Workbench moves to its next stop.
LEMMA StopMoves ==
  ASSUME op \in [Workbenches -> Doing], NEW o \in Workbenches, NEW w \in Doing,
         op' = [op EXCEPT ![o] = w]
  PROVE  /\ op' \in [Workbenches -> Doing] /\ op'[o] = w
         /\ \A p \in Workbenches : p # o => op'[p] = op[p]
OBVIOUS

\* What may happen around a Workbench: a run that is over stays over, a
\* ChangeSet keeps its baseline, its stage is what it was once its run is
\* over, or gone, and an untouched file that holds what is staged holds it on.
Around(p) ==
  /\ op'[p] = op[p] /\ edited \subseteq edited'
  /\ run = "completed" => run' = "completed"
  /\ cs.state # "none" =>
       /\ cs'.state # "none" /\ cs'.baseline = cs.baseline
       /\ run = "completed" /\ stage'.exists => stage.exists /\ stage'.file = stage.file
       /\ run = "completed" /\ stage.exists =>
            \A f \in Files \ edited' :
              source[f] = stage.file[f] => source'[f] = stage.file[f]
  /\ op[p] \in Copying =>
       /\ stage' = stage /\ cs' = cs
       /\ \A f \in Files \ edited' : source'[f] = source[f]

LEMMA WorkGoesOn ==
  ASSUME ChangesInv, NEW p \in Workbenches, Around(p)
  PROVE  WorkFits(p)'
<1>1. /\ WorkFits(p) /\ op[p] \in Doing
  BY DEF ChangesInv, ChangesTypeOK
<1>2. /\ op'[p] = op[p] /\ edited \subseteq edited'
      /\ Untouched' \subseteq Untouched /\ Untouched' = Files \ edited'
  BY DEF Around, Untouched
<1>3. CASE op[p] \in Copying
  <2>1. op[p].at = "copy" /\ op[p] \notin Comparing \cup Replacing
    BY <1>1, <1>3, Stops
  <2> QED
    BY <1>1, <1>2, <1>3, <2>1 DEF WorkFits, Around
<1>4. CASE op[p] \in Comparing \cup Replacing
  <2>1. op[p].at \in {"files", "replace"} /\ op[p] \notin Copying
    BY <1>1, <1>4, Stops
  <2>2. /\ run = "completed" /\ cs.state # "none" /\ run' = "completed"
        /\ cs'.state # "none" /\ cs'.baseline = cs.baseline
    BY <1>1, <2>1 DEF WorkFits, Around
  <2>3. ASSUME stage'.exists
        PROVE  /\ op[p].desired = stage'.file /\ op[p].paths = Changed'
               /\ \A f \in Untouched' \cap (Changed' \ op[p].todo) : source'[f] = stage'.file[f]
    <3>1. stage.exists /\ stage'.file = stage.file
      BY <2>2, <2>3 DEF Around
    <3>2. Changed' = Changed
      BY <2>2, <3>1 DEF Changed, Manifest
    <3>3. /\ op[p].desired = stage.file /\ op[p].paths = Changed
          /\ \A f \in Untouched \cap (Changed \ op[p].todo) : source[f] = stage.file[f]
      BY <1>1, <1>4, <3>1 DEF WorkFits
    <3>4. \A f \in Files \ edited' : source[f] = stage.file[f] => source'[f] = stage.file[f]
      BY <2>2, <3>1 DEF Around
    <3> QED
      BY <1>2, <3>1, <3>2, <3>3, <3>4
  <2> QED
    BY <1>2, <2>1, <2>2, <2>3 DEF WorkFits
<1>5. CASE op[p] \notin Copying \cup Comparing \cup Replacing
  BY <1>1, <1>2, <1>5 DEF WorkFits, Around
<1> QED
  BY <1>3, <1>4, <1>5

\* A Workbench moves to a stop where nothing is copied or replaced.
LEMMA QuietStep ==
  ASSUME ChangesInv, NEW o \in Workbenches, NEW w \in Telling \cup Deciding,
         op' = [op EXCEPT ![o] = w],
         w.at = "preflight" => run = "completed" /\ cs.state # "none",
         w.at \in {"remove", "mark"} => cs.state # "none",
         report' \in StoredReports, UNCHANGED <<run, source, stage, cs, edited>>
  PROVE  ChangesInv'
<1>1. ChangesTypeOK /\ OneCopies /\ AppliedForCompleted /\ DeliveredWhole
  BY DEF ChangesInv
<1>2. w \in Doing /\ w.at \notin {"copy", "files", "replace"}
  <2>1. w \in Doing
    BY DEF Doing
  <2>2. CASE w \in Telling
    BY <2>1, <2>2, Stops
  <2>3. CASE w \in Deciding
    BY <2>1, <2>3, Stops
  <2> QED
    BY <2>1, <2>2, <2>3
<1>3. w \notin Copying /\ w \notin Comparing /\ w \notin Replacing
  BY <1>2, Stops
<1>4. /\ op' \in [Workbenches -> Doing] /\ op'[o] = w
      /\ \A p \in Workbenches : p # o => op'[p] = op[p]
  BY <1>1, <1>2, StopMoves DEF ChangesTypeOK
<1>5. ChangesTypeOK'
  BY <1>1, <1>4 DEF ChangesTypeOK
<1>6. WorkFits(o)'
  BY <1>2, <1>3, <1>4 DEF WorkFits
<1>7. ASSUME NEW p \in Workbenches, p # o PROVE WorkFits(p)'
  <2>1. Around(p)
    BY <1>4, <1>7 DEF Around
  <2> QED
    BY <2>1, WorkGoesOn
<1>8. OneCopies'
  BY <1>1, <1>3, <1>4 DEF OneCopies
<1>9. AppliedForCompleted' /\ DeliveredWhole'
  BY <1>1 DEF AppliedForCompleted, DeliveredWhole, Untouched
<1> QED
  BY <1>5, <1>6, <1>7, <1>8, <1>9 DEF ChangesInv

\* Reports, their events, and what a decision starts and ends with.
LEMMA TellingFits ==
  ASSUME ChangesInv, NEW o \in Workbenches,
         \/ Report(o) \/ Compose(o) \/ WriteReport(o) \/ Reported(o) \/ Apply(o)
         \/ Discard(o) \/ RecordEvent(o) \/ ReadReport(o) \/ PatchReport(o) \/ Crash(o)
  PROVE  ChangesInv'
<1>1. ChangesTypeOK /\ op[o] \in Doing
  BY DEF ChangesInv, ChangesTypeOK
<1>2. run \in RunStates /\ report \in StoredReports /\ cs.state \in ChangeStates
  BY <1>1 DEF ChangesTypeOK
<1>3. Idle \in Telling /\ Idle.at = "idle"
  BY DEF Telling, Idle
<1>4. CASE Report(o)
  <2>1. PICK w : w = [at |-> "prepare", status |-> run]
    OBVIOUS
  <2>2. w \in Telling /\ w.at = "prepare"
    BY <1>2, <2>1 DEF Telling
  <2> QED
    BY <1>2, <1>4, <2>1, <2>2, QuietStep
      DEF Report, Do, KeepOthers, disk, tables
<1>5. CASE Compose(o)
  <2>1. op[o].at = "compose"
    BY <1>5 DEF Compose, At
  <2>2. op[o] \in [at : {"compose"}, status : RunStates, opened : BOOLEAN]
    BY <1>1, <2>1 DEF Doing, Copying, Comparing, Replacing, Deciding, Telling, Idle
  <2>3. PICK w : w = IF op[o].opened /\ ~Fits("ready", Changed) THEN Idle
           ELSE [at |-> "write", status |-> op[o].status, delivery |-> cs.state]
    OBVIOUS
  <2>4. w \in Telling /\ w.at \in {"idle", "write"}
    BY <1>2, <1>3, <2>2, <2>3 DEF Telling
  <2>5. op' = [op EXCEPT ![o] = w] /\ report' = report
        /\ UNCHANGED <<run, source, stage, cs, edited>>
    BY <1>5, <2>3 DEF Compose, Do, KeepOthers, disk
  <2> QED
    BY <1>2, <2>4, <2>5, QuietStep
<1>6. CASE WriteReport(o)
  <2>1. op[o].at = "write"
    BY <1>6 DEF WriteReport, At
  <2>2. op[o] \in [at : {"write"}, status : RunStates, delivery : ChangeStates]
    BY <1>1, <2>1 DEF Doing, Copying, Comparing, Replacing, Deciding, Telling, Idle
  <2>3. PICK w : w = [at |-> "reported", status |-> op[o].status]
    OBVIOUS
  <2>4. w \in Telling /\ w.at = "reported"
    BY <2>2, <2>3 DEF Telling
  <2>5. op' = [op EXCEPT ![o] = w] /\ UNCHANGED <<run, source, stage, cs, edited>>
        /\ report' = [status |-> op[o].status, delivery |-> op[o].delivery]
    BY <1>6, <2>3 DEF WriteReport, Do, KeepOthers, disk
  <2>6. report' \in StoredReports
    BY <2>2, <2>5 DEF StoredReports
  <2> QED
    BY <2>4, <2>5, <2>6, QuietStep
<1>7. CASE Reported(o)
  BY <1>2, <1>3, <1>7, QuietStep DEF Reported, End, Do, KeepOthers, disk
<1>8. CASE Apply(o)
  <2>1. op[o] = Idle
    BY <1>1, <1>8 DEF Apply, At, Doing, Copying, Comparing, Replacing, Deciding, Telling
  <2>2. PICK w : w = [op[o] EXCEPT !.at = "preflight"]
    OBVIOUS
  <2>3. w \in Deciding /\ w.at = "preflight"
    BY <2>1, <2>2 DEF Idle, Deciding
  <2>4. op' = [op EXCEPT ![o] = w]
    BY <1>8, <2>2 DEF Apply, Goto
  <2> QED
    BY <1>2, <1>8, <2>3, <2>4, QuietStep DEF Apply, Applicable, KeepOthers, disk, tables
<1>9. CASE Discard(o)
  <2>1. op[o] = Idle
    BY <1>1, <1>9 DEF Discard, At, Doing, Copying, Comparing, Replacing, Deciding, Telling
  <2>2. PICK w : w = [op[o] EXCEPT !.at = "remove"]
    OBVIOUS
  <2>3. w \in Deciding /\ w.at = "remove"
    BY <2>1, <2>2 DEF Idle, Deciding
  <2>4. op' = [op EXCEPT ![o] = w]
    BY <1>9, <2>2 DEF Discard, Goto
  <2> QED
    BY <1>2, <1>9, <2>3, <2>4, QuietStep DEF Discard, KeepOthers, disk, tables
<1>10. CASE RecordEvent(o)
  <2>1. op[o].at = "event"
    BY <1>10 DEF RecordEvent, At
  <2>2. op[o] \in [at : {"event"}, kind : {"applied", "discarded"}, data : SUBSET Files]
    BY <1>1, <2>1 DEF Doing, Copying, Comparing, Replacing, Deciding, Telling, Idle
  <2>3. PICK w : w = IF Fits(op[o].kind, op[o].data)
           THEN [at |-> "patch", kind |-> op[o].kind] ELSE Idle
    OBVIOUS
  <2>4. w \in Telling /\ w.at \in {"idle", "patch"}
    BY <1>3, <2>2, <2>3 DEF Telling
  <2>5. op' = [op EXCEPT ![o] = w] /\ report' = report
        /\ UNCHANGED <<run, source, stage, cs, edited>>
    BY <1>10, <2>3 DEF RecordEvent, Do, KeepOthers, disk
  <2> QED
    BY <1>2, <2>4, <2>5, QuietStep
<1>11. CASE ReadReport(o)
  <2>1. op[o].at = "patch"
    BY <1>11 DEF ReadReport, At
  <2>2. op[o] \in [at : {"patch"}, kind : {"applied", "discarded"}]
    BY <1>1, <2>1 DEF Doing, Copying, Comparing, Replacing, Deciding, Telling, Idle
  <2>3. [report EXCEPT !.delivery = op[o].kind] \in StoredReports
    BY <1>2, <2>2 DEF StoredReports, ChangeStates
  <2>4. PICK w : w = IF report = NoReport THEN Idle
           ELSE [at |-> "patched", report |-> [report EXCEPT !.delivery = op[o].kind]]
    OBVIOUS
  <2>5. w \in Telling /\ w.at \in {"idle", "patched"}
    BY <1>3, <2>3, <2>4 DEF Telling
  <2>6. op' = [op EXCEPT ![o] = w] /\ report' = report
        /\ UNCHANGED <<run, source, stage, cs, edited>>
    BY <1>11, <2>4 DEF ReadReport, Do, KeepOthers, disk, tables
  <2> QED
    BY <1>2, <2>5, <2>6, QuietStep
<1>12. CASE PatchReport(o)
  <2>1. op[o].at = "patched"
    BY <1>12 DEF PatchReport, At
  <2>2. op[o] \in [at : {"patched"}, report : StoredReports]
    BY <1>1, <2>1 DEF Doing, Copying, Comparing, Replacing, Deciding, Telling, Idle
  <2>3. report' \in StoredReports
    BY <1>12, <2>2 DEF PatchReport
  <2> QED
    BY <1>3, <1>12, <2>3, QuietStep DEF PatchReport, End, Do, KeepOthers, disk
<1>13. CASE Crash(o)
  BY <1>2, <1>3, <1>13, QuietStep DEF Crash, End, Do, disk, tables
<1> QED
  BY <1>4, <1>5, <1>6, <1>7, <1>8, <1>9, <1>10, <1>11, <1>12, <1>13

\* While there is no ChangeSet nobody applies or discards one.
LEMMA OnlyCopies ==
  ASSUME ChangesInv, cs.state = "none", NEW p \in Workbenches, op[p] \notin Copying
  PROVE  /\ op[p].at \notin {"preflight", "files", "replace", "remove", "mark"}
         /\ op[p] \notin Comparing \cup Replacing
<1>1. WorkFits(p) /\ op[p] \in Doing
  BY DEF ChangesInv, ChangesTypeOK
<1>2. op[p].at \notin {"preflight", "files", "replace", "remove", "mark"}
  BY <1>1 DEF WorkFits
<1> QED
  BY <1>1, <1>2, Stops

\* The stage is made, filled and given its row, or removed.
LEMMA CreateFits ==
  ASSUME ChangesInv, NEW o \in Workbenches, Create(o)
  PROVE  ChangesInv'
<1>1. ChangesTypeOK /\ OneCopies /\ AppliedForCompleted
  BY DEF ChangesInv
<1>2. source \in Workspaces /\ op \in [Workbenches -> Doing]
  BY <1>1 DEF ChangesTypeOK
<1>3. PICK w : w = [at |-> "copy", todo |-> {f \in Files : source[f] # Absent},
                    baseline |-> [f \in Files |-> Absent]]
  OBVIOUS
<1>4. /\ cs.state = "none" /\ ~stage.exists
      /\ stage' = [NoStage EXCEPT !.exists = TRUE] /\ op' = [op EXCEPT ![o] = w]
      /\ run' = run /\ source' = source /\ cs' = cs /\ report' = report /\ edited' = edited
  BY <1>3 DEF Create, Do, KeepOthers, tables
<1>5. [f \in Files |-> Absent] \in Workspaces
  BY DEF Workspaces, Value
<1>6. w \in Copying /\ w \in Doing /\ w.at = "copy"
  BY <1>3, <1>5 DEF Copying, Doing
<1>7. /\ op' \in [Workbenches -> Doing] /\ op'[o] = w
      /\ \A p \in Workbenches : p # o => op'[p] = op[p]
  BY <1>2, <1>4, <1>6, StopMoves
<1>8. stage' = [exists |-> TRUE, file |-> [f \in Files |-> Absent]]
  BY <1>4 DEF NoStage
<1>9. ChangesTypeOK'
  <2>1. stage' \in [exists : BOOLEAN, file : Workspaces]
    BY <1>5, <1>8
  <2> QED
    BY <1>1, <1>4, <1>7, <2>1 DEF ChangesTypeOK
<1>10. \A p \in Workbenches : op[p] \notin Copying
  BY <1>4 DEF ChangesInv, WorkFits
<1>11. WorkFits(o)'
  <2>1. w \notin Comparing \cup Replacing
    BY <1>6, Stops
  <2>2. \A f \in Untouched' \ w.todo :
          source'[f] = w.baseline[f] /\ stage'.file[f] = w.baseline[f]
    BY <1>3, <1>4, <1>8 DEF Untouched
  <2> QED
    BY <1>4, <1>6, <1>7, <1>8, <2>1, <2>2 DEF WorkFits
<1>12. ASSUME NEW p \in Workbenches, p # o PROVE WorkFits(p)'
  <2>1. Around(p)
    BY <1>4, <1>7, <1>10, <1>12 DEF Around
  <2> QED
    BY <2>1, WorkGoesOn
<1>13. OneCopies'
  BY <1>7, <1>10 DEF OneCopies
<1>14. AppliedForCompleted' /\ DeliveredWhole'
  BY <1>4 DEF AppliedForCompleted, DeliveredWhole
<1> QED
  BY <1>9, <1>11, <1>12, <1>13, <1>14 DEF ChangesInv

LEMMA CopyFits ==
  ASSUME ChangesInv, NEW o \in Workbenches, NEW f \in Files, CopyFile(o, f)
  PROVE  ChangesInv'
<1>1. ChangesTypeOK /\ OneCopies /\ AppliedForCompleted /\ WorkFits(o)
  BY DEF ChangesInv
<1>2. /\ source \in Workspaces /\ op \in [Workbenches -> Doing] /\ op[o] \in Doing
      /\ stage \in [exists : BOOLEAN, file : Workspaces]
  BY <1>1 DEF ChangesTypeOK
<1>3. op[o] \in Copying
  BY <1>2, Stops DEF CopyFile, At
<1>4. PICK x : x = source[f]
  OBVIOUS
<1>5. x \in Value
  BY <1>2, <1>4 DEF Workspaces
<1>6. PICK w : w = [op[o] EXCEPT !.todo = @ \ {f}, !.baseline[f] = x]
  OBVIOUS
<1>7. /\ stage' = [stage EXCEPT !.file[f] = x] /\ op' = [op EXCEPT ![o] = w]
      /\ run' = run /\ source' = source /\ cs' = cs /\ report' = report /\ edited' = edited
  BY <1>3, <1>4, <1>6 DEF CopyFile, KeepOthers, tables, Copying
<1>8. /\ w \in Copying /\ w.todo = op[o].todo \ {f}
      /\ w.baseline = [op[o].baseline EXCEPT ![f] = x]
  BY <1>3, <1>5, <1>6 DEF Copying, Workspaces
<1>9. w \in Doing /\ w.at = "copy" /\ w \notin Comparing \cup Replacing
  <2>1. w \in Doing
    BY <1>8 DEF Doing
  <2> QED
    BY <1>8, <2>1, Stops
<1>10. /\ op' \in [Workbenches -> Doing] /\ op'[o] = w
       /\ \A p \in Workbenches : p # o => op'[p] = op[p]
  BY <1>2, <1>7, <1>9, StopMoves
<1>11. /\ stage' \in [exists : BOOLEAN, file : Workspaces] /\ stage'.exists = stage.exists
       /\ stage'.file = [stage.file EXCEPT ![f] = x]
  BY <1>2, <1>5, <1>7 DEF Workspaces
<1>12. ChangesTypeOK'
  BY <1>1, <1>7, <1>10, <1>11 DEF ChangesTypeOK
<1>13. cs.state = "none" /\ stage.exists /\
       \A h \in Untouched \ op[o].todo :
         source[h] = op[o].baseline[h] /\ stage.file[h] = op[o].baseline[h]
  BY <1>1, <1>3 DEF WorkFits
<1>14. WorkFits(o)'
  <2>1. stage.file \in [Files -> Value] /\ op[o].baseline \in [Files -> Value]
    BY <1>2, <1>3 DEF Copying, Workspaces
  <2>2. ASSUME NEW h \in Untouched' \ w.todo
        PROVE  source'[h] = w.baseline[h] /\ stage'.file[h] = w.baseline[h]
    <3>1. h \in Untouched /\ h \in Files
      BY <1>7 DEF Untouched
    <3>2. CASE h = f
      BY <1>4, <1>7, <1>8, <1>11, <2>1, <3>2
    <3>3. CASE h # f
      BY <1>7, <1>8, <1>11, <1>13, <2>1, <3>1, <3>3
    <3> QED
      BY <3>2, <3>3
  <2>3. \A h \in Untouched' \ w.todo :
          source'[h] = w.baseline[h] /\ stage'.file[h] = w.baseline[h]
    BY <2>2
  <2>4. cs'.state = "none" /\ stage'.exists
    BY <1>7, <1>11, <1>13
  <2> QED
    BY <1>9, <1>10, <2>3, <2>4 DEF WorkFits
<1>15. \A p \in Workbenches : p # o => op[p] \notin Copying
  BY <1>1, <1>3 DEF OneCopies
<1>16. ASSUME NEW p \in Workbenches, p # o PROVE WorkFits(p)'
  <2>1. Around(p)
    BY <1>7, <1>10, <1>13, <1>15, <1>16 DEF Around
  <2> QED
    BY <2>1, WorkGoesOn
<1>17. OneCopies'
  BY <1>10, <1>15 DEF OneCopies
<1>18. AppliedForCompleted' /\ DeliveredWhole'
  BY <1>7, <1>13 DEF AppliedForCompleted, DeliveredWhole
<1> QED
  BY <1>12, <1>14, <1>16, <1>17, <1>18 DEF ChangesInv

LEMMA CopyFailsFits ==
  ASSUME ChangesInv, NEW o \in Workbenches, NEW f \in Files, CopyFails(o, f)
  PROVE  ChangesInv'
<1>1. ChangesTypeOK /\ OneCopies /\ AppliedForCompleted /\ WorkFits(o)
  BY DEF ChangesInv
<1>2. op \in [Workbenches -> Doing] /\ op[o] \in Doing
  BY <1>1 DEF ChangesTypeOK
<1>3. op[o] \in Copying /\ cs.state = "none"
  BY <1>1, <1>2, Stops DEF CopyFails, At, WorkFits
<1>4. /\ stage' = NoStage /\ op' = [op EXCEPT ![o] = Idle]
      /\ run' = run /\ source' = source /\ cs' = cs /\ report' = report /\ edited' = edited
  BY DEF CopyFails, End, Do, KeepOthers, tables
<1>5. Idle \in Telling /\ Idle \in Doing
  BY DEF Telling, Doing
<1>6. Idle \notin Copying \cup Comparing \cup Replacing
      /\ Idle.at \notin {"preflight", "files", "replace", "remove", "mark"}
  BY <1>5, Stops
<1>7. /\ op' \in [Workbenches -> Doing] /\ op'[o] = Idle
      /\ \A p \in Workbenches : p # o => op'[p] = op[p]
  BY <1>2, <1>4, <1>5, StopMoves
<1>8. [f1 \in Files |-> Absent] \in Workspaces
  BY DEF Workspaces, Value
<1>9. ChangesTypeOK'
  BY <1>1, <1>4, <1>7, <1>8 DEF ChangesTypeOK, NoStage
<1>10. WorkFits(o)'
  BY <1>6, <1>7 DEF WorkFits
<1>11. \A p \in Workbenches : p # o => op[p] \notin Copying
  BY <1>1, <1>3 DEF OneCopies
<1>12. ASSUME NEW p \in Workbenches, p # o PROVE WorkFits(p)'
  <2>1. Around(p)
    BY <1>3, <1>4, <1>7, <1>11, <1>12 DEF Around
  <2> QED
    BY <2>1, WorkGoesOn
<1>13. OneCopies'
  BY <1>6, <1>7, <1>11 DEF OneCopies
<1>14. AppliedForCompleted' /\ DeliveredWhole'
  BY <1>3, <1>4 DEF AppliedForCompleted, DeliveredWhole
<1> QED
  BY <1>9, <1>10, <1>12, <1>13, <1>14 DEF ChangesInv

LEMMA InsertFits ==
  ASSUME ChangesInv, NEW o \in Workbenches, InsertRow(o)
  PROVE  ChangesInv'
<1>1. ChangesTypeOK /\ OneCopies /\ WorkFits(o)
  BY DEF ChangesInv
<1>2. /\ op \in [Workbenches -> Doing] /\ op[o] \in Doing
      /\ cs \in [state : ChangeStates, baseline : Workspaces]
  BY <1>1 DEF ChangesTypeOK
<1>3. op[o] \in Copying
  BY <1>2, Stops DEF InsertRow, At
<1>4. /\ cs.state = "none" /\ stage.exists /\ op[o].todo = {}
      /\ \A f \in Untouched \ op[o].todo :
           source[f] = op[o].baseline[f] /\ stage.file[f] = op[o].baseline[f]
  BY <1>1, <1>3 DEF WorkFits, InsertRow
<1>5. /\ cs' = [state |-> "open", baseline |-> op[o].baseline]
      /\ op' = [op EXCEPT ![o] = Idle] /\ stage' = stage
      /\ run' = run /\ source' = source /\ report' = report /\ edited' = edited
  BY <1>4 DEF InsertRow, End, Do, KeepOthers, disk
<1>6. Idle \in Telling /\ Idle \in Doing
  BY DEF Telling, Doing
<1>7. Idle \notin Copying \cup Comparing \cup Replacing
      /\ Idle.at \notin {"preflight", "files", "replace", "remove", "mark"}
  BY <1>6, Stops
<1>8. /\ op' \in [Workbenches -> Doing] /\ op'[o] = Idle
      /\ \A p \in Workbenches : p # o => op'[p] = op[p]
  BY <1>2, <1>5, <1>6, StopMoves
<1>9. cs' \in [state : ChangeStates, baseline : Workspaces]
  BY <1>3, <1>5 DEF Copying, ChangeStates
<1>10. ChangesTypeOK'
  BY <1>1, <1>5, <1>8, <1>9 DEF ChangesTypeOK
<1>11. WorkFits(o)'
  BY <1>7, <1>8 DEF WorkFits
<1>12. \A p \in Workbenches : p # o => op[p] \notin Copying
  BY <1>1, <1>3 DEF OneCopies
<1>13. ASSUME NEW p \in Workbenches, p # o PROVE WorkFits(p)'
  <2>1. Around(p)
    BY <1>4, <1>5, <1>8, <1>12, <1>13 DEF Around
  <2> QED
    BY <2>1, WorkGoesOn
<1>14. OneCopies'
  BY <1>7, <1>8, <1>12 DEF OneCopies
<1>15. cs'.state = "open" /\ cs'.baseline = op[o].baseline
  BY <1>5
<1>16. AppliedForCompleted'
  BY <1>15 DEF AppliedForCompleted
<1>17. DeliveredWhole'
  BY <1>4, <1>5, <1>15 DEF DeliveredWhole, Untouched
<1> QED
  BY <1>10, <1>11, <1>13, <1>14, <1>16, <1>17 DEF ChangesInv

\* The row becomes ready; a decided one stays as it is.
LEMMA PrepareFits ==
  ASSUME ChangesInv, NEW o \in Workbenches, Prepare(o)
  PROVE  ChangesInv'
<1>1. ChangesTypeOK /\ OneCopies /\ AppliedForCompleted /\ DeliveredWhole
  BY DEF ChangesInv
<1>2. /\ op \in [Workbenches -> Doing] /\ op[o] \in Doing
      /\ cs \in [state : ChangeStates, baseline : Workspaces]
  BY <1>1 DEF ChangesTypeOK
<1>3. op[o] \in [at : {"prepare", "reported"}, status : RunStates]
  BY <1>2 DEF Prepare, At, Doing, Copying, Comparing, Replacing, Deciding, Telling, Idle
<1>4. PICK w : w = [at |-> "compose", status |-> op[o].status, opened |-> cs.state = "open"]
  OBVIOUS
<1>5. w \in Telling /\ w \in Doing
  BY <1>3, <1>4 DEF Telling, Doing
<1>6. w \notin Copying \cup Comparing \cup Replacing
      /\ w.at \notin {"preflight", "files", "replace", "remove", "mark"}
  BY <1>5, Stops
<1>7. /\ cs' = [cs EXCEPT !.state = IF @ = "open" THEN "ready" ELSE @]
      /\ op' = [op EXCEPT ![o] = w] /\ stage' = stage
      /\ run' = run /\ source' = source /\ report' = report /\ edited' = edited
  BY <1>4 DEF Prepare, Do, KeepOthers, disk
<1>8. /\ cs' \in [state : ChangeStates, baseline : Workspaces]
      /\ cs'.baseline = cs.baseline
      /\ cs.state # "open" => cs' = cs
      /\ cs.state = "open" => cs'.state = "ready"
  BY <1>2, <1>7 DEF ChangeStates
<1>9. /\ op' \in [Workbenches -> Doing] /\ op'[o] = w
      /\ \A p \in Workbenches : p # o => op'[p] = op[p]
  BY <1>2, <1>5, <1>7, StopMoves
<1>10. ChangesTypeOK'
  BY <1>1, <1>7, <1>8, <1>9 DEF ChangesTypeOK
<1>11. WorkFits(o)'
  BY <1>6, <1>9 DEF WorkFits
<1>12. ASSUME NEW p \in Workbenches, p # o PROVE WorkFits(p)'
  <2>1. op[p] \in Copying => cs.state = "none"
    BY DEF ChangesInv, WorkFits
  <2>2. Around(p)
    BY <1>7, <1>8, <1>9, <1>12, <2>1 DEF Around
  <2> QED
    BY <2>2, WorkGoesOn
<1>13. OneCopies'
  BY <1>1, <1>6, <1>9 DEF OneCopies
<1>14. AppliedForCompleted' /\ DeliveredWhole'
  BY <1>1, <1>7, <1>8 DEF AppliedForCompleted, DeliveredWhole, Untouched
<1> QED
  BY <1>10, <1>11, <1>12, <1>13, <1>14 DEF ChangesInv

\* The application looks at the files one by one.
LEMMA PreflightFits ==
  ASSUME ChangesInv, NEW o \in Workbenches, Preflight(o)
  PROVE  ChangesInv'
<1>1. ChangesTypeOK /\ OneCopies /\ AppliedForCompleted /\ DeliveredWhole /\ WorkFits(o)
  BY DEF ChangesInv
<1>2. /\ op \in [Workbenches -> Doing] /\ op[o] \in Doing /\ report \in StoredReports
      /\ stage \in [exists : BOOLEAN, file : Workspaces]
  BY <1>1 DEF ChangesTypeOK
<1>3. UNCHANGED <<run, source, stage, cs, report, edited>>
  BY DEF Preflight, KeepOthers, disk, tables
<1>4. run = "completed" /\ cs.state # "none"
  BY <1>1 DEF Preflight, At, WorkFits
<1>5. CASE ~NoDrift
  <2>1. op' = [op EXCEPT ![o] = Idle] /\ Idle \in Telling /\ Idle.at = "idle"
    BY <1>5 DEF Preflight, Do, Telling, Idle
  <2> QED
    BY <1>2, <1>3, <2>1, QuietStep
<1>6. CASE NoDrift
  <2>1. PICK w : w = [at |-> "files", todo |-> Changed, paths |-> Changed, desired |-> stage.file]
    OBVIOUS
  <2>2. w \in Comparing /\ w \in Doing /\ w.at = "files"
    BY <1>2, <2>1 DEF Comparing, Doing, Changed
  <2>3. w \notin Copying
    BY <2>2, Stops
  <2>4. op' = [op EXCEPT ![o] = w]
    BY <1>6, <2>1 DEF Preflight, Do, Manifest
  <2>5. /\ op' \in [Workbenches -> Doing] /\ op'[o] = w
        /\ \A p \in Workbenches : p # o => op'[p] = op[p]
    BY <1>2, <2>2, <2>4, StopMoves
  <2>6. Changed' = Changed
    BY <1>3 DEF Changed, Manifest
  <2>7. /\ w.desired = stage'.file /\ w.paths = Changed'
        /\ \A f \in Untouched' \cap (Changed' \ w.todo) : source'[f] = stage'.file[f]
    BY <1>3, <2>1, <2>6
  <2>8. WorkFits(o)'
    BY <1>3, <1>4, <2>2, <2>3, <2>5, <2>7 DEF WorkFits
  <2>9. ASSUME NEW p \in Workbenches, p # o PROVE WorkFits(p)'
    <3>1. Around(p)
      BY <1>3, <2>5, <2>9 DEF Around
    <3> QED
      BY <3>1, WorkGoesOn
  <2>10. ChangesTypeOK' /\ OneCopies'
    BY <1>1, <1>3, <2>3, <2>5 DEF ChangesTypeOK, OneCopies
  <2>11. AppliedForCompleted' /\ DeliveredWhole'
    BY <1>1, <1>3 DEF AppliedForCompleted, DeliveredWhole, Untouched
  <2> QED
    BY <2>8, <2>9, <2>10, <2>11 DEF ChangesInv
<1> QED
  BY <1>5, <1>6

\* The files an application is at, after a step that leaves the stage.
LEMMA FilesGoOn ==
  ASSUME ChangesInv, NEW o \in Workbenches, op[o] \in Comparing \cup Replacing,
         NEW w \in Comparing \cup Replacing, op' = [op EXCEPT ![o] = w],
         w.desired = op[o].desired, w.paths = op[o].paths,
         UNCHANGED <<run, stage, cs, report, edited>>, source' \in Workspaces,
         stage.exists => \A f \in Files : source'[f] \in {source[f], stage.file[f]},
         stage.exists => \A f \in Untouched \cap (op[o].todo \ w.todo) : source'[f] = stage.file[f]
  PROVE  ChangesInv'
<1>1. ChangesTypeOK /\ OneCopies /\ AppliedForCompleted /\ DeliveredWhole /\ WorkFits(o)
  BY DEF ChangesInv
<1>2. op \in [Workbenches -> Doing] /\ op[o] \in Doing
  BY <1>1 DEF ChangesTypeOK
<1>3. w \in Doing /\ w.at \in {"files", "replace"} /\ w \notin Copying
  <2>1. w \in Doing
    BY DEF Doing
  <2> QED
    BY <2>1, Stops
<1>4. /\ op' \in [Workbenches -> Doing] /\ op'[o] = w
      /\ \A p \in Workbenches : p # o => op'[p] = op[p]
  BY <1>2, <1>3, StopMoves
<1>5. run = "completed" /\ cs.state # "none"
  <2>1. op[o].at \in {"files", "replace"}
    BY <1>2, Stops
  <2> QED
    BY <1>1, <2>1 DEF WorkFits
<1>6. Changed' = Changed /\ Untouched' = Untouched /\ Untouched \subseteq Files
  BY DEF Changed, Manifest, Untouched
<1>7. ASSUME stage.exists
      PROVE  /\ w.desired = stage'.file /\ w.paths = Changed'
             /\ \A f \in Untouched' \cap (Changed' \ w.todo) : source'[f] = stage'.file[f]
  <2>1. /\ op[o].desired = stage.file /\ op[o].paths = Changed
        /\ \A f \in Untouched \cap (Changed \ op[o].todo) : source[f] = stage.file[f]
    BY <1>1, <1>7 DEF WorkFits
  <2> QED
    BY <1>6, <1>7, <2>1
<1>8. WorkFits(o)'
  BY <1>3, <1>4, <1>5, <1>7 DEF WorkFits
<1>9. ASSUME NEW p \in Workbenches, p # o PROVE WorkFits(p)'
  <2>1. op[p] \notin Copying
    BY <1>5 DEF ChangesInv, WorkFits
  <2>2. Around(p)
    BY <1>4, <1>5, <1>9, <2>1 DEF Around
  <2> QED
    BY <2>2, WorkGoesOn
<1>10. ChangesTypeOK' /\ OneCopies'
  BY <1>1, <1>3, <1>4 DEF ChangesTypeOK, OneCopies
<1>11. AppliedForCompleted' /\ DeliveredWhole'
  BY <1>1, <1>5, <1>6 DEF AppliedForCompleted, DeliveredWhole
<1> QED
  BY <1>8, <1>9, <1>10, <1>11 DEF ChangesInv

LEMMA CompareFits ==
  ASSUME ChangesInv, NEW o \in Workbenches, NEW f \in Files, Compare(o, f)
  PROVE  ChangesInv'
<1>1. ChangesTypeOK /\ WorkFits(o)
  BY DEF ChangesInv
<1>2. /\ op \in [Workbenches -> Doing] /\ op[o] \in Doing /\ report \in StoredReports
      /\ source \in Workspaces
  BY <1>1 DEF ChangesTypeOK
<1>3. op[o] \in Comparing
  BY <1>2, Stops DEF Compare, At
<1>4. UNCHANGED <<run, source, stage, cs, report, edited>>
  BY DEF Compare, KeepOthers, disk, tables
<1>5. stage.exists => op[o].desired = stage.file
  BY <1>1, <1>3 DEF WorkFits
<1>6. CASE source[f] = op[o].desired[f] /\ op' = [op EXCEPT ![o].todo = @ \ {f}]
  <2>1. PICK w : w = [op[o] EXCEPT !.todo = @ \ {f}]
    OBVIOUS
  <2>2. /\ w \in Comparing /\ w.desired = op[o].desired /\ w.paths = op[o].paths
        /\ w.todo = op[o].todo \ {f}
    BY <1>3, <2>1 DEF Comparing
  <2>3. op' = [op EXCEPT ![o] = w]
    BY <1>6, <2>1
  <2>4. stage.exists => source'[f] = stage.file[f]
    BY <1>4, <1>5, <1>6
  <2>5. stage.exists => \A h \in Untouched \cap (op[o].todo \ w.todo) : source'[h] = stage.file[h]
    BY <2>2, <2>4
  <2>6. \A h \in Files : source'[h] = source[h]
    BY <1>4
  <2>7. source' \in Workspaces
    BY <1>2, <1>4
  <2> QED
    BY <1>3, <1>4, <2>2, <2>3, <2>5, <2>6, <2>7, FilesGoOn
<1>7. CASE End(o)
  <2>1. op' = [op EXCEPT ![o] = Idle] /\ Idle \in Telling /\ Idle.at = "idle"
    BY <1>7 DEF End, Do, Telling, Idle
  <2> QED
    BY <1>2, <1>4, <2>1, QuietStep
<1>8. CASE op' = [op EXCEPT ![o] = [at |-> "replace", next |-> f,
                    todo |-> @.todo, paths |-> @.paths, desired |-> @.desired]]
  <2>1. PICK w : w = [at |-> "replace", next |-> f, todo |-> op[o].todo,
                      paths |-> op[o].paths, desired |-> op[o].desired]
    OBVIOUS
  <2>2. /\ w \in Replacing /\ w.desired = op[o].desired /\ w.paths = op[o].paths
        /\ w.todo = op[o].todo
    BY <1>3, <2>1 DEF Comparing, Replacing
  <2>3. op' = [op EXCEPT ![o] = w]
    BY <1>8, <2>1
  <2>4. \A h \in Untouched \cap (op[o].todo \ w.todo) : source'[h] = stage.file[h]
    BY <2>2
  <2>5. \A h \in Files : source'[h] = source[h]
    BY <1>4
  <2>6. source' \in Workspaces
    BY <1>2, <1>4
  <2> QED
    BY <1>3, <1>4, <2>2, <2>3, <2>4, <2>5, <2>6, FilesGoOn
<1> QED
  BY <1>6, <1>7, <1>8 DEF Compare

LEMMA ReplaceFits ==
  ASSUME ChangesInv, NEW o \in Workbenches, Replace(o)
  PROVE  ChangesInv'
<1>1. ChangesTypeOK /\ WorkFits(o)
  BY DEF ChangesInv
<1>2. /\ op \in [Workbenches -> Doing] /\ op[o] \in Doing /\ report \in StoredReports
      /\ source \in Workspaces
  BY <1>1 DEF ChangesTypeOK
<1>3. op[o] \in Replacing
  BY <1>2, Stops DEF Replace, At
<1>4. UNCHANGED <<run, stage, cs, report, edited>>
  BY DEF Replace, KeepOthers, tables
<1>5. PICK f, d : f = op[o].next /\ d = op[o].desired
  OBVIOUS
<1>6. f \in Files /\ d \in Workspaces /\ d[f] \in Value
  BY <1>3, <1>5 DEF Replacing, Workspaces
<1>7. stage.exists => d = stage.file
  BY <1>1, <1>3, <1>5 DEF WorkFits
<1>8. CASE op[o].desired[op[o].next] \in {Absent, Manifest[op[o].next]}
  <2>1. PICK w : w = [at |-> "files", todo |-> op[o].todo \ {f},
                      paths |-> op[o].paths, desired |-> op[o].desired]
    OBVIOUS
  <2>2. /\ w \in Comparing /\ w.desired = op[o].desired /\ w.paths = op[o].paths
        /\ w.todo = op[o].todo \ {f}
    BY <1>3, <2>1 DEF Comparing, Replacing
  <2>3. op' = [op EXCEPT ![o] = w] /\ source' = [source EXCEPT ![f] = d[f]]
    BY <1>5, <1>8, <2>1 DEF Replace, Do
  <2>4. source' \in Workspaces
    BY <1>2, <1>6, <2>3 DEF Workspaces
  <2>5. source'[f] = d[f] /\ \A h \in Files : h # f => source'[h] = source[h]
    BY <1>2, <1>6, <2>3 DEF Workspaces
  <2>6. stage.exists => \A h \in Files : source'[h] \in {source[h], stage.file[h]}
    BY <1>7, <2>5
  <2>7. stage.exists => \A h \in Untouched \cap (op[o].todo \ w.todo) : source'[h] = stage.file[h]
    BY <1>7, <2>2, <2>5
  <2> QED
    BY <1>3, <1>4, <2>2, <2>3, <2>4, <2>6, <2>7, FilesGoOn
<1>9. CASE op[o].desired[op[o].next] \notin {Absent, Manifest[op[o].next]}
  <2>1. op' = [op EXCEPT ![o] = Idle] /\ Idle \in Telling /\ Idle.at = "idle"
        /\ source' = source
    BY <1>9 DEF Replace, End, Do, Telling, Idle
  <2> QED
    BY <1>2, <1>4, <2>1, QuietStep
<1> QED
  BY <1>8, <1>9

\* A decision is recorded: all files hold what was staged, or the stage is
\* gone.
LEMMA DecideFits ==
  ASSUME ChangesInv, NEW o \in Workbenches, MarkApplied(o) \/ MarkDiscarded(o)
  PROVE  ChangesInv'
<1>1. ChangesTypeOK /\ OneCopies /\ AppliedForCompleted /\ DeliveredWhole /\ WorkFits(o)
  BY DEF ChangesInv
<1>2. /\ op \in [Workbenches -> Doing] /\ op[o] \in Doing
      /\ cs \in [state : ChangeStates, baseline : Workspaces]
  BY <1>1 DEF ChangesTypeOK
<1>30. PICK s : s = IF MarkApplied(o) THEN "applied" ELSE "discarded"
  OBVIOUS
<1>31. PICK data : data = IF MarkApplied(o) THEN op[o].paths ELSE {}
  OBVIOUS
<1>3. /\ op' = [op EXCEPT ![o] = [at |-> "event", kind |-> s, data |-> data]]
      /\ s \in {"applied", "discarded"} /\ data \subseteq Files /\ Decide(s)
      /\ s = "applied" => MarkApplied(o)
      /\ s = "discarded" => MarkDiscarded(o)
  <2>1. CASE MarkApplied(o)
    <3>1. op[o] \in Comparing
      BY <1>2, <2>1, Stops DEF MarkApplied, At
    <3>2. op[o].paths \subseteq Files
      BY <3>1 DEF Comparing
    <3> QED
      BY <1>30, <1>31, <2>1, <3>2 DEF MarkApplied, Do
  <2>2. CASE ~MarkApplied(o)
    BY <1>30, <1>31, <2>2 DEF MarkDiscarded, Do
  <2> QED
    BY <2>1, <2>2
<1>4. PICK w : w = [at |-> "event", kind |-> s, data |-> data]
  OBVIOUS
<1>5. w \in Telling /\ w \in Doing
  BY <1>3, <1>4 DEF Telling, Doing
<1>6. w \notin Copying \cup Comparing \cup Replacing
      /\ w.at \notin {"preflight", "files", "replace", "remove", "mark"}
  BY <1>5, Stops
<1>7. UNCHANGED <<run, source, stage, report, edited>>
  BY DEF MarkApplied, MarkDiscarded, KeepOthers, disk
<1>8. cs.state # "none" /\ (s = "applied" => run = "completed")
  <2>1. op[o].at \in {"files", "mark"} /\ (s = "applied" => op[o].at = "files")
    BY <1>3 DEF MarkApplied, MarkDiscarded, At
  <2> QED
    BY <1>1, <2>1 DEF WorkFits
<1>9. /\ cs' \in [state : ChangeStates, baseline : Workspaces]
      /\ cs'.baseline = cs.baseline
      /\ cs.state \in {"applied", "discarded"} => cs' = cs
      /\ cs.state \notin {"applied", "discarded"} => cs'.state = s
  BY <1>2, <1>3 DEF Decide, ChangeStates
<1>10. /\ op' \in [Workbenches -> Doing] /\ op'[o] = w
       /\ \A p \in Workbenches : p # o => op'[p] = op[p]
  BY <1>2, <1>3, <1>4, <1>5, StopMoves
<1>11. ChangesTypeOK'
  BY <1>1, <1>7, <1>9, <1>10 DEF ChangesTypeOK
<1>12. WorkFits(o)'
  BY <1>6, <1>10 DEF WorkFits
<1>13. cs'.state # "none"
  BY <1>3, <1>8, <1>9
<1>14. ASSUME NEW p \in Workbenches, p # o PROVE WorkFits(p)'
  <2>1. op[p] \notin Copying
    BY <1>8 DEF ChangesInv, WorkFits
  <2>2. Around(p)
    BY <1>7, <1>9, <1>10, <1>13, <1>14, <2>1 DEF Around
  <2> QED
    BY <2>2, WorkGoesOn
<1>15. OneCopies'
  BY <1>1, <1>6, <1>10 DEF OneCopies
<1>16. AppliedForCompleted'
  BY <1>1, <1>3, <1>7, <1>8, <1>9 DEF AppliedForCompleted
<1>17. DeliveredWhole'
  <2> SUFFICES ASSUME stage.exists, NEW f \in Untouched
               PROVE  /\ source[f] \in {cs.baseline[f], stage.file[f]}
                      /\ run # "completed" => source[f] = cs.baseline[f]
                      /\ cs'.state = "applied" => source[f] = stage.file[f]
    BY <1>7, <1>9 DEF DeliveredWhole, Untouched
  <2>1. /\ source[f] \in {cs.baseline[f], stage.file[f]}
        /\ run # "completed" => source[f] = cs.baseline[f]
        /\ cs.state = "applied" => source[f] = stage.file[f]
    BY <1>1, <1>8 DEF DeliveredWhole
  <2>2. ASSUME s = "applied" PROVE source[f] = stage.file[f]
    <3>1. MarkApplied(o) /\ op[o] \in Comparing /\ op[o].todo = {}
      BY <1>2, <1>3, <2>2, Stops DEF MarkApplied, At, AllDone
    <3>2. f \in Changed => source[f] = stage.file[f]
      BY <1>1, <3>1 DEF WorkFits
    <3>3. f \notin Changed => cs.baseline[f] = stage.file[f]
      BY DEF Changed, Manifest, Untouched
    <3> QED
      BY <2>1, <3>2, <3>3
  <2> QED
    BY <1>9, <2>1, <2>2
<1> QED
  BY <1>11, <1>12, <1>14, <1>15, <1>16, <1>17 DEF ChangesInv

LEMMA RemoveFits ==
  ASSUME ChangesInv, NEW o \in Workbenches, RemoveStage(o)
  PROVE  ChangesInv'
<1>1. ChangesTypeOK /\ OneCopies /\ AppliedForCompleted /\ WorkFits(o)
  BY DEF ChangesInv
<1>2. op \in [Workbenches -> Doing] /\ op[o] \in Doing
  BY <1>1 DEF ChangesTypeOK
<1>3. op[o] \in Deciding /\ cs.state # "none"
  BY <1>1, <1>2, Stops DEF RemoveStage, At, WorkFits
<1>4. PICK w : w = [op[o] EXCEPT !.at = "mark"]
  OBVIOUS
<1>5. w \in Deciding /\ w \in Doing /\ w.at = "mark"
  BY <1>3, <1>4 DEF Deciding, Doing
<1>6. w \notin Copying \cup Comparing \cup Replacing
  BY <1>5, Stops
<1>7. /\ stage' = NoStage /\ op' = [op EXCEPT ![o] = w]
      /\ run' = run /\ source' = source /\ cs' = cs /\ report' = report /\ edited' = edited
  BY <1>4 DEF RemoveStage, Goto, KeepOthers, tables
<1>8. /\ op' \in [Workbenches -> Doing] /\ op'[o] = w
      /\ \A p \in Workbenches : p # o => op'[p] = op[p]
  BY <1>2, <1>5, <1>7, StopMoves
<1>9. [f1 \in Files |-> Absent] \in Workspaces
  BY DEF Workspaces, Value
<1>10. stage' \in [exists : BOOLEAN, file : Workspaces] /\ ~stage'.exists
  BY <1>7, <1>9 DEF NoStage
<1>11. ChangesTypeOK'
  BY <1>1, <1>7, <1>8, <1>10 DEF ChangesTypeOK
<1>12. WorkFits(o)'
  BY <1>3, <1>5, <1>6, <1>7, <1>8 DEF WorkFits
<1>13. ASSUME NEW p \in Workbenches, p # o PROVE WorkFits(p)'
  <2>1. op[p] \notin Copying
    BY <1>3 DEF ChangesInv, WorkFits
  <2>2. Around(p)
    BY <1>7, <1>8, <1>10, <1>13, <2>1 DEF Around
  <2> QED
    BY <2>2, WorkGoesOn
<1>14. OneCopies'
  BY <1>1, <1>6, <1>8 DEF OneCopies
<1>15. AppliedForCompleted' /\ DeliveredWhole'
  BY <1>1, <1>7, <1>10 DEF AppliedForCompleted, DeliveredWhole
<1> QED
  BY <1>11, <1>12, <1>13, <1>14, <1>15 DEF ChangesInv

\* The run writes and ends, the user edits.
LEMMA OutsideFits ==
  ASSUME ChangesInv,
         \/ EndRun
         \/ \E f \in Files, v \in Value : WriteStage(f, v) \/ EditSource(f, v)
  PROVE  ChangesInv'
<1>1. ChangesTypeOK /\ OneCopies /\ AppliedForCompleted /\ DeliveredWhole
  BY DEF ChangesInv
<1>2. /\ run \in RunStates /\ source \in Workspaces
      /\ stage \in [exists : BOOLEAN, file : Workspaces] /\ edited \subseteq Files
  BY <1>1 DEF ChangesTypeOK
<1>3. CASE EndRun
  <2>1. /\ run = "active" /\ cs.state # "none" /\ run' \in {"completed", "failed"}
        /\ UNCHANGED <<source, stage, cs, report, op, edited>>
    BY <1>3 DEF EndRun, disk, tables
  <2>2. ChangesTypeOK' /\ OneCopies' /\ AppliedForCompleted'
    BY <1>1, <2>1 DEF ChangesTypeOK, RunStates, OneCopies, AppliedForCompleted
  <2>3. ASSUME NEW p \in Workbenches PROVE WorkFits(p)'
    <3>1. Around(p)
      BY <2>1 DEF Around
    <3> QED
      BY <3>1, WorkGoesOn
  <2>4. DeliveredWhole'
    BY <1>1, <2>1 DEF DeliveredWhole, Untouched, AppliedForCompleted
  <2> QED
    BY <2>2, <2>3, <2>4 DEF ChangesInv
<1>4. ASSUME NEW f \in Files, NEW v \in Value, WriteStage(f, v) PROVE ChangesInv'
  <2>1. /\ run = "active" /\ cs.state # "none" /\ stage' = [stage EXCEPT !.file[f] = v]
        /\ UNCHANGED <<run, source, cs, report, op, edited>>
    BY <1>4 DEF WriteStage, tables
  <2>2. stage' \in [exists : BOOLEAN, file : Workspaces] /\ stage'.exists = stage.exists
    BY <1>2, <2>1 DEF Workspaces
  <2>3. ChangesTypeOK' /\ OneCopies' /\ AppliedForCompleted'
    BY <1>1, <2>1, <2>2 DEF ChangesTypeOK, OneCopies, AppliedForCompleted
  <2>4. ASSUME NEW p \in Workbenches PROVE WorkFits(p)'
    <3>1. op[p] \notin Copying
      BY <2>1 DEF ChangesInv, WorkFits
    <3>2. Around(p)
      BY <2>1, <3>1 DEF Around
    <3> QED
      BY <3>2, WorkGoesOn
  <2>5. DeliveredWhole'
    BY <1>1, <2>1, <2>2 DEF DeliveredWhole, Untouched, AppliedForCompleted
  <2> QED
    BY <2>3, <2>4, <2>5 DEF ChangesInv
<1>5. ASSUME NEW f \in Files, NEW v \in Value, EditSource(f, v) PROVE ChangesInv'
  <2>1. /\ source' = [source EXCEPT ![f] = v] /\ edited' = edited \cup {f}
        /\ UNCHANGED <<run, stage, cs, report, op>>
    BY <1>5 DEF EditSource, tables
  <2>2. /\ source' \in Workspaces /\ edited' \subseteq Files
        /\ \A h \in Files \ edited' : source'[h] = source[h]
    BY <1>2, <2>1 DEF Workspaces
  <2>3. ChangesTypeOK' /\ OneCopies' /\ AppliedForCompleted'
    BY <1>1, <2>1, <2>2 DEF ChangesTypeOK, OneCopies, AppliedForCompleted
  <2>4. ASSUME NEW p \in Workbenches PROVE WorkFits(p)'
    <3>1. Around(p)
      BY <2>1, <2>2 DEF Around
    <3> QED
      BY <3>1, WorkGoesOn
  <2>5. DeliveredWhole'
    <3>1. Untouched' \subseteq Untouched /\ Untouched' = Files \ edited'
      BY <2>1 DEF Untouched
    <3> QED
      BY <1>1, <2>1, <2>2, <3>1 DEF DeliveredWhole
  <2> QED
    BY <2>3, <2>4, <2>5 DEF ChangesInv
<1> QED
  BY <1>3, <1>4, <1>5

\* Every step keeps the invariant.
LEMMA ChangesStep == ChangesInv /\ [ChangesNext]_changesVars => ChangesInv'
<1> SUFFICES ASSUME ChangesInv, [ChangesNext]_changesVars PROVE ChangesInv'
  OBVIOUS
<1>1. CASE UNCHANGED changesVars
  <2>1. UNCHANGED <<run, source, stage, cs, report, op, edited>>
    BY <1>1 DEF changesVars, disk, tables
  <2>2. ASSUME NEW p \in Workbenches PROVE WorkFits(p)'
    <3>1. Around(p)
      BY <2>1 DEF Around
    <3> QED
      BY <3>1, WorkGoesOn
  <2> QED
    BY <2>1, <2>2 DEF ChangesInv, ChangesTypeOK, OneCopies, AppliedForCompleted,
      DeliveredWhole, Untouched
<1>2. ASSUME NEW o \in Workbenches, Operate(o) \/ Crash(o) PROVE ChangesInv'
  BY <1>2, CreateFits, InsertFits, CopyFits, CopyFailsFits, CompareFits, TellingFits,
    PrepareFits, PreflightFits, ReplaceFits, DecideFits, RemoveFits DEF Operate
<1> QED
  BY <1>1, <1>2, OutsideFits DEF ChangesNext

\* A file the user has left alone is what it was or what the run staged, and
\* after the application what was staged, whoever cut the application off and
\* repeated it (workbench.py apply_change_set).
THEOREM ChangesAreDelivered == ChangesSpec => []DeliveredWhole
<1>1. ChangesInv => DeliveredWhole
  BY DEF ChangesInv
<1> QED
  BY <1>1, ChangesStart, ChangesStep, PTL DEF ChangesSpec

\* Only a decision, an insertion and a report move the row.
LEMMA DecisionStep ==
  ChangesInv /\ [ChangesNext]_changesVars =>
    [cs.state \in {"applied", "discarded"} => cs'.state = cs.state]_changesVars
<1> SUFFICES ASSUME ChangesInv, ChangesNext, cs.state \in {"applied", "discarded"}
             PROVE  cs'.state = cs.state
  OBVIOUS
<1>1. cs \in [state : ChangeStates, baseline : Workspaces]
  BY DEF ChangesInv, ChangesTypeOK
<1>2. ASSUME NEW o \in Workbenches, Operate(o) PROVE cs'.state = cs.state
  <2>1. CASE InsertRow(o)
    BY <2>1 DEF InsertRow
  <2>2. CASE Prepare(o)
    BY <1>1, <2>2 DEF Prepare
  <2>3. CASE MarkApplied(o)
    BY <1>1, <2>3 DEF MarkApplied, Decide
  <2>4. CASE MarkDiscarded(o)
    BY <1>1, <2>4 DEF MarkDiscarded, Decide
  <2>5. CASE cs' = cs
    BY <2>5
  <2>6. CASE \/ Create(o) \/ \E f \in Files : CopyFile(o, f) \/ CopyFails(o, f) \/ Compare(o, f)
             \/ Report(o) \/ Compose(o) \/ WriteReport(o) \/ Reported(o)
    BY <2>5, <2>6 DEF Create, CopyFile, CopyFails, Compare, Report, Compose, WriteReport,
      Reported, tables
  <2>7. CASE \/ Apply(o) \/ Preflight(o) \/ Replace(o) \/ Discard(o) \/ RemoveStage(o)
             \/ RecordEvent(o) \/ ReadReport(o) \/ PatchReport(o)
    BY <2>5, <2>7 DEF Apply, Preflight, Replace, Discard, RemoveStage, RecordEvent,
      ReadReport, PatchReport, tables
  <2> QED
    BY <1>2, <2>1, <2>2, <2>3, <2>4, <2>6, <2>7 DEF Operate
<1>3. ASSUME NEW o \in Workbenches, Crash(o) PROVE cs' = cs
  BY <1>3 DEF Crash, tables
<1>4. ASSUME \/ EndRun
             \/ \E f \in Files, v \in Value : WriteStage(f, v) \/ EditSource(f, v)
      PROVE  cs' = cs
  BY <1>4 DEF EndRun, WriteStage, EditSource, tables
<1> QED
  BY <1>2, <1>3, <1>4 DEF ChangesNext

\* An applied ChangeSet is never discarded, a discarded one never applied
\* (workbench.py _transition).
THEOREM ChangesAreFinal == ChangesSpec => DecisionFinal
<1>1. ChangesSpec => []ChangesInv
  BY ChangesStart, ChangesStep, PTL DEF ChangesSpec
<1> QED
  BY <1>1, DecisionStep, PTL DEF ChangesSpec, DecisionFinal
=============================================================================
