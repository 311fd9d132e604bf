----------------------------- MODULE FilesProofs -----------------------------
(***************************************************************************)
(* Machine-checked proofs about what LIPAS keeps in files.                 *)
(*                                                                         *)
(* ExtensionRegistry: for any handles, host policies and records, no       *)
(* operation on the shared file is lost, versions go up, and a handle      *)
(* hands out only what its host trusts.                                    *)
(*                                                                         *)
(* WorkspaceStorage: for any number of processes, stops and exceptions,    *)
(* HomeInv, which names for every stage of a restore, an undo and a        *)
(* recovery where each part of the old tree t is and what is in its place. *)
(*                                                                         *)
(* Attachments: for any hosts, faults and uploads, UploadsInv, what a call *)
(* in the middle of a save or a read may rely on.                          *)
(*                                                                         *)
(* WorkspaceMigration: for any processes, writes and crashes, LayoutInv,   *)
(* what of a database is set aside before it is taken away or replaced.    *)
(***************************************************************************)
EXTENDS WorkspaceStorage, WorkspaceMigration, ExtensionRegistry, Attachments, TLAPS


Entry == [history : Seq(Records), revoked : BOOLEAN]
Ascends(entry) ==
  \A i \in 2 .. Len(entry.history) :
    entry.history[i - 1].version < entry.history[i].version
AllLoadable(p, entry) ==
  \A i \in 1 .. Len(entry.history) : Loadable(p, entry.history[i])

\* What an operation that hands out a of an entry promises under policy p.
HandedOut(p, q, entry, a) ==
  /\ entry.history # <<>> /\ ~entry.revoked
  /\ a = Latest(entry)
  /\ Trusts(p, a)
  /\ q.op # "register" => Loadable(p, a)

Critical == {"load", "apply", "persist", "return", "unlock"}

RegistryTypeOK ==
  /\ table \in [Names -> Entry]
  /\ policy \in [Handles -> Policies]
  /\ stage \in [Handles -> {"closed", "idle"} \cup Critical]
  /\ request \in [Handles -> Requests \cup {Nothing}]
  /\ cache \in [Handles -> [Names -> Entry]]
  /\ answer \in [Handles -> Records \cup {Nothing}]

\* A handle between taking and letting go the lock holds it.
LockHeld ==
  \A h \in Handles : stage[h] \in Critical => holder = h /\ request[h] \in Requests

\* The caches an operation is applied to are the file.
AppliedToTheFile ==
  \A h \in Handles : stage[h] = "apply" =>
    cache[h] = table /\ LoadsFor(policy[h])

\* The caches about to be written are the file with one entry changed.
WritesOneEntry ==
  \A h \in Handles : stage[h] = "persist" =>
    LET q == request[h]
        after == After(table[q.name], q)
    IN /\ after # Nothing
       /\ cache[h] = [table EXCEPT ![q.name] = after]
       /\ answer[h] # Nothing => HandedOut(policy[h], q, after, answer[h])

RegistryInv ==
  /\ RegistryTypeOK /\ LockHeld /\ AppliedToTheFile /\ WritesOneEntry
  /\ NoOperationLost /\ VersionsAscend /\ OnlyTrustedHandedOut

-----------------------------------------------------------------------------
(* The operations on an entry *)

LEMMA RequestFields ==
  ASSUME NEW q \in Requests
  PROVE  /\ q.name \in Names /\ q.op \in {"register", "revoke", "rollback", "get"}
         /\ q.op = "register" => q.record \in Records
  BY DEF Requests

\* The current version of an entry is one of its versions.
LEMMA CurrentIs ==
  ASSUME NEW e \in Entry, e.history # <<>>
  PROVE  /\ Len(e.history) \in 1 .. Len(e.history)
         /\ Latest(e) = e.history[Len(e.history)] /\ Latest(e) \in Records
<1>1. e.history \in Seq(Records)
  BY DEF Entry
<1>2. Len(e.history) \in Nat \ {0}
  BY <1>1
<1> QED
  BY <1>1, <1>2 DEF Latest

\* An operation that does not raise leaves an entry with ascending versions.
LEMMA AfterIs ==
  ASSUME VersionsAreNumbers, NEW e \in Entry, NEW q \in Requests, After(e, q) # Nothing
  PROVE  /\ After(e, q) \in Entry
         /\ Ascends(e) => Ascends(After(e, q))
<1> DEFINE a == After(e, q)
<1>1. e.history \in Seq(Records) /\ e.revoked \in BOOLEAN
  BY DEF Entry
<1>2. CASE q.op = "register" /\ SameAgain(e, q.record)
  <2>1. a = [e EXCEPT !.revoked = FALSE]
    BY <1>2 DEF After
  <2>2. a \in Entry /\ a.history = e.history
    BY <1>1, <2>1 DEF Entry
  <2> QED
    BY <2>2 DEF Ascends
<1>3. CASE q.op = "register" /\ ~SameAgain(e, q.record) /\ Newer(e, q.record)
  <2>1. a = [history |-> Append(e.history, q.record), revoked |-> FALSE]
    BY <1>3 DEF After
  <2>2. q.record \in Records
    BY <1>3, RequestFields
  <2> DEFINE longer == Append(e.history, q.record)
  <2>3. /\ longer \in Seq(Records) /\ Len(longer) = Len(e.history) + 1
        /\ longer[Len(e.history) + 1] = q.record
        /\ \A i \in 1 .. Len(e.history) : longer[i] = e.history[i]
    BY <1>1, <2>2
  <2> HIDE DEF longer
  <2>4. a.history = longer /\ a \in Entry
    BY <2>1, <2>3 DEF longer, Entry
  <2>5. ASSUME Ascends(e), NEW i \in 2 .. Len(longer)
        PROVE  longer[i - 1].version < longer[i].version
    <3>1. Len(e.history) \in Nat
      BY <1>1
    <3>2. CASE i <= Len(e.history)
      <4>1. /\ i \in 2 .. Len(e.history) /\ i \in 1 .. Len(e.history)
            /\ i - 1 \in 1 .. Len(e.history)
        BY <3>1, <3>2
      <4> QED
        BY <2>3, <2>5, <4>1 DEF Ascends
    <3>3. CASE i = Len(e.history) + 1
      <4>1. e.history # <<>> /\ i - 1 = Len(e.history) /\ i - 1 \in 1 .. Len(e.history)
        BY <1>1, <3>1, <3>3
      <4>2. q.record.version > Latest(e).version /\ Latest(e) \in Records
            /\ longer[i - 1] = Latest(e) /\ longer[i] = q.record
        BY <1>3, <2>3, <3>3, <4>1, CurrentIs DEF Newer
      <4> QED
        BY <2>2, <4>2 DEF VersionsAreNumbers
    <3> QED
      BY <2>3, <3>1, <3>2, <3>3
  <2> QED
    BY <2>4, <2>5 DEF Ascends
<1>4. CASE q.op = "revoke" /\ e.history # <<>>
  <2>1. a = [e EXCEPT !.revoked = TRUE]
    BY <1>4 DEF After
  <2>2. a \in Entry /\ a.history = e.history
    BY <1>1, <2>1 DEF Entry
  <2> QED
    BY <2>2 DEF Ascends
<1>5. CASE q.op = "rollback" /\ Len(e.history) >= 2
  <2> DEFINE shorter == SubSeq(e.history, 1, Len(e.history) - 1)
  <2>1. a = [history |-> shorter, revoked |-> FALSE]
    BY <1>5 DEF After
  <2>2. /\ shorter \in Seq(Records) /\ Len(shorter) = Len(e.history) - 1
        /\ \A i \in 1 .. Len(e.history) - 1 : shorter[i] = e.history[i]
    BY <1>1, <1>5
  <2> HIDE DEF shorter
  <2>3. a.history = shorter /\ a \in Entry
    BY <2>1, <2>2 DEF Entry
  <2>4. ASSUME Ascends(e), NEW i \in 2 .. Len(shorter)
        PROVE  shorter[i - 1].version < shorter[i].version
    <3>1. /\ i \in 2 .. Len(e.history) /\ i \in 1 .. Len(e.history) - 1
          /\ i - 1 \in 1 .. Len(e.history) - 1
      BY <1>1, <2>2
    <3> QED
      BY <2>2, <2>4, <3>1 DEF Ascends
  <2> QED
    BY <2>3, <2>4 DEF Ascends
<1>6. CASE q.op = "get"
  BY <1>6 DEF After
<1> QED
  BY <1>2, <1>3, <1>4, <1>5, <1>6 DEF After

\* What an operation returns is the current version of the entry it leaves, and
\* trusted if the versions before it were and what it registers is.
LEMMA ReturnedIs ==
  ASSUME NEW e \in Entry, NEW q \in Requests, NEW p, After(e, q) # Nothing,
         AllLoadable(p, e), q.op = "register" => Trusts(p, q.record)
  PROVE  LET a == Returned(After(e, q), q) IN
         /\ a \in Records \cup {Nothing}
         /\ a # Nothing => HandedOut(p, q, After(e, q), a)
<1> DEFINE after == After(e, q)
           a == Returned(after, q)
<1>1. e.history \in Seq(Records) /\ e.revoked \in BOOLEAN
  BY DEF Entry
<1>2. ASSUME NEW i \in 1 .. Len(e.history)
      PROVE  Loadable(p, e.history[i]) /\ Trusts(p, e.history[i])
  BY <1>2 DEF AllLoadable, Loadable
<1>3. CASE q.op = "register" /\ SameAgain(e, q.record)
  <2>1. after = [e EXCEPT !.revoked = FALSE] /\ a = Latest(after)
    BY <1>3 DEF After, Returned
  <2>2. after.history = e.history /\ ~after.revoked
    BY <1>1, <2>1 DEF Entry
  <2>3. Latest(after) = Latest(e) /\ Latest(e) = q.record /\ e.history # <<>>
    BY <1>3, <2>2 DEF SameAgain, Latest
  <2> QED
    BY <1>3, <2>1, <2>2, <2>3, RequestFields DEF HandedOut
<1>4. CASE q.op = "register" /\ ~SameAgain(e, q.record) /\ Newer(e, q.record)
  <2>1. after = [history |-> Append(e.history, q.record), revoked |-> FALSE]
        /\ a = Latest(after)
    BY <1>4 DEF After, Returned
  <2>2. q.record \in Records
    BY <1>4, RequestFields
  <2> DEFINE longer == Append(e.history, q.record)
  <2>3. longer # <<>> /\ longer[Len(longer)] = q.record
    BY <1>1, <2>2
  <2> HIDE DEF longer
  <2>4. after.history = longer /\ ~after.revoked /\ Latest(after) = q.record
    BY <2>1, <2>3 DEF longer, Latest
  <2> QED
    BY <1>4, <2>1, <2>2, <2>3, <2>4 DEF HandedOut
<1>5. CASE q.op = "revoke" /\ e.history # <<>>
  BY <1>5 DEF Returned
<1>6. CASE q.op = "rollback" /\ Len(e.history) >= 2
  <2> DEFINE shorter == SubSeq(e.history, 1, Len(e.history) - 1)
  <2>1. after = [history |-> shorter, revoked |-> FALSE] /\ a = Latest(after)
    BY <1>6 DEF After, Returned
  <2>2. Len(e.history) - 1 \in 1 .. Len(e.history) - 1
        /\ Len(e.history) - 1 \in 1 .. Len(e.history)
    BY <1>1, <1>6
  <2>3. shorter # <<>> /\ Len(shorter) = Len(e.history) - 1
        /\ shorter[Len(e.history) - 1] = e.history[Len(e.history) - 1]
    <3>1. /\ Len(shorter) = Len(e.history) - 1
          /\ \A i \in 1 .. Len(e.history) - 1 : shorter[i] = e.history[i]
      BY <1>1, <1>6
    <3> HIDE DEF shorter
    <3>2. Len(<<>>) = 0
      OBVIOUS
    <3> QED
      BY <2>2, <3>1, <3>2
  <2> HIDE DEF shorter
  <2>4. after.history = shorter /\ ~after.revoked
        /\ Latest(after) = e.history[Len(e.history) - 1]
    BY <2>1, <2>3 DEF Latest
  <2>5. e.history[Len(e.history) - 1] \in Records
    BY <1>1, <2>2
  <2> QED
    BY <1>2, <2>1, <2>2, <2>3, <2>4, <2>5 DEF HandedOut
<1>7. CASE q.op = "get"
  <2>1. after = e
    BY <1>7 DEF After
  <2>2. CASE e.history # <<>> /\ ~e.revoked
    <3>1. a = Latest(e)
      BY <1>7, <2>1, <2>2 DEF Returned
    <3> QED
      BY <1>2, <2>1, <2>2, <3>1, CurrentIs DEF HandedOut
  <2>3. CASE ~(e.history # <<>> /\ ~e.revoked)
    <3>1. a = Nothing
      BY <1>7, <2>1, <2>3 DEF Returned
    <3> QED
      BY <3>1
  <2> QED
    BY <2>2, <2>3
<1> QED
  BY <1>3, <1>4, <1>5, <1>6, <1>7 DEF After

-----------------------------------------------------------------------------
(* The inductive invariant *)

\* An empty registry without open handles satisfies the invariant.
LEMMA InitInv == ASSUME RegistryInit PROVE RegistryInv
<1>1. Unknown \in Entry /\ Len(Unknown.history) = 0
  BY DEF Unknown, Entry
<1>2. NoNames \in [Names -> Entry] /\ \A n \in Names : Len(NoNames[n].history) = 0
  BY <1>1 DEF NoNames
<1> HIDE DEF NoNames
<1>3. RegistryTypeOK
  BY <1>2 DEF RegistryInit, RegistryTypeOK
<1>4. VersionsAscend
  BY <1>2 DEF RegistryInit, VersionsAscend
<1> QED
  BY <1>3, <1>4 DEF RegistryInit, RegistryInv, LockHeld, AppliedToTheFile, WritesOneEntry,
     NoOperationLost, OnlyTrustedHandedOut, Critical

\* The loads of a policy, entry by entry.
LEMMA LoadsMeans ==
  ASSUME NEW p, LoadsFor(p), NEW n \in Names
  PROVE  AllLoadable(p, table[n])
  BY DEF LoadsFor, AllLoadable

\* Opening reads, without the lock, what others may be about to change.
LEMMA OpenKeeps ==
  ASSUME RegistryInv, NEW h \in Handles, Open(h)
  PROVE  RegistryInv'
<1> USE DEF RegistryInv
<1>1. /\ stage[h] = "closed" /\ stage' = [stage EXCEPT ![h] = "idle"]
      /\ cache' = [cache EXCEPT ![h] = table]
      /\ UNCHANGED <<table, holder, policy, request, answer, told, faults>>
  BY DEF Open
<1>2. RegistryTypeOK'
  BY <1>1 DEF RegistryTypeOK
<1>3. LockHeld' /\ AppliedToTheFile' /\ WritesOneEntry'
  BY <1>1 DEF RegistryTypeOK, LockHeld, AppliedToTheFile, WritesOneEntry, Critical, LoadsFor
<1>4. NoOperationLost' /\ VersionsAscend' /\ OnlyTrustedHandedOut'
  BY <1>1 DEF RegistryTypeOK, NoOperationLost, VersionsAscend, OnlyTrustedHandedOut
<1> QED
  BY <1>2, <1>3, <1>4

\* Taking the lock: nobody is between taking and letting it go.
LEMMA BeginKeeps ==
  ASSUME NobodyIsNoHandle, RegistryInv, NEW h \in Handles, BeginOperation(h)
  PROVE  RegistryInv'
<1> USE DEF RegistryInv
<1>1. PICK q \in Requests : request' = [request EXCEPT ![h] = q]
  BY DEF BeginOperation
<1>2. /\ stage[h] = "idle" /\ holder = Nobody /\ holder' = h
      /\ stage' = [stage EXCEPT ![h] = "load"]
      /\ UNCHANGED <<table, policy, cache, answer, told, faults>>
  BY DEF BeginOperation
<1>3. \A g \in Handles : stage[g] \notin Critical
  BY <1>2 DEF LockHeld, NobodyIsNoHandle
<1>4. RegistryTypeOK'
  BY <1>1, <1>2 DEF RegistryTypeOK, Critical
<1>5. LockHeld' /\ AppliedToTheFile' /\ WritesOneEntry'
  BY <1>1, <1>2, <1>3
     DEF RegistryTypeOK, LockHeld, AppliedToTheFile, WritesOneEntry, Critical
<1>6. NoOperationLost' /\ VersionsAscend' /\ OnlyTrustedHandedOut'
  BY <1>2, <1>3
     DEF RegistryTypeOK, NoOperationLost, VersionsAscend, OnlyTrustedHandedOut, Critical
<1> QED
  BY <1>4, <1>5, <1>6

\* Reloading the caches under the lock.
LEMMA LoadKeeps ==
  ASSUME RegistryInv, NEW h \in Handles, Load(h)
  PROVE  RegistryInv'
<1> USE DEF RegistryInv
<1>1. /\ stage[h] = "load"
      /\ UNCHANGED <<table, holder, policy, request, answer, told, faults>>
  BY DEF Load
<1>2. NoNames \in [Names -> Entry]
  BY DEF NoNames, Unknown, Entry
<1>3. \/ /\ LoadsFor(policy[h]) /\ cache' = [cache EXCEPT ![h] = table]
         /\ stage' = [stage EXCEPT ![h] = "apply"]
      \/ /\ cache' = [cache EXCEPT ![h] = NoNames]
         /\ stage' = [stage EXCEPT ![h] = "unlock"]
  BY DEF Load, Reloaded
<1>4. RegistryTypeOK'
  BY <1>1, <1>2, <1>3 DEF RegistryTypeOK, Critical
<1>5. LockHeld' /\ AppliedToTheFile' /\ WritesOneEntry'
  BY <1>1, <1>3
     DEF RegistryTypeOK, LockHeld, AppliedToTheFile, WritesOneEntry, Critical, LoadsFor
<1>6. NoOperationLost' /\ VersionsAscend' /\ OnlyTrustedHandedOut'
  BY <1>1, <1>3 DEF RegistryTypeOK, NoOperationLost, VersionsAscend, OnlyTrustedHandedOut
<1> QED
  BY <1>4, <1>5, <1>6

\* Applying the operation to caches that are the file.
LEMMA ApplyKeeps ==
  ASSUME VersionsAreNumbers, RegistryInv, NEW h \in Handles, Apply(h)
  PROVE  RegistryInv'
<1> USE DEF RegistryInv
<1> DEFINE q == request[h]
           entry == table[q.name]
           after == After(entry, q)
           a == Returned(after, q)
<1>1. /\ stage[h] = "apply" /\ cache[h] = table /\ LoadsFor(policy[h])
      /\ q \in Requests /\ holder = h /\ table \in [Names -> Entry]
      /\ UNCHANGED <<table, holder, policy, request, told, faults>>
  BY DEF Apply, AppliedToTheFile, LockHeld, Critical, RegistryTypeOK
<1>2. q.name \in Names /\ entry \in Entry /\ AllLoadable(policy[h], entry)
  BY <1>1, RequestFields, LoadsMeans
<1>3. CASE stage' = [stage EXCEPT ![h] = "unlock"] /\ UNCHANGED <<cache, answer>>
  <2>1. RegistryTypeOK'
    BY <1>1, <1>3 DEF RegistryTypeOK, Critical
  <2>2. LockHeld' /\ AppliedToTheFile' /\ WritesOneEntry'
    BY <1>1, <1>3
       DEF RegistryTypeOK, LockHeld, AppliedToTheFile, WritesOneEntry, Critical, LoadsFor
  <2>3. NoOperationLost' /\ VersionsAscend' /\ OnlyTrustedHandedOut'
    BY <1>1, <1>3
       DEF RegistryTypeOK, NoOperationLost, VersionsAscend, OnlyTrustedHandedOut
  <2> QED
    BY <2>1, <2>2, <2>3
<1>4. CASE /\ Admissible(h, q) /\ after # Nothing
           /\ cache' = [cache EXCEPT ![h][q.name] = after]
           /\ answer' = [answer EXCEPT ![h] = a]
           /\ stage' = [stage EXCEPT ![h] = IF after = entry THEN "return" ELSE "persist"]
  <2>1. after \in Entry
    BY <1>2, <1>1, <1>4, AfterIs
  <2>2. q.op = "register" => Trusts(policy[h], q.record)
    BY <1>4 DEF Admissible
  <2>3. /\ a \in Records \cup {Nothing}
        /\ a # Nothing => HandedOut(policy[h], q, after, a)
    BY <1>1, <1>2, <1>4, <2>2, ReturnedIs
  <2> HIDE DEF after, a
  <2>4. cache' = [cache EXCEPT ![h] = [table EXCEPT ![q.name] = after]]
    BY <1>1, <1>4 DEF RegistryTypeOK
  <2>5. [table EXCEPT ![q.name] = after] \in [Names -> Entry]
    BY <1>1, <2>1
  <2>6. RegistryTypeOK'
    BY <1>1, <1>4, <2>3, <2>4, <2>5 DEF RegistryTypeOK, Critical
  <2>7. LockHeld' /\ AppliedToTheFile'
    BY <1>1, <1>4, <2>4
       DEF RegistryTypeOK, LockHeld, AppliedToTheFile, Critical, LoadsFor
  <2>8. stage'[h] = (IF after = entry THEN "return" ELSE "persist")
        /\ answer'[h] = a /\ cache'[h] = [table EXCEPT ![q.name] = after]
    BY <1>4, <2>4 DEF RegistryTypeOK
  <2>9. \A g \in Handles \ {h} : stage'[g] = stage[g] /\ stage[g] \notin Critical
    BY <1>1, <1>4 DEF RegistryTypeOK, LockHeld
  <2>10. WritesOneEntry'
    <3>1. ASSUME stage'[h] = "persist"
          PROVE  /\ after # Nothing /\ cache'[h] = [table EXCEPT ![q.name] = after]
                 /\ answer'[h] # Nothing => HandedOut(policy[h], q, after, answer'[h])
      BY <1>4, <2>3, <2>8
    <3> QED
      BY <1>1, <2>9, <3>1 DEF WritesOneEntry, Critical, after
  <2>11. OnlyTrustedHandedOut'
    <3>1. ASSUME stage'[h] = "return", answer'[h] # Nothing
          PROVE  HandedOut(policy[h], q, told[q.name], answer'[h])
      BY <2>3, <2>8, <3>1 DEF NoOperationLost
    <3> QED
      BY <1>1, <2>9, <3>1 DEF OnlyTrustedHandedOut, HandedOut, Critical
  <2>12. NoOperationLost' /\ VersionsAscend'
    BY <1>1 DEF NoOperationLost, VersionsAscend
  <2> QED
    BY <2>6, <2>7, <2>10, <2>11, <2>12
<1> QED
  BY <1>1, <1>3, <1>4 DEF Apply

\* Writing the table back: it is the file with the entry of the operation
\* changed, and that is what the operation makes of what was told before.
LEMMA PersistKeeps ==
  ASSUME VersionsAreNumbers, RegistryInv, NEW h \in Handles, Persist(h)
  PROVE  RegistryInv'
<1> USE DEF RegistryInv
<1> DEFINE q == request[h]
           entry == table[q.name]
           after == After(entry, q)
<1>1. /\ stage[h] = "persist" /\ holder = h /\ q \in Requests
      /\ after # Nothing /\ cache[h] = [table EXCEPT ![q.name] = after]
      /\ answer[h] # Nothing => HandedOut(policy[h], q, after, answer[h])
      /\ table \in [Names -> Entry] /\ told = table
      /\ UNCHANGED <<holder, policy, request, cache>>
  BY DEF Persist, WritesOneEntry, LockHeld, Critical, RegistryTypeOK, NoOperationLost
<1>2. q.name \in Names /\ entry \in Entry
  BY <1>1, RequestFields
<1>3. after \in Entry /\ (Ascends(entry) => Ascends(after))
  BY <1>1, <1>2, AfterIs
<1>4. \A g \in Handles \ {h} : stage[g] \notin Critical
  BY <1>1 DEF LockHeld
<1>5. CASE /\ table' = cache[h]
           /\ told' = [told EXCEPT ![q.name] = IF After(@, q) = Nothing THEN @ ELSE After(@, q)]
           /\ stage' = [stage EXCEPT ![h] = "return"] /\ UNCHANGED <<answer, faults>>
  <2>1. told' = [table EXCEPT ![q.name] = after] /\ table' = [table EXCEPT ![q.name] = after]
    BY <1>1, <1>2, <1>5
  <2> HIDE DEF after
  <2>2. table' \in [Names -> Entry] /\ table'[q.name] = after /\ told' = table'
        /\ \A n \in Names \ {q.name} : table'[n] = table[n]
    BY <1>1, <1>2, <1>3, <2>1
  <2>3. RegistryTypeOK'
    BY <1>1, <1>5, <2>2 DEF RegistryTypeOK, Critical
  <2>4. \A g \in Handles \ {h} : stage'[g] = stage[g]
    BY <1>5 DEF RegistryTypeOK
  <2>5. stage'[h] = "return"
    BY <1>5 DEF RegistryTypeOK
  <2>6. LockHeld' /\ AppliedToTheFile' /\ WritesOneEntry'
    BY <1>1, <1>4, <2>4, <2>5 DEF LockHeld, AppliedToTheFile, WritesOneEntry, Critical
  <2>7. VersionsAscend'
    <3>1. \A n \in Names : Ascends(table[n])
      BY DEF VersionsAscend, Ascends
    <3>2. \A n \in Names : Ascends(table'[n])
      BY <1>2, <1>3, <2>2, <3>1
    <3> QED
      BY <3>2 DEF VersionsAscend, Ascends
  <2>8. OnlyTrustedHandedOut'
    <3>1. answer'[h] # Nothing => HandedOut(policy[h], q, told'[q.name], answer'[h])
      BY <1>1, <1>5, <2>2
    <3> QED
      BY <1>1, <1>4, <2>4, <3>1 DEF OnlyTrustedHandedOut, HandedOut, Critical
  <2> QED
    BY <2>2, <2>3, <2>6, <2>7, <2>8 DEF NoOperationLost
<1>6. CASE /\ answer' = [answer EXCEPT ![h] = Nothing]
           /\ stage' = [stage EXCEPT ![h] = "unlock"] /\ UNCHANGED <<table, told>>
  <2>1. RegistryTypeOK'
    BY <1>1, <1>6 DEF RegistryTypeOK, Critical
  <2>2. LockHeld' /\ AppliedToTheFile' /\ WritesOneEntry'
    BY <1>1, <1>4, <1>6 DEF RegistryTypeOK, LockHeld, AppliedToTheFile, WritesOneEntry, Critical
  <2>3. NoOperationLost' /\ VersionsAscend' /\ OnlyTrustedHandedOut'
    BY <1>1, <1>4, <1>6
       DEF RegistryTypeOK, NoOperationLost, VersionsAscend, OnlyTrustedHandedOut, Critical
  <2> QED
    BY <2>1, <2>2, <2>3
<1> QED
  BY <1>5, <1>6 DEF Persist

\* Letting the lock go, and a host that is stopped: nobody else holds it.
LEMMA EndKeeps ==
  ASSUME RegistryInv, NEW h \in Handles, End(h) \/ Restart(h)
  PROVE  RegistryInv'
<1> USE DEF RegistryInv
<1>1. CASE End(h)
  <2>1. /\ stage[h] \in {"return", "unlock"}
        /\ holder' = Nobody
        /\ stage' = [stage EXCEPT ![h] = "idle"]
        /\ request' = [request EXCEPT ![h] = Nothing]
        /\ answer' = [answer EXCEPT ![h] = Nothing]
        /\ UNCHANGED <<table, policy, cache, told, faults>>
    BY <1>1 DEF End
  <2>2. \A g \in Handles \ {h} : stage[g] \notin Critical
    BY <2>1 DEF LockHeld, Critical
  <2>3. RegistryTypeOK'
    BY <2>1 DEF RegistryTypeOK
  <2>4. LockHeld' /\ AppliedToTheFile' /\ WritesOneEntry'
    BY <2>1, <2>2 DEF RegistryTypeOK, LockHeld, AppliedToTheFile, WritesOneEntry, Critical
  <2>5. NoOperationLost' /\ VersionsAscend' /\ OnlyTrustedHandedOut'
    BY <2>1, <2>2
       DEF RegistryTypeOK, NoOperationLost, VersionsAscend, OnlyTrustedHandedOut, Critical
  <2> QED
    BY <2>3, <2>4, <2>5
<1>2. CASE Restart(h)
  <2>1. /\ stage' = [stage EXCEPT ![h] = "closed"]
        /\ holder' = (IF holder = h THEN Nobody ELSE holder)
        /\ cache' = [cache EXCEPT ![h] = NoNames]
        /\ request' = [request EXCEPT ![h] = Nothing]
        /\ answer' = [answer EXCEPT ![h] = Nothing]
        /\ UNCHANGED <<table, told>>
    BY <1>2 DEF Restart
  <2>2. PICK p \in Policies : policy' = [policy EXCEPT ![h] = p]
    BY <1>2 DEF Restart
  <2>3. NoNames \in [Names -> Entry]
    BY DEF NoNames, Unknown, Entry
  <2>4. RegistryTypeOK'
    BY <2>1, <2>2, <2>3 DEF RegistryTypeOK
  <2>5. stage'[h] = "closed"
        /\ \A g \in Handles \ {h} : /\ stage'[g] = stage[g] /\ request'[g] = request[g]
                                     /\ cache'[g] = cache[g] /\ answer'[g] = answer[g]
                                     /\ policy'[g] = policy[g]
    BY <2>1, <2>2 DEF RegistryTypeOK
  <2>6. LockHeld'
    BY <2>1, <2>5 DEF LockHeld, Critical
  <2>7. AppliedToTheFile' /\ WritesOneEntry'
    BY <2>1, <2>5 DEF AppliedToTheFile, WritesOneEntry, LoadsFor
  <2>8. NoOperationLost' /\ VersionsAscend'
    BY <2>1 DEF NoOperationLost, VersionsAscend
  <2>9. OnlyTrustedHandedOut'
    BY <2>1, <2>5 DEF OnlyTrustedHandedOut
  <2> QED
    BY <2>4, <2>6, <2>7, <2>8, <2>9
<1> QED
  BY <1>1, <1>2

\* Every step of a handle keeps the invariant.
LEMMA NextInv ==
  ASSUME NobodyIsNoHandle, VersionsAreNumbers, RegistryInv, [RegistryNext]_registryVars
  PROVE  RegistryInv'
<1>1. CASE UNCHANGED registryVars
  BY <1>1 DEF registryVars, handles, RegistryInv, RegistryTypeOK, LockHeld, AppliedToTheFile,
              WritesOneEntry, NoOperationLost, VersionsAscend, OnlyTrustedHandedOut, LoadsFor
<1>2. CASE RegistryNext
  BY <1>2, OpenKeeps, BeginKeeps, LoadKeeps, ApplyKeeps, PersistKeeps, EndKeeps DEF RegistryNext
<1> QED
  BY <1>1, <1>2

-----------------------------------------------------------------------------
\* extensions.py register, revoke, rollback and get, of any handles on one file
\* (_reload_persisted and _persist under _mutation_lock): the file is what the
\* committed operations make of it one after the other, the versions of a name
\* ascend, and a handle hands out what its own policy trusts.
THEOREM RegistryIsSound ==
  ASSUME NobodyIsNoHandle, VersionsAreNumbers PROVE RegistrySpec => []RegistrySound
<1>1. RegistryInit => RegistryInv
  BY InitInv
<1>2. RegistryInv /\ [RegistryNext]_registryVars => RegistryInv'
  BY NextInv
<1>3. RegistryInv => RegistrySound
  BY DEF RegistryInv, RegistrySound
<1> QED
  BY <1>1, <1>2, <1>3, PTL DEF RegistrySpec

-----------------------------------------------------------------------------
(* WorkspaceStorage *)


\* What a home may hold as one tree.
OneTree == [Parts -> Trees \cup {"none"}]
Had(t) == {f \in Parts : t[f] # "none"}

Whole(t) ==
  \/ t = Empty /\ ~inhabited /\ "fresh" \notin withRuns
  \/ /\ t["db"] \in IF inhabited THEN {"workspace", "bundle"} ELSE {"bundle", "fresh"}
     /\ t["runs"] = IF t["db"] \in withRuns THEN t["db"] ELSE "none"
     /\ t["manifest"] = "bundle" => t["db"] = "bundle"

\* Where a part of t is.
InPlace(t, f) == place[f] = t[f] /\ aside[f] = "none"
Aside(t, f) == place[f] = "none" /\ aside[f] = t[f]
Covered(t, f) == place[f] = "bundle" /\ aside[f] = t[f]

AllInPlace(t) == place = t /\ aside = Empty /\ marker.had = Had(t)
NewInPlace ==
  /\ place["db"] = "bundle" /\ place["runs"] = "bundle"
  /\ place["manifest"] \in Trees \cup {"none"}
  /\ "manifest" \in marker.had => Exists("manifest")

\* The old database is deleted, and the new one as well.
Spoiled ==
  lapses # {} /\ "db" \in marker.had /\ place["db"] = "none" /\ aside["db"] = "none"

Moving(t, i) ==
  /\ marker.had = Had(t) /\ published = {}
  /\ IF i = 1 THEN InPlace(t, "db") ELSE Aside(t, "db")
  /\ IF i \in {1, 2} THEN InPlace(t, "runs") ELSE Aside(t, "runs")
  /\ InPlace(t, "manifest")

Publishing(t, i) ==
  /\ marker.had = Had(t)
  /\ "db" \in published <=> i # 1
  /\ "runs" \in published <=> i \notin {1, 2}
  /\ "manifest" \notin published
  /\ IF i = 1 THEN Aside(t, "db") ELSE Covered(t, "db")
  /\ IF i \in {1, 2} THEN Aside(t, "runs") ELSE Covered(t, "runs")
  /\ IF bundleManifest THEN Aside(t, "manifest") ELSE InPlace(t, "manifest")

Published(t) ==
  /\ marker.had = Had(t)
  /\ {"db", "runs"} \subseteq published
  /\ "manifest" \in published <=> bundleManifest
  /\ \A f \in published : place[f] = "bundle"
  /\ ~bundleManifest => InPlace(t, "manifest")
  /\ t = Empty => aside = Empty

Discarding(t, i) ==
  /\ Published(t)
  /\ i = 1 => \A f \in published : Covered(t, f)
  /\ i # 1 => aside["db"] = "none"

Undoing(t, i) ==
  \/ /\ marker.had = Had(t)
     /\ \A f \in published : aside[f] = t[f]
     /\ \A f \in Parts \ published : InPlace(t, f) \/ Aside(t, f)
     /\ i # 1 => InPlace(t, "runs") /\ "runs" \notin published
     /\ i \notin {1, 2} => InPlace(t, "db") /\ "db" \notin published
  \/ /\ lapses # {} /\ "db" \in marker.had /\ aside["db"] = "none"
     /\ "db" \in published \/ place["db"] = "none"
     /\ i \notin {1, 2} => "db" \notin published

Undoes(t) == AllInPlace(t) \/ Spoiled

Dropping(t, i) ==
  /\ AllInPlace(t) \/ NewInPlace
  /\ i # 1 => aside["db"] = "none"
  /\ i \notin {1, 2} => aside["runs"] = "none"

Removing(t, i) ==
  /\ marker.had = Had(t) /\ ~NewComplete
  /\ \A f \in Parts : aside[f] = t[f]
  /\ i # 1 => place["db"] = "none"
  /\ i \notin {1, 2} => place["runs"] = "none"

Returning(t, i) ==
  /\ marker.had = Had(t)
  /\ IF i = 1 THEN Aside(t, "db") ELSE InPlace(t, "db")
  /\ IF i \in {1, 2} THEN Aside(t, "runs") ELSE InPlace(t, "runs")
  /\ Aside(t, "manifest")

Settling(t) == aside = Empty /\ (AllInPlace(t) \/ NewInPlace)

\* What a stop leaves behind.
Left(t) ==
  \/ /\ marker.had = Had(t)
     /\ \A f \in Parts : InPlace(t, f) \/ aside[f] = t[f]
     /\ NewComplete => AllInPlace(t) \/ NewInPlace
  \/ NewInPlace
  \/ Spoiled

Quiet(t) == IF marker.pending THEN Left(t) ELSE place = t /\ aside = Empty

Moves == {"move", "publish", "discard", "restored", "undo", "undone", "drop", "remove",
          "put_back", "settled"}

OwnerFits(t, s, i) ==
  /\ s \notin Moves => Quiet(t)
  /\ s \in Moves => marker.pending
  /\ s = "move" => Moving(t, i)
  /\ s = "publish" => Publishing(t, i)
  /\ s = "discard" => Discarding(t, i)
  /\ s = "restored" => Published(t) /\ aside["db"] = "none"
  /\ s = "undo" => Undoing(t, i)
  /\ s = "undone" => Undoes(t)
  /\ s = "drop" => Dropping(t, i)
  /\ s = "remove" => Removing(t, i)
  /\ s = "put_back" => Returning(t, i)
  /\ s = "settled" => Settling(t)

Fits(t) ==
  IF exclusive = NoProc THEN Quiet(t)
  ELSE OwnerFits(t, Stage(exclusive), pc[exclusive][2])

First == {"bootstrap", "bootstrap_share", "initialize", "downgrade", "downgrading"}

\* A stage over two parts.
Short(s) == s = "discard" \/ (s \in {"move", "publish"} /\ ~bundleManifest)

Locks ==
  /\ pc \in [Procs -> Stages \X (1 .. 3)]
  /\ \A p \in Procs : Short(Stage(p)) => pc[p][2] # 3
  /\ task \in [Procs -> {"open", "backup", "restore"}]
  /\ exclusive \in Procs \cup {NoProc} /\ shared \subseteq Procs
  /\ exclusive # NoProc => shared = {}
  /\ \A p \in Procs : Stage(p) \in UnderExclusive <=> exclusive = p
  /\ \A p \in Procs : (InUse(p) \/ At(p, "check")) <=> p \in shared
  /\ \A p \in Procs : At(p, "downgrading") => "lease slipped" \in lapses

Contents ==
  /\ place \in [Parts -> Content] /\ aside \in [Parts -> Content]
  /\ place["db"] # "torn" /\ aside["db"] # "torn"
  /\ marker \in [pending : BOOLEAN, had : SUBSET Parts]
  /\ published \subseteq Parts /\ lapses \subseteq Lapses
  /\ withRuns \subseteq Trees /\ "bundle" \in withRuns
  /\ bundleManifest \in BOOLEAN /\ inhabited \in BOOLEAN
  /\ crashes \in 0 .. MaxCrashes /\ errors \in 0 .. MaxErrors

Ready == \A p \in Procs : InUse(p) \/ At(p, "downgrade") => Current

HomeKept ==
  lapses \subseteq {"deletion cut short"} =>
    Ready /\ \E t \in OneTree : Whole(t) /\ Fits(t)

NothingSlips ==
  inhabited /\ lapses \subseteq {"lease slipped"} =>
    lapses = {} /\ \A p \in Procs : Stage(p) \notin First

HomeInv == Locks /\ Contents /\ HomeKept /\ NothingSlips

-----------------------------------------------------------------------------

\* The order in which a stage handles the parts.
LEMMA OrderIs ==
  ASSUME NEW s
  PROVE  /\ s = "undo" => Order(s) = <<"runs", "db", "manifest">>
         /\ Short(s) => Order(s) = <<"db", "runs">>
         /\ s # "undo" /\ ~Short(s) => Order(s) = <<"db", "runs", "manifest">>
         /\ Len(Order(s)) = IF Short(s) THEN 2 ELSE 3
BY DEF Order, Short

\* Where a process is.
LEMMA PartIs ==
  ASSUME Locks, NEW p \in Procs, NEW s \in Stages, NEW i \in 1 .. 3, pc[p] = <<s, i>>
  PROVE  /\ Stage(p) = s /\ (Short(s) => i # 3)
         /\ s = "undo" => Part(p) = IF i = 1 THEN "runs" ELSE IF i = 2 THEN "db" ELSE "manifest"
         /\ s # "undo" => Part(p) = IF i = 1 THEN "db" ELSE IF i = 2 THEN "runs" ELSE "manifest"
<1>1. Stage(p) = s /\ pc[p][2] = i
  BY DEF Stage
<1>2. Short(s) => i # 3
  BY <1>1 DEF Locks
<1>3. Part(p) = Order(s)[i]
  BY <1>1 DEF Part
<1> QED
  BY <1>1, <1>2, <1>3, OrderIs

\* The next part of a stage, or the next stage.
LEMMA AdvanceIs ==
  ASSUME Locks, NEW p \in Procs, NEW s \in Stages, NEW i \in 1 .. 3, pc[p] = <<s, i>>,
         NEW next \in Stages, Advance(p, next)
  PROVE  pc' = [pc EXCEPT ![p] = IF i = 1 \/ (i = 2 /\ ~Short(s)) THEN <<s, i + 1>>
                                 ELSE <<next, 1>>]
<1>1. pc[p][1] = s /\ pc[p][2] = i
  OBVIOUS
<1>2. Len(Order(s)) = IF Short(s) THEN 2 ELSE 3
  BY OrderIs
<1>3. pc' = [pc EXCEPT ![p] = IF i < Len(Order(s)) THEN <<s, i + 1>> ELSE <<next, 1>>]
  BY <1>1 DEF Advance
<1>4. i < Len(Order(s)) <=> i = 1 \/ (i = 2 /\ ~Short(s))
  BY <1>1, <1>2, PartIs
<1> QED
  BY <1>3, <1>4

\* A process is at some part of some stage.
LEMMA WhereIs ==
  ASSUME Locks, NEW p \in Procs
  PROVE  \E s \in Stages, i \in 1 .. 3 : pc[p] = <<s, i>> /\ Stage(p) = s
<1>1. pc[p] \in Stages \X (1 .. 3)
  BY DEF Locks
<1>2. pc[p] = <<pc[p][1], pc[p][2]>> /\ pc[p][1] \in Stages /\ pc[p][2] \in 1 .. 3
  BY <1>1
<1> QED
  BY <1>2 DEF Stage

\* The types that the run checks.
LEMMA TypesFollow ==
  ASSUME Locks, Contents
  PROVE  TypeOK
<1>1. ASSUME NEW p \in Procs PROVE Stage(p) \in Stages /\ pc[p][2] \in 1 .. Len(Order(Stage(p)))
  <2>1. PICK s \in Stages, i \in 1 .. 3 : pc[p] = <<s, i>>
    BY WhereIs
  <2>2. Stage(p) = s /\ pc[p][2] = i /\ (Short(s) => i # 3)
    BY <2>1, PartIs
  <2>3. Len(Order(s)) = IF Short(s) THEN 2 ELSE 3
    BY OrderIs
  <2> QED
    BY <2>2, <2>3
<1> QED
  BY <1>1 DEF TypeOK, Locks, Contents

\* A step of p from stage to stage keeps the locks, if it takes and gives what
\* the new stage asks for.
LEMMA LocksKept ==
  ASSUME Locks, NEW p \in Procs, NEW s \in Stages, NEW i \in 1 .. 3,
         pc' = [pc EXCEPT ![p] = <<s, i>>],
         i = 3 => ~Short(s)', bundleManifest' = bundleManifest,
         task' \in [Procs -> {"open", "backup", "restore"}],
         exclusive' \in {exclusive, p} \/ (exclusive = p /\ exclusive' = NoProc),
         exclusive' = p => exclusive \in {p, NoProc},
         s \in UnderExclusive <=> exclusive' = p,
         shared' \in {shared, shared \cup {p}, shared \ {p}},
         s \in {"running", "reading", "check"} <=> p \in shared',
         exclusive' # NoProc => shared' = {},
         lapses \subseteq lapses',
         s = "downgrading" => "lease slipped" \in lapses'
  PROVE  Locks' /\ pc'[p] = <<s, i>> /\ Stage(p)' = s
         /\ \A q \in Procs \ {p} : pc'[q] = pc[q] /\ Stage(q)' = Stage(q)
<1>1. /\ pc'[p] = <<s, i>> /\ pc' \in [Procs -> Stages \X (1 .. 3)]
      /\ \A q \in Procs \ {p} : pc'[q] = pc[q]
  BY DEF Locks
<1>2. Stage(p)' = s /\ pc'[p][2] = i /\ \A q \in Procs \ {p} : Stage(q)' = Stage(q)
  BY <1>1 DEF Stage
<1>3. \A q \in Procs : Short(Stage(q))' => pc'[q][2] # 3
  BY <1>1, <1>2 DEF Locks, Short
<1>4. \A q \in Procs : Stage(q)' \in UnderExclusive <=> exclusive' = q
  <2>1. ASSUME NEW q \in Procs \ {p}
        PROVE  Stage(q)' \in UnderExclusive <=> exclusive' = q
    BY <1>2, StorageAssumption DEF Locks
  <2> QED
    BY <1>2, <2>1
<1>5. \A q \in Procs : (InUse(q) \/ At(q, "check"))' <=> q \in shared'
  <2>1. \A q \in Procs : (InUse(q) \/ At(q, "check"))'
          <=> Stage(q)' \in {"running", "reading", "check"}
    BY DEF InUse, At
  <2>2. \A q \in Procs : Stage(q) \in {"running", "reading", "check"} <=> q \in shared
    BY DEF InUse, At, Locks
  <2>3. \A q \in Procs \ {p} : q \in shared' <=> q \in shared
    OBVIOUS
  <2> QED
    BY <1>2, <2>1, <2>2, <2>3
<1>6. \A q \in Procs : At(q, "downgrading")' => "lease slipped" \in lapses'
  BY <1>2 DEF Locks, At
<1>7. exclusive' \in Procs \cup {NoProc} /\ shared' \subseteq Procs
  BY DEF Locks
<1> QED
  BY <1>1, <1>2, <1>3, <1>4, <1>5, <1>6, <1>7 DEF Locks

\* A step that does not bring a process of an inhabited home to a first opening.
LEMMA NoSlip ==
  ASSUME HomeInv, NEW p \in Procs,
         \A q \in Procs \ {p} : Stage(q)' = Stage(q),
         Stage(p)' \in First /\ inhabited /\ lapses = {} => Stage(p) \in First,
         inhabited' = inhabited,
         lapses' = lapses \/ \E x \in Lapses \ {"lease slipped"} : lapses' = lapses \cup {x}
  PROVE  NothingSlips'
<1> SUFFICES ASSUME inhabited', lapses' \subseteq {"lease slipped"}
             PROVE  lapses' = {} /\ \A q \in Procs : Stage(q)' \notin First
  BY DEF NothingSlips
<1>1. lapses' = lapses
  OBVIOUS
<1> QED
  BY <1>1 DEF HomeInv, NothingSlips

\* A step that leaves the files alone leaves every shape of them.
LEMMA SameShapes ==
  ASSUME UNCHANGED <<place, aside, marker, published, bundleManifest, lapses>>,
         NEW t, NEW s, NEW i
  PROVE  /\ Quiet(t) => Quiet(t)'
         /\ OwnerFits(t, s, i) => OwnerFits(t, s, i)'
BY DEF OwnerFits, Quiet, Left, Moving, Publishing, Published, Discarding, Undoing,
   Undoes,
       Dropping, Removing, Returning, Settling, AllInPlace, NewInPlace, Spoiled, InPlace, Aside,
       Covered, NewComplete, Exists

\* A step that leaves the files alone, of a process that holds no restore or
\* recovery, or stops holding it.
LEMMA QuietKeeps ==
  ASSUME HomeInv, NEW p \in Procs, NEW s \in Stages \ Moves,
         pc' = [pc EXCEPT ![p] = <<s, 1>>], Locks', Contents',
         UNCHANGED <<files, published, inhabited, withRuns, bundleManifest>>,
         lapses' = lapses \/ lapses' = lapses \cup {"undo cut short"},
         exclusive' = exclusive \/ (exclusive \in {p, NoProc} /\ exclusive' \in {p, NoProc}),
         lapses' \subseteq {"deletion cut short"} =>
           /\ s \in {"running", "reading", "downgrade"} => Current
           /\ Stage(p) \in Moves =>
                /\ exclusive' = NoProc
                /\ \A t \in OneTree : Whole(t) /\ Fits(t) => Quiet(t),
         s \in First /\ inhabited /\ lapses = {} => Stage(p) \in First
  PROVE  HomeInv'
<1>1. /\ pc'[p] = <<s, 1>> /\ Stage(p)' = s /\ pc'[p][2] = 1 /\ Stage(p) \in Stages
      /\ \A q \in Procs \ {p} : pc'[q] = pc[q] /\ Stage(q)' = Stage(q)
  BY DEF HomeInv, Locks, Stage
<1>2. NothingSlips'
  BY <1>1, NoSlip DEF Lapses
<1>3. ASSUME lapses' \subseteq {"deletion cut short"}
      PROVE  Ready' /\ \E t \in OneTree : Whole(t)' /\ Fits(t)'
  <2>1. lapses' = lapses /\ UNCHANGED <<place, aside, marker, published, bundleManifest, lapses>>
    BY <1>3 DEF files
  <2>2. PICK t \in OneTree : Whole(t) /\ Fits(t)
    BY <1>3, <2>1 DEF HomeInv, HomeKept
  <2>3. Ready'
    <3>1. Current' <=> Current
      BY <2>1 DEF Current, Exists
    <3>2. Ready
      BY <1>3, <2>1 DEF HomeInv, HomeKept
    <3> QED
      BY <1>1, <1>3, <3>1, <3>2 DEF Ready, InUse, At
  <2>4. Whole(t)'
    BY <2>2 DEF Whole
  <2>5. Quiet(t) => Quiet(t)'
    BY <2>1, SameShapes
  <2>6. ASSUME Stage(p) \in Moves PROVE Fits(t)'
    <3>1. exclusive' = NoProc /\ Quiet(t)
      BY <1>3, <2>2, <2>6
    <3> QED
      BY <2>5, <3>1 DEF Fits
  <2>7. ASSUME Stage(p) \notin Moves PROVE Fits(t)'
    <3>1. CASE exclusive \in {p, NoProc} /\ exclusive' \in {p, NoProc}
      <4>1. Quiet(t)
        BY <2>2, <2>7, <3>1 DEF Fits, OwnerFits
      <4>2. OwnerFits(t, s, 1)'
        BY <2>5, <4>1 DEF OwnerFits, Moves
      <4> QED
        BY <1>1, <2>5, <3>1, <4>1, <4>2 DEF Fits
    <3>2. CASE exclusive' = exclusive /\ exclusive \notin {p, NoProc}
      <4>1. PICK q \in Procs \ {p} : q = exclusive
        BY <3>2 DEF HomeInv, Locks
      <4>2. PICK r, j : r = Stage(q) /\ j = pc[q][2]
        OBVIOUS
      <4>3. OwnerFits(t, r, j)
        BY <2>2, <3>2, <4>1, <4>2 DEF Fits
      <4>4. OwnerFits(t, r, j)'
        BY <2>1, <4>3, SameShapes
      <4>5. Stage(q)' = r /\ pc'[q][2] = j
        BY <1>1, <4>1, <4>2
      <4> QED
        BY <3>2, <4>1, <4>4, <4>5 DEF Fits
    <3> QED
      BY <3>1, <3>2
  <2> QED
    BY <2>2, <2>3, <2>4, <2>6, <2>7 DEF Fits
<1> QED
  BY <1>2, <1>3 DEF HomeInv, HomeKept

\* A step of the one process that holds a restore or a recovery.
LEMMA OwnerKeeps ==
  ASSUME HomeInv, NEW p \in Procs, exclusive = p, NEW s \in Stages, NEW i \in 1 .. 3,
         pc' = [pc EXCEPT ![p] = <<s, i>>], Locks', Contents',
         UNCHANGED <<inhabited, shared>>, s \notin First, s \notin {"running", "reading"},
         lapses' = lapses \/ \E x \in Lapses \ {"lease slipped"} : lapses' = lapses \cup {x},
         exclusive' = p \/ (exclusive' = NoProc /\ s \notin Moves),
         lapses' \subseteq {"deletion cut short"} =>
           \E t \in OneTree : /\ Whole(t)'
                              /\ exclusive' = p => OwnerFits(t, s, i)'
                              /\ exclusive' = NoProc => Quiet(t)'
  PROVE  HomeInv'
<1>1. pc'[p] = <<s, i>> /\ Stage(p)' = s /\ p # NoProc /\ pc'[p][2] = i
      /\ \A q \in Procs \ {p} : pc'[q] = pc[q] /\ Stage(q)' = Stage(q)
  BY StorageAssumption DEF HomeInv, Locks, Stage
<1>2. NothingSlips'
  BY <1>1, NoSlip
<1>3. Ready'
  <2>1. shared' = {} /\ \A q \in Procs \ {p} : Stage(q)' # "downgrade"
    BY <1>1 DEF HomeInv, Locks, UnderExclusive
  <2>2. \A q \in Procs : ~InUse(q)'
    BY <2>1 DEF Locks
  <2> QED
    BY <1>1, <2>1, <2>2 DEF Ready, At, First
<1>4. ASSUME lapses' \subseteq {"deletion cut short"}
      PROVE  \E t \in OneTree : Whole(t)' /\ Fits(t)'
  BY <1>1, <1>4 DEF Fits
<1> QED
  BY <1>2, <1>3, <1>4 DEF HomeInv, HomeKept

\* The types of the files, in a step that leaves them alone.
LEMMA SameContents ==
  ASSUME Contents, UNCHANGED <<files, published, history>>
  PROVE  Contents'
BY DEF Contents, files, history

Opens == {"running", "reading", "check"}

\* Where a stage starts.
LEMMA OneIs == 1 \in 1 .. 3 /\ 1 # 3
OBVIOUS

\* The same, for each way to take or leave the locks.
LEMMA QuietGoes ==
  ASSUME HomeInv, NEW p \in Procs, NEW s \in Stages \ Moves, s # "downgrading",
         Goto(p, s), Contents', UNCHANGED <<files, published, inhabited, withRuns, bundleManifest>>,
         task' \in [Procs -> {"open", "backup", "restore"}],
         lapses' = lapses \/ lapses' = lapses \cup {"undo cut short"},
         \/ /\ UNCHANGED lock /\ (s \in UnderExclusive <=> Stage(p) \in UnderExclusive)
            /\ s \in Opens <=> Stage(p) \in Opens
         \/ Release(p) /\ s \notin UnderExclusive \cup Opens
         \/ /\ exclusive = NoProc /\ exclusive' = p /\ shared = {} /\ UNCHANGED shared
            /\ s \in UnderExclusive
         \/ /\ exclusive = NoProc /\ shared' = shared \cup {p} /\ UNCHANGED exclusive
            /\ s \in Opens,
         lapses' \subseteq {"deletion cut short"} =>
           /\ s \in {"running", "reading", "downgrade"} => Current
           /\ Stage(p) \in Moves =>
                /\ exclusive' = NoProc
                /\ \A t \in OneTree : Whole(t) /\ Fits(t) => Quiet(t),
         s \in First /\ inhabited /\ lapses = {} => Stage(p) \in First
  PROVE  HomeInv'
<1>1. pc' = [pc EXCEPT ![p] = <<s, 1>>]
  BY DEF Goto
<1>2. /\ Locks /\ p # NoProc /\ exclusive \in Procs \cup {NoProc}
      /\ Stage(p) \in UnderExclusive <=> exclusive = p
      /\ Stage(p) \in Opens <=> p \in shared
      /\ exclusive # NoProc => shared = {}
  BY StorageAssumption DEF HomeInv, Locks, Opens, InUse, At
<1>3. UnderExclusive \cap Opens = {}
  BY DEF UnderExclusive, Opens
<1>4. /\ s \in UnderExclusive <=> exclusive' = p
      /\ s \in Opens <=> p \in shared'
      /\ exclusive' # NoProc => shared' = {}
      /\ exclusive' \in {exclusive, p} \/ (exclusive = p /\ exclusive' = NoProc)
      /\ exclusive' = p => exclusive \in {p, NoProc}
      /\ shared' \in {shared, shared \cup {p}, shared \ {p}}
  BY <1>2, <1>3 DEF Release, lock
<1>5. Locks'
  <2>1. s \in Stages /\ lapses \subseteq lapses'
    OBVIOUS
  <2>4. 1 \in 1 .. 3 /\ 1 # 3
    BY OneIs
  <2>2. s \in {"running", "reading", "check"} <=> p \in shared'
    BY <1>4 DEF Opens
  <2>3. bundleManifest' = bundleManifest
    OBVIOUS
  <2> QED
    BY <1>1, <1>2, <1>4, <2>1, <2>2, <2>3, <2>4, LocksKept
<1>6. exclusive' = exclusive \/ (exclusive \in {p, NoProc} /\ exclusive' \in {p, NoProc})
  BY <1>4
<1> QED
  BY <1>1, <1>5, <1>6, QuietKeeps

\* The steps that only look at the home, or at the lock.
LEMMA InspectKeeps ==
  ASSUME HomeInv, NEW p \in Procs, UNCHANGED history,
         \/ \E t \in {"open", "backup", "restore"} : Begin(p, t)
         \/ LooksForMarker(p) \/ Inspects(p) \/ SeesCurrent(p) \/ TriesAgain(p)
  PROVE  HomeInv'
<1> USE DEF UnderExclusive, Opens, Moves, Stages, First, At
<1>0. Contents' /\ UNCHANGED <<lock, published, inhabited, withRuns, bundleManifest, lapses>>
      /\ UNCHANGED files /\ task' \in [Procs -> {"open", "backup", "restore"}]
  <2>1. UNCHANGED <<files, lock, published>>
    BY DEF Begin, LooksForMarker, Inspects, SeesCurrent, TriesAgain
  <2>2. task' \in [Procs -> {"open", "backup", "restore"}]
    BY DEF HomeInv, Locks, Begin, LooksForMarker, Inspects, SeesCurrent, TriesAgain
  <2> QED
    BY <2>1, <2>2, SameContents DEF HomeInv, history
<1>1. ASSUME NEW t \in {"open", "backup", "restore"}, Begin(p, t) PROVE HomeInv'
  BY <1>0, <1>1, QuietGoes DEF Begin
<1>2. CASE LooksForMarker(p)
  <2>1. PICK s \in {"recover_lease", "open", "backup", "restore"} : Goto(p, s)
    BY <1>2 DEF LooksForMarker, HomeInv, Locks
  <2>2. Stage(p) = "recover"
    BY <1>2 DEF LooksForMarker
  <2> QED
    BY <1>0, <2>1, <2>2, QuietGoes
<1>3. CASE SeesCurrent(p) \/ TriesAgain(p)
  <2>1. PICK s \in {"bootstrap", "bootstrap_share"} : Goto(p, s)
    BY <1>3 DEF SeesCurrent, TriesAgain
  <2>2. Stage(p) \in {"bootstrap", "bootstrap_share"}
    BY <1>3 DEF SeesCurrent, TriesAgain
  <2> QED
    BY <1>0, <2>1, <2>2, QuietGoes
<1>4. CASE Inspects(p)
  <2>1. PICK s \in {"share", "bootstrap", "idle"} :
          Goto(p, s) /\ (s = "bootstrap" => Uninitialized)
    BY <1>4 DEF Inspects
  <2>2. Stage(p) = "open"
    BY <1>4 DEF Inspects
  <2>3. ASSUME s = "bootstrap", inhabited, lapses = {} PROVE FALSE
    <3>1. PICK t \in OneTree : Whole(t) /\ Fits(t)
      BY <2>3 DEF HomeInv, HomeKept
    <3>2. Quiet(t)
      <4>1. ~marker.pending
        BY <2>1, <2>3 DEF Uninitialized
      <4> QED
        BY <3>1, <4>1 DEF Fits, OwnerFits
    <3>3. place = t /\ t["db"] \in {"workspace", "bundle"}
      BY <2>1, <2>3, <3>1, <3>2 DEF Quiet, Whole, Uninitialized
    <3> QED
      BY <2>1, <2>3, <3>3 DEF Uninitialized, Exists
  <2> QED
    BY <1>0, <2>1, <2>2, <2>3, QuietGoes
<1> QED
  BY <1>1, <1>2, <1>3, <1>4

\* Each way to take the lock.
LEMMA TakesKeep ==
  ASSUME HomeInv, NEW p \in Procs, UNCHANGED history,
         \/ TakeExclusive(p, "recover_lease", "recovering")
         \/ TakeExclusive(p, "restore", "restoring")
         \/ TakeExclusive(p, "bootstrap", "initialize")
         \/ TakeShared(p, "share", "check") \/ TakeShared(p, "bootstrap_share", "check")
         \/ TakeShared(p, "backup", "check") \/ TakeShared(p, "downgrading", "running")
  PROVE  HomeInv'
<1> USE DEF UnderExclusive, Opens, Moves, Stages, First, At
<1>0. Contents' /\ UNCHANGED <<published, inhabited, withRuns, bundleManifest, lapses>>
      /\ UNCHANGED files /\ task' \in [Procs -> {"open", "backup", "restore"}]
  BY SameContents DEF HomeInv, history, TakeExclusive, TakeShared, Locks
<1>1. CASE \/ TakeExclusive(p, "recover_lease", "recovering")
           \/ TakeExclusive(p, "restore", "restoring")
           \/ TakeExclusive(p, "bootstrap", "initialize")
  <2>1. PICK s \in {"recovering", "restoring", "initialize"} :
          Goto(p, s) /\ (s = "initialize" => Stage(p) = "bootstrap") /\ exclusive' = p
    BY <1>1 DEF TakeExclusive
  <2>2. exclusive = NoProc /\ shared = {} /\ UNCHANGED shared
        /\ Stage(p) \in {"recover_lease", "restore", "bootstrap"}
    BY <1>1 DEF TakeExclusive, ExclusiveFree
  <2> QED
    BY <1>0, <2>1, <2>2, QuietGoes
<1>2. CASE \/ TakeShared(p, "share", "check") \/ TakeShared(p, "bootstrap_share", "check")
           \/ TakeShared(p, "backup", "check")
  <2>1. /\ Goto(p, "check") /\ exclusive = NoProc /\ UNCHANGED exclusive
        /\ shared' = shared \cup {p} /\ Stage(p) \in {"share", "bootstrap_share", "backup"}
    BY <1>2 DEF TakeShared, SharedFree
  <2> QED
    BY <1>0, <2>1, QuietGoes
<1>3. CASE TakeShared(p, "downgrading", "running")
  <2>1. /\ Goto(p, "running") /\ exclusive = NoProc /\ UNCHANGED exclusive
        /\ shared' = shared \cup {p} /\ Stage(p) = "downgrading"
    BY <1>3 DEF TakeShared, SharedFree
  <2>2. "lease slipped" \in lapses
    BY <2>1 DEF HomeInv, Locks
  <2> QED
    BY <1>0, <2>1, <2>2, QuietGoes
<1> QED
  BY <1>1, <1>2, <1>3

\* The check under a shared lease lets in to a workspace that is current.
LEMMA ChecksKeeps ==
  ASSUME HomeInv, NEW p \in Procs, UNCHANGED history, Checks(p)
  PROVE  HomeInv'
<1> USE DEF UnderExclusive, Opens, Moves, Stages, First, At
<1>0. Contents' /\ UNCHANGED <<published, inhabited, withRuns, bundleManifest, lapses>>
      /\ UNCHANGED files /\ task' \in [Procs -> {"open", "backup", "restore"}]
  BY SameContents DEF HomeInv, history, Checks, Locks
<1>1. Stage(p) = "check"
  BY DEF Checks
<1>2. CASE Current
  <2>1. PICK s \in {"running", "reading"} : Goto(p, s)
    BY <1>2 DEF Checks
  <2>2. UNCHANGED lock
    BY <1>2 DEF Checks
  <2> QED
    BY <1>0, <1>1, <1>2, <2>1, <2>2, QuietGoes
<1>3. CASE ~Current
  <2>1. Goto(p, "idle") /\ Release(p)
    BY <1>3 DEF Checks
  <2> QED
    BY <1>0, <1>1, <2>1, QuietGoes
<1> QED
  BY <1>2, <1>3

\* Who holds the lock, and what the files are like under it.
LEMMA OwnerIs ==
  ASSUME HomeInv, NEW p \in Procs, NEW r \in UnderExclusive, Stage(p) = r
  PROVE  /\ exclusive = p /\ p # NoProc /\ shared = {}
         /\ \A t : Fits(t) => OwnerFits(t, r, pc[p][2])
<1>1. exclusive = p /\ p # NoProc /\ shared = {}
  BY StorageAssumption DEF HomeInv, Locks
<1> QED
  BY <1>1 DEF Fits

\* A tree is what its parts are.
LEMMA SameTree ==
  ASSUME NEW tree \in [Parts -> Content], NEW t \in OneTree,
         tree["db"] = t["db"], tree["runs"] = t["runs"], tree["manifest"] = t["manifest"]
  PROVE  tree = t
<1>1. tree = [f \in Parts |-> tree[f]] /\ t = [f \in Parts |-> t[f]]
  BY DEF OneTree
<1>2. \A f \in Parts : tree[f] = t[f]
  BY DEF Parts
<1> QED
  BY <1>1, <1>2

\* And it is empty when they all are.
LEMMA NoTree ==
  ASSUME NEW tree \in [Parts -> Content],
         tree["db"] = "none", tree["runs"] = "none", tree["manifest"] = "none"
  PROVE  tree = Empty
<1>1. tree = [f \in Parts |-> tree[f]]
  OBVIOUS
<1>2. \A f \in Parts : tree[f] = "none"
  BY DEF Parts
<1> QED
  BY <1>1, <1>2 DEF Empty

\* Every part in its place: the old tree, and nothing aside.
LEMMA AllParts ==
  ASSUME Contents, NEW t \in OneTree, InPlace(t, "db"), InPlace(t, "runs"), InPlace(t, "manifest")
  PROVE  place = t /\ aside = Empty
BY SameTree, NoTree DEF Contents, InPlace

\* Wherever a restore or a recovery stops, but inside an undo.
LEMMA StopLeaves ==
  ASSUME HomeInv, NEW p \in Procs, Stage(p) \in Moves \ {"undo"},
         NEW t \in OneTree, Whole(t), Fits(t)
  PROVE  marker.pending /\ Left(t)
<1>0. PICK r \in Moves \ {"undo"} : r = Stage(p)
  OBVIOUS
<1>1. PICK i \in 1 .. 3 : pc[p] = <<r, i>>
  BY <1>0, WhereIs DEF HomeInv
<1>2. OwnerFits(t, r, i) /\ marker.pending
  <2>1. r \in UnderExclusive
    BY DEF Moves, UnderExclusive
  <2>2. OwnerFits(t, r, pc[p][2])
    BY <1>0, <2>1, OwnerIs
  <2> QED
    BY <1>1, <2>2 DEF OwnerFits
<1>3. Contents /\ Locks /\ "db" \in Parts /\ "runs" \in Parts /\ "manifest" \in Parts
  BY DEF HomeInv, Parts
<1>4. \A f \in Parts : f \in {"db", "runs", "manifest"}
  BY DEF Parts
<1>5. CASE r = "move"
  <2>1. Moving(t, i)
    BY <1>2, <1>5 DEF OwnerFits
  <2>2. \A f \in Parts : InPlace(t, f) \/ aside[f] = t[f]
    BY <1>4, <2>1 DEF Moving, Aside
  <2>3. CASE i = 1
    <3>1. AllInPlace(t)
      BY <1>3, <2>1, <2>3, AllParts DEF Moving, AllInPlace
    <3> QED
      BY <1>2, <2>1, <2>2, <3>1 DEF Left, Moving
  <2>4. CASE i # 1
    <3>1. ~NewComplete
      BY <2>1, <2>4 DEF Moving, Aside, NewComplete, Exists
    <3> QED
      BY <1>2, <2>1, <2>2, <3>1 DEF Left, Moving
  <2> QED
    BY <1>2, <2>3, <2>4
<1>6. CASE r = "publish"
  <2>1. Publishing(t, i)
    BY <1>2, <1>6 DEF OwnerFits
  <2>2. \A f \in Parts : InPlace(t, f) \/ aside[f] = t[f]
    BY <1>4, <2>1 DEF Publishing, Aside, Covered
  <2>3. NewComplete => i = 3
    BY <2>1 DEF Publishing, Aside, NewComplete, Exists
  <2>4. i = 3 /\ NewComplete => NewInPlace
    <3>1. place["manifest"] \in Trees \cup {"none"}
      BY <1>3, <2>1 DEF Publishing, Aside, InPlace, OneTree
    <3> QED
      BY <2>1, <3>1 DEF Publishing, Covered, NewInPlace, NewComplete
  <2> QED
    BY <1>2, <2>1, <2>2, <2>3, <2>4 DEF Left, Publishing
<1>7. ASSUME Published(t) PROVE NewInPlace
  <2>1. place["db"] = "bundle" /\ place["runs"] = "bundle"
    BY <1>7 DEF Published
  <2>2. CASE bundleManifest
    BY <1>7, <2>1, <2>2 DEF Published, NewInPlace, Trees, Exists
  <2>3. CASE ~bundleManifest
    <3>1. place["manifest"] = t["manifest"]
      BY <1>7, <2>3 DEF Published, InPlace
    <3>2. t["manifest"] \in Trees \cup {"none"}
      BY <1>3 DEF OneTree
    <3>3. "manifest" \in marker.had => t["manifest"] # "none"
      BY <1>7 DEF Published, Had
    <3> QED
      BY <2>1, <3>1, <3>2, <3>3 DEF NewInPlace, Exists
  <2> QED
    BY <2>2, <2>3
<1>8. CASE r \in {"discard", "restored"}
  <2>1. Published(t)
    BY <1>2, <1>8 DEF OwnerFits, Discarding
  <2> QED
    BY <1>2, <1>7, <2>1 DEF Left
<1>9. ASSUME AllInPlace(t) PROVE Left(t)
  <2>1. \A f \in Parts : InPlace(t, f)
    BY <1>9 DEF AllInPlace, InPlace, Empty
  <2> QED
    BY <1>9, <2>1 DEF Left, AllInPlace
<1>10. CASE r = "undone"
  BY <1>2, <1>9, <1>10 DEF OwnerFits, Undoes, Left
<1>11. CASE r = "drop"
  BY <1>2, <1>9, <1>11 DEF OwnerFits, Dropping, Left
<1>12. CASE r = "settled"
  BY <1>2, <1>9, <1>12 DEF OwnerFits, Settling, Left
<1>13. CASE r = "remove"
  BY <1>2, <1>13 DEF OwnerFits, Removing, Left
<1>14. CASE r = "put_back"
  <2>1. Returning(t, i)
    BY <1>2, <1>14 DEF OwnerFits
  <2>2. \A f \in Parts : InPlace(t, f) \/ aside[f] = t[f]
    BY <1>4, <2>1 DEF Returning, Aside
  <2>3. NewComplete => AllInPlace(t)
    <3> SUFFICES ASSUME NewComplete PROVE AllInPlace(t)
      OBVIOUS
    <3>1. i = 3 /\ InPlace(t, "db") /\ InPlace(t, "runs") /\ Aside(t, "manifest")
      BY <2>1 DEF Returning, Aside, NewComplete, Exists
    <3>2. "manifest" \notin marker.had
      BY <3>1 DEF Aside, NewComplete, Exists
    <3>3. t["manifest"] = "none"
      BY <1>3, <2>1, <3>2 DEF Returning, Had
    <3>4. InPlace(t, "manifest")
      BY <3>1, <3>3 DEF InPlace, Aside
    <3> QED
      BY <1>3, <2>1, <3>1, <3>4, AllParts DEF AllInPlace, Returning
  <2> QED
    BY <1>2, <2>1, <2>2, <2>3 DEF Left, Returning
<1> QED
  BY <1>5, <1>6, <1>8, <1>10, <1>11, <1>12, <1>13, <1>14 DEF Moves

\* The operation ends, or the process stops: whatever was under way is left.
LEMMA LeaveKeeps ==
  ASSUME HomeInv, NEW p \in Procs, Leave(p), Contents',
         UNCHANGED <<inhabited, withRuns, bundleManifest>>,
         \/ lapses' = lapses /\ Stage(p) # "undo"
         \/ lapses' = lapses \cup {"undo cut short"}
  PROVE  HomeInv'
<1>1. /\ Goto(p, "idle") /\ Release(p) /\ UNCHANGED <<files, published, inhabited, withRuns, bundleManifest>>
      /\ task' \in [Procs -> {"open", "backup", "restore"}]
  BY DEF Leave, HomeInv, Locks
<1>2. "idle" \in Stages \ Moves /\ "idle" \notin UnderExclusive \cup Opens /\ "idle" \notin First
  BY DEF Stages, Moves, UnderExclusive, Opens, First
<1>3. ASSUME lapses' \subseteq {"deletion cut short"}, Stage(p) \in Moves
      PROVE  /\ exclusive' = NoProc
             /\ \A t \in OneTree : Whole(t) /\ Fits(t) => Quiet(t)
  <2>1. Stage(p) # "undo"
    <3>1. "undo cut short" \notin lapses'
      BY <1>3
    <3> QED
      BY <3>1
  <2>2. exclusive = p
    BY <1>3, OwnerIs DEF Moves, UnderExclusive
  <2> QED
    BY <1>1, <1>3, <2>1, <2>2, StopLeaves DEF Release, Quiet
<1> QED
  BY <1>1, <1>2, <1>3, QuietGoes

\* The operations that end on their own.
LEMMA LeavesKeep ==
  ASSUME HomeInv, NEW p \in Procs, UNCHANGED history,
         \/ Refused(p) \/ (InUse(p) /\ Leave(p))
         \/ At(p, "restoring") /\ Exists("runs") /\ ~Exists("db") /\ Leave(p)
  PROVE  HomeInv'
<1>1. Leave(p) /\ Stage(p) # "undo"
  BY DEF Refused, InUse, At
<1>2. Contents'
  BY <1>1, SameContents DEF HomeInv, Leave
<1> QED
  BY <1>1, <1>2, LeaveKeeps DEF history

\* A stop at any stage, inside an undo at the price of a lapse.
LEMMA CrashKeeps ==
  ASSUME HomeInv, NEW p \in Procs, Crash(p)
  PROVE  HomeInv'
<1>1. Leave(p) /\ UNCHANGED <<inhabited, withRuns, bundleManifest, errors>>
  BY DEF Crash
<1>2. \/ lapses' = lapses /\ Stage(p) # "undo"
      \/ lapses' = lapses \cup {"undo cut short"}
  BY DEF Crash, At
<1>3. crashes' \in 0 .. MaxCrashes
  <2>1. MaxCrashes \in Nat /\ crashes \in 0 .. MaxCrashes /\ crashes < MaxCrashes
    BY StorageAssumption DEF Crash, HomeInv, Contents
  <2>2. crashes' = crashes + 1
    BY DEF Crash
  <2> QED
    BY <2>1, <2>2
<1>4. Contents'
  BY <1>1, <1>2, <1>3 DEF HomeInv, Contents, Leave, files, Lapses
<1> QED
  BY <1>1, <1>2, <1>4, LeaveKeeps

-----------------------------------------------------------------------------

\* A step of the holder to another of its stages.
LEMMA HolderKeeps ==
  ASSUME HomeInv, NEW p \in Procs, exclusive = p,
         NEW s \in Moves, NEW i \in 1 .. 3,
         pc' = [pc EXCEPT ![p] = <<s, i>>], i = 3 => ~Short(s),
         UNCHANGED <<lock, task, inhabited, bundleManifest>>, Contents',
         lapses' = lapses \/ \E x \in Lapses \ {"lease slipped"} : lapses' = lapses \cup {x},
         lapses' \subseteq {"deletion cut short"} =>
           \E t \in OneTree : Whole(t)' /\ OwnerFits(t, s, i)'
  PROVE  HomeInv'
<1>1. /\ s \in Stages /\ s \in UnderExclusive /\ s \notin {"running", "reading", "check"}
      /\ s \notin First /\ s # "downgrading"
  BY DEF Stages, UnderExclusive, Moves, First
<1>2. /\ exclusive' = p /\ UNCHANGED shared /\ shared = {} /\ p # NoProc
      /\ task' \in [Procs -> {"open", "backup", "restore"}]
  BY StorageAssumption DEF lock, HomeInv, Locks
<1>3. i = 3 => ~Short(s)'
  BY DEF Short
<1>4. lapses \subseteq lapses'
  OBVIOUS
<1>5. Locks'
  BY <1>1, <1>2, <1>3, <1>4, LocksKept DEF HomeInv
<1> QED
  BY <1>1, <1>2, <1>5, OwnerKeeps

\* A step of the holder that ends what it was doing and gives the lock up.
LEMMA HolderLeaves ==
  ASSUME HomeInv, NEW p \in Procs, exclusive = p,
         NEW s \in Stages \ (UnderExclusive \cup Opens \cup First), Goto(p, s), Release(p),
         UNCHANGED <<task, inhabited, bundleManifest, lapses>>, Contents',
         lapses \subseteq {"deletion cut short"} =>
           \E t \in OneTree : Whole(t)' /\ Quiet(t)'
  PROVE  HomeInv'
<1>1. pc' = [pc EXCEPT ![p] = <<s, 1>>]
  BY DEF Goto
<1>2. /\ s \notin Moves /\ s \notin UnderExclusive /\ s \notin {"running", "reading", "check"}
      /\ s \notin First /\ s # "downgrading"
  BY DEF UnderExclusive, Moves, First, Opens
<1>3. /\ exclusive' = NoProc /\ shared' = {} /\ UNCHANGED shared /\ p # NoProc
      /\ task' \in [Procs -> {"open", "backup", "restore"}]
  BY StorageAssumption DEF Release, HomeInv, Locks
<1>4. Locks'
  BY <1>1, <1>2, <1>3, OneIs, LocksKept DEF HomeInv
<1> QED
  BY <1>1, <1>2, <1>3, <1>4, OneIs, OwnerKeeps

\* What a place in a stage consists of.
LEMMA PairIs ==
  ASSUME NEW x, NEW r, NEW i, x = <<r, i>>
  PROVE  x[1] = r /\ x[2] = i
OBVIOUS

\* The old tree of the files that the holder works on.
LEMMA TreeIs ==
  ASSUME HomeInv, NEW p \in Procs, NEW r \in UnderExclusive, Stage(p) = r,
         lapses \subseteq {"deletion cut short"}
  PROVE  \E t \in OneTree, i \in 1 .. 3 :
           Whole(t) /\ pc[p] = <<r, i>> /\ OwnerFits(t, r, i)
<1>1. PICK i \in 1 .. 3 : pc[p] = <<r, i>>
  BY WhereIs DEF HomeInv
<1>2. PICK t \in OneTree : Whole(t) /\ Fits(t)
  BY DEF HomeInv, HomeKept
<1>3. OwnerFits(t, r, pc[p][2])
  BY <1>2, OwnerIs
<1>4. pc[p][2] = i
  BY <1>1, PairIs
<1> QED
  BY <1>1, <1>2, <1>3, <1>4

\* Recovery under the lease keeps what is whole: the new tree before the old.
LEMMA DecidesKeeps ==
  ASSUME HomeInv, NEW p \in Procs, UNCHANGED history, Decides(p)
  PROVE  HomeInv'
<1>1. /\ Stage(p) = "recovering" /\ "recovering" \in UnderExclusive /\ Contents'
      /\ UNCHANGED <<files, task, published>>
      /\ UNCHANGED <<inhabited, withRuns, bundleManifest, lapses>>
  BY SameContents DEF Decides, At, UnderExclusive, HomeInv, history
<1>2. exclusive = p /\ task[p] \in {"open", "backup", "restore"}
      /\ task' \in [Procs -> {"open", "backup", "restore"}]
  BY <1>1, OwnerIs DEF HomeInv, Locks
<1>3. CASE \E s \in {"open", "backup", "restore", "idle"} : Goto(p, s) /\ Release(p)
  <2>1. PICK s \in {"open", "backup", "restore", "idle"} : Goto(p, s) /\ Release(p)
    BY <1>3
  <2> QED
    BY <1>1, <1>2, <2>1, QuietGoes DEF Stages, Moves, UnderExclusive, Opens, First
<1>4. CASE \E s \in {"drop", "remove"} : /\ Goto(p, s) /\ marker.pending /\ UNCHANGED lock
                                         /\ s = "drop" => NewComplete
                                         /\ s = "remove" => ~NewComplete /\ OldComplete
  <2>1. PICK s \in {"drop", "remove"} : /\ Goto(p, s) /\ marker.pending /\ UNCHANGED lock
                                        /\ s = "drop" => NewComplete
                                        /\ s = "remove" => ~NewComplete /\ OldComplete
    BY <1>4
  <2>2. ASSUME lapses \subseteq {"deletion cut short"}
        PROVE  \E t \in OneTree : Whole(t) /\ OwnerFits(t, s, 1)
    <3>1. PICK t \in OneTree : Whole(t) /\ Left(t)
      <4>1. PICK t \in OneTree, i \in 1 .. 3 : Whole(t) /\ OwnerFits(t, "recovering", i)
        BY <1>1, <2>2, TreeIs
      <4>2. Left(t)
        BY <2>1, <4>1 DEF OwnerFits, Moves, Quiet
      <4> QED
        BY <4>1, <4>2
    <3>2. CASE s = "drop"
      <4>1. ~Spoiled
        BY <2>1, <3>2 DEF Spoiled, NewComplete, Exists
      <4>2. AllInPlace(t) \/ NewInPlace
        BY <2>1, <3>1, <3>2, <4>1 DEF Left
      <4> QED
        BY <2>1, <3>1, <3>2, <4>2 DEF OwnerFits, Dropping, Moves
    <3>3. CASE s = "remove"
      <4>1. ~Spoiled /\ ~NewInPlace
        BY <2>1, <3>3 DEF Spoiled, OldComplete, NewInPlace, NewComplete, Exists
      <4>2. marker.had = Had(t) /\ \A f \in Parts : InPlace(t, f) \/ aside[f] = t[f]
        BY <3>1, <4>1 DEF Left
      <4>3. \A f \in Parts : aside[f] = t[f]
        BY <2>1, <3>3, <4>2 DEF OldComplete, Had, InPlace
      <4> QED
        BY <2>1, <3>1, <3>3, <4>2, <4>3 DEF OwnerFits, Removing, Moves
    <3> QED
      BY <2>1, <3>2, <3>3
  <2>3. ASSUME lapses \subseteq {"deletion cut short"}
        PROVE  \E t \in OneTree : Whole(t)' /\ OwnerFits(t, s, 1)'
    <3>1. PICK t \in OneTree : Whole(t) /\ OwnerFits(t, s, 1)
      BY <2>2, <2>3
    <3>2. UNCHANGED <<place, aside, marker, published, bundleManifest, lapses>>
      BY <1>1 DEF files
    <3> QED
      BY <1>1, <3>1, <3>2, SameShapes DEF Whole
  <2>4. pc' = [pc EXCEPT ![p] = <<s, 1>>] /\ s \in Moves
    BY <2>1 DEF Goto, Moves
  <2> QED
    BY <1>1, <1>2, <2>1, <2>3, <2>4, OneIs, HolderKeeps
<1> QED
  BY <1>2, <1>3, <1>4 DEF Decides

\* A part is deleted, or put in a tree.
LEMMA RemoveIs ==
  ASSUME NEW tree \in [Parts -> Content], NEW f \in Parts
  PROVE  /\ Remove(tree, f) \in [Parts -> Content]
         /\ Remove(tree, f)[f] = "none"
         /\ \A g \in Parts \ {f} : Remove(tree, f)[g] = tree[g]
BY DEF Remove, Content

\* And the same of what a part is replaced by.
LEMMA ReplaceIs ==
  ASSUME NEW tree \in [Parts -> Content], NEW f \in Parts, NEW c \in Content
  PROVE  /\ Replace(tree, f, c) \in [Parts -> Content]
         /\ Replace(tree, f, c)[f] = c
         /\ \A g \in Parts \ {f} : Replace(tree, f, c)[g] = tree[g]
BY DEF Replace

\* The part that a stage is at, and the step to the next one.
LEMMA WorkIs ==
  ASSUME HomeInv, NEW p \in Procs, NEW r \in Moves, Stage(p) = r
  PROVE  /\ exclusive = p
         /\ \E i \in 1 .. 3, f \in Parts :
              /\ pc[p] = <<r, i>> /\ f = Part(p) /\ (Short(r) => i # 3)
              /\ r # "undo" => f = IF i = 1 THEN "db" ELSE IF i = 2 THEN "runs" ELSE "manifest"
              /\ r = "undo" => f = IF i = 1 THEN "runs" ELSE IF i = 2 THEN "db" ELSE "manifest"
<1>1. r \in UnderExclusive /\ r \in Stages
  BY DEF Moves, UnderExclusive, Stages
<1>2. PICK i \in 1 .. 3 : pc[p] = <<r, i>>
  BY <1>1, WhereIs DEF HomeInv
<1>3. Part(p) \in Parts
  BY <1>1, <1>2, PartIs DEF HomeInv, Parts
<1>4. exclusive = p
  BY <1>1, OwnerIs
<1> QED
  BY <1>1, <1>2, <1>3, <1>4, PartIs DEF HomeInv

\* The place of the holder after a step to the next part.
LEMMA GoesOn ==
  ASSUME HomeInv, NEW p \in Procs, NEW r \in Moves, NEW i \in 1 .. 3, pc[p] = <<r, i>>,
         NEW next \in Moves \ {r}, Advance(p, next)
  PROVE  \E s \in {r, next}, j \in 1 .. 3 :
           /\ pc' = [pc EXCEPT ![p] = <<s, j>>] /\ s \in Moves /\ (j = 3 => ~Short(s))
           /\ s = r => j = i + 1 /\ i # 3
           /\ s = next => j = 1 /\ (i = 3 \/ (i = 2 /\ Short(r)))
<1>1. r \in Stages /\ next \in Stages
  BY DEF Moves, Stages
<1>2. pc' = [pc EXCEPT ![p] = IF i = 1 \/ (i = 2 /\ ~Short(r)) THEN <<r, i + 1>>
                              ELSE <<next, 1>>]
  BY <1>1, AdvanceIs DEF HomeInv
<1>3. Short(r) => i # 3
  BY <1>1, PartIs DEF HomeInv
<1>4. CASE i = 1 \/ (i = 2 /\ ~Short(r))
  <2>1. pc' = [pc EXCEPT ![p] = <<r, i + 1>>]
    BY <1>2, <1>4
  <2>2. PICK j \in 1 .. 3 : j = i + 1 /\ i # 3 /\ (j = 3 => ~Short(r))
    BY <1>4
  <2> QED
    BY <2>1, <2>2
<1>5. CASE i = 3 \/ (i = 2 /\ Short(r))
  <2>0. ~(i = 1 \/ (i = 2 /\ ~Short(r)))
    BY <1>5
  <2>1. pc' = [pc EXCEPT ![p] = <<next, 1>>]
    BY <1>2, <2>0
  <2> QED
    BY <1>5, <2>1, OneIs
<1> QED
  BY <1>4, <1>5

\* The new tree stays in place whatever is deleted of the old one.
LEMMA DropKeeps ==
  ASSUME HomeInv, NEW p \in Procs, UNCHANGED history, Drop(p)
  PROVE  HomeInv'
<1>1. Stage(p) = "drop" /\ "drop" \in UnderExclusive /\ "drop" \in Moves
      /\ "settled" \in Moves \ {"drop"} /\ ~Short("drop")
  BY DEF Drop, At, UnderExclusive, Moves, Short
<1>2. exclusive = p
  BY <1>1, WorkIs
<1>3. PICK i \in 1 .. 3, f \in Parts :
        /\ pc[p] = <<"drop", i>> /\ f = Part(p)
        /\ f = IF i = 1 THEN "db" ELSE IF i = 2 THEN "runs" ELSE "manifest"
  BY <1>1, WorkIs
<1>5. PICK s \in {"drop", "settled"}, j \in 1 .. 3 :
        /\ pc' = [pc EXCEPT ![p] = <<s, j>>] /\ s \in Moves /\ (j = 3 => ~Short(s))
        /\ s = "drop" => j = i + 1 /\ i # 3
        /\ s = "settled" => j = 1 /\ (i = 3 \/ (i = 2 /\ Short("drop")))
  BY <1>1, <1>3, GoesOn DEF Drop
<1>6. /\ aside' = Remove(aside, f) /\ UNCHANGED <<place, marker, lock, task, published>>
      /\ UNCHANGED <<bundleManifest, inhabited, withRuns, lapses, crashes, errors>>
  BY <1>3 DEF Drop, history
<1>7. /\ aside' \in [Parts -> Content] /\ aside'[f] = "none"
      /\ \A g \in Parts \ {f} : aside'[g] = aside[g]
  BY <1>6, RemoveIs DEF HomeInv, Contents
<1>8. Contents'
  <2>1. aside'["db"] # "torn"
    BY <1>7 DEF HomeInv, Contents, Parts
  <2> QED
    BY <1>6, <1>7, <2>1 DEF HomeInv, Contents
<1>9. ASSUME lapses' \subseteq {"deletion cut short"}
      PROVE  \E t \in OneTree : Whole(t)' /\ OwnerFits(t, s, j)'
  <2>1. PICK t \in OneTree, k \in 1 .. 3 :
          Whole(t) /\ pc[p] = <<"drop", k>> /\ OwnerFits(t, "drop", k)
    BY <1>1, <1>6, <1>9, TreeIs
  <2>2. k = i
    BY <1>3, <2>1, PairIs
  <2>3. Dropping(t, i) /\ marker.pending
    BY <2>1, <2>2 DEF OwnerFits, Moves
  <2>4. AllInPlace(t)' \/ NewInPlace'
    <3>1. CASE AllInPlace(t)
      <4>1. \A g \in Parts : aside'[g] = "none"
        BY <1>7, <3>1 DEF AllInPlace, Empty
      <4>2. aside' = Empty
        BY <1>7, <4>1 DEF Empty
      <4> QED
        BY <1>6, <3>1, <4>2 DEF AllInPlace
    <3>2. CASE NewInPlace
      BY <1>6, <3>2 DEF NewInPlace, Exists
    <3> QED
      BY <2>3, <3>1, <3>2 DEF Dropping
  <2>5. CASE s = "drop"
    <3>1. aside'["db"] = "none" /\ (j = 3 => aside'["runs"] = "none")
      BY <1>3, <1>5, <1>7, <2>3, <2>5 DEF Dropping, Parts
    <3>2. Dropping(t, j)'
      BY <2>4, <3>1 DEF Dropping
    <3> QED
      BY <1>6, <2>1, <2>3, <2>5, <3>2 DEF Whole, OwnerFits, Moves
  <2>6. CASE s = "settled"
    <3>1. \A g \in Parts : aside'[g] = "none"
      BY <1>1, <1>3, <1>5, <1>7, <2>3, <2>6 DEF Dropping, Parts
    <3>2. aside' = Empty
      BY <1>7, <3>1 DEF Empty
    <3> QED
      BY <1>6, <2>1, <2>3, <2>4, <2>6, <3>2 DEF Whole, OwnerFits, Moves, Settling
  <2> QED
    BY <2>5, <2>6
<1> QED
  BY <1>2, <1>5, <1>6, <1>8, <1>9, HolderKeeps

\* Recovery gives up the new tree part by part: the old one is aside as a whole.
LEMMA RemoveNewKeeps ==
  ASSUME HomeInv, NEW p \in Procs, UNCHANGED history, RemoveNew(p)
  PROVE  HomeInv'
<1>1. Stage(p) = "remove" /\ "remove" \in UnderExclusive /\ "remove" \in Moves
      /\ "put_back" \in Moves \ {"remove"} /\ ~Short("remove")
  BY DEF RemoveNew, At, UnderExclusive, Moves, Short
<1>2. exclusive = p
  BY <1>1, WorkIs
<1>3. PICK i \in 1 .. 3, f \in Parts :
        /\ pc[p] = <<"remove", i>> /\ f = Part(p)
        /\ f = IF i = 1 THEN "db" ELSE IF i = 2 THEN "runs" ELSE "manifest"
  BY <1>1, WorkIs
<1>5. PICK s \in {"remove", "put_back"}, j \in 1 .. 3 :
        /\ pc' = [pc EXCEPT ![p] = <<s, j>>] /\ s \in Moves /\ (j = 3 => ~Short(s))
        /\ s = "remove" => j = i + 1 /\ i # 3
        /\ s = "put_back" => j = 1 /\ (i = 3 \/ (i = 2 /\ Short("remove")))
  BY <1>1, <1>3, GoesOn DEF RemoveNew
<1>6. /\ place' = Remove(place, f) /\ UNCHANGED <<aside, marker, lock, task, published>>
      /\ UNCHANGED <<bundleManifest, inhabited, withRuns, lapses, crashes, errors>>
  BY <1>3 DEF RemoveNew, history
<1>7. /\ place' \in [Parts -> Content] /\ place'[f] = "none"
      /\ \A g \in Parts \ {f} : place'[g] = place[g]
  BY <1>6, RemoveIs DEF HomeInv, Contents
<1>8. Contents'
  <2>1. place'["db"] # "torn"
    BY <1>7 DEF HomeInv, Contents, Parts
  <2> QED
    BY <1>6, <1>7, <2>1 DEF HomeInv, Contents
<1>9. ASSUME lapses' \subseteq {"deletion cut short"}
      PROVE  \E t \in OneTree : Whole(t)' /\ OwnerFits(t, s, j)'
  <2>1. PICK t \in OneTree, k \in 1 .. 3 :
          Whole(t) /\ pc[p] = <<"remove", k>> /\ OwnerFits(t, "remove", k)
    BY <1>1, <1>6, <1>9, TreeIs
  <2>2. k = i
    BY <1>3, <2>1, PairIs
  <2>3. Removing(t, i) /\ marker.pending
    BY <2>1, <2>2 DEF OwnerFits, Moves
  <2>4. Whole(t)' /\ marker'.pending /\ marker'.had = Had(t) /\ \A g \in Parts : aside'[g] = t[g]
    BY <1>6, <2>1, <2>3 DEF Whole, Removing
  <2>5. ~NewComplete'
    <3>1. \A g \in Parts : place'[g] # "none" => place[g] # "none"
      BY <1>7
    <3> QED
      BY <1>6, <2>3, <3>1 DEF Removing, NewComplete, Exists, Parts
  <2>6. i # 1 => place'["db"] = "none"
    BY <1>3, <1>7, <2>3 DEF Removing, Parts
  <2>7. /\ i = 1 => place'["db"] = "none"
        /\ i = 2 => place'["runs"] = "none"
        /\ i = 3 => place'["manifest"] = "none" /\ place'["runs"] = "none"
    BY <1>3, <1>7, <2>3 DEF Removing, Parts
  <2>8. CASE s = "remove"
    <3>1. Removing(t, j)'
      BY <1>5, <2>4, <2>5, <2>6, <2>7, <2>8 DEF Removing
    <3> QED
      BY <2>4, <2>8, <3>1 DEF OwnerFits, Moves
  <2>9. CASE s = "put_back"
    <3>1. i = 3 /\ j = 1
      BY <1>1, <1>5, <2>9
    <3>2. \A g \in Parts : Aside(t, g)'
      BY <2>4, <2>6, <2>7, <3>1 DEF Aside, Parts
    <3>3. Returning(t, j)'
      BY <2>4, <3>1, <3>2 DEF Returning, Parts
    <3> QED
      BY <2>4, <2>9, <3>3 DEF OwnerFits, Moves
  <2> QED
    BY <2>8, <2>9
<1> QED
  BY <1>2, <1>5, <1>6, <1>8, <1>9, HolderKeeps

\* And the old one comes back part by part.
LEMMA PutBackKeeps ==
  ASSUME HomeInv, NEW p \in Procs, UNCHANGED history, PutBack(p)
  PROVE  HomeInv'
<1>1. Stage(p) = "put_back" /\ "put_back" \in UnderExclusive /\ "put_back" \in Moves
      /\ "settled" \in Moves \ {"put_back"} /\ ~Short("put_back")
  BY DEF PutBack, At, UnderExclusive, Moves, Short
<1>2. exclusive = p
  BY <1>1, WorkIs
<1>3. PICK i \in 1 .. 3, f \in Parts :
        /\ pc[p] = <<"put_back", i>> /\ f = Part(p)
        /\ f = IF i = 1 THEN "db" ELSE IF i = 2 THEN "runs" ELSE "manifest"
  BY <1>1, WorkIs
<1>5. PICK s \in {"put_back", "settled"}, j \in 1 .. 3 :
        /\ pc' = [pc EXCEPT ![p] = <<s, j>>] /\ s \in Moves /\ (j = 3 => ~Short(s))
        /\ s = "put_back" => j = i + 1 /\ i # 3
        /\ s = "settled" => j = 1 /\ (i = 3 \/ (i = 2 /\ Short("put_back")))
  BY <1>1, <1>3, GoesOn DEF PutBack
<1>6. /\ UNCHANGED <<marker, lock, task, published>>
      /\ UNCHANGED <<bundleManifest, inhabited, withRuns, lapses, crashes, errors>>
      /\ f \in marker.had => place' = Replace(place, f, aside[f]) /\ aside' = Remove(aside, f)
      /\ f \notin marker.had => UNCHANGED <<place, aside>>
  BY <1>3 DEF PutBack, history
<1>7. /\ place' \in [Parts -> Content] /\ aside' \in [Parts -> Content]
      /\ \A g \in Parts \ {f} : place'[g] = place[g] /\ aside'[g] = aside[g]
      /\ IF f \in marker.had THEN place'[f] = aside[f] /\ aside'[f] = "none"
         ELSE place'[f] = place[f] /\ aside'[f] = aside[f]
  <2>1. place \in [Parts -> Content] /\ aside \in [Parts -> Content] /\ aside[f] \in Content
    BY DEF HomeInv, Contents
  <2>2. CASE f \in marker.had
    <3>1. /\ place' \in [Parts -> Content] /\ place'[f] = aside[f]
          /\ \A g \in Parts \ {f} : place'[g] = place[g]
      <4>1. PICK c \in Content : c = aside[f]
        BY <2>1
      <4>2. place' = Replace(place, f, c)
        BY <1>6, <2>2, <4>1
      <4>3. /\ Replace(place, f, c) \in [Parts -> Content] /\ Replace(place, f, c)[f] = c
            /\ \A g \in Parts \ {f} : Replace(place, f, c)[g] = place[g]
        BY <2>1 DEF Replace
      <4> QED
        BY <4>1, <4>2, <4>3
    <3>2. /\ aside' \in [Parts -> Content] /\ aside'[f] = "none"
          /\ \A g \in Parts \ {f} : aside'[g] = aside[g]
      <4>1. aside' = Remove(aside, f)
        BY <1>6, <2>2
      <4> QED
        BY <2>1, <4>1, RemoveIs
    <3> QED
      BY <2>2, <3>1, <3>2
  <2>3. CASE f \notin marker.had
    BY <1>6, <2>1, <2>3
  <2> QED
    BY <2>2, <2>3
<1>8. Contents'
  <2>1. place'["db"] # "torn" /\ aside'["db"] # "torn"
    BY <1>7 DEF HomeInv, Contents, Parts
  <2> QED
    BY <1>6, <1>7, <2>1 DEF HomeInv, Contents
<1>9. ASSUME lapses' \subseteq {"deletion cut short"}
      PROVE  \E t \in OneTree : Whole(t)' /\ OwnerFits(t, s, j)'
  <2>1. PICK t \in OneTree, k \in 1 .. 3 :
          Whole(t) /\ pc[p] = <<"put_back", k>> /\ OwnerFits(t, "put_back", k)
    BY <1>1, <1>6, <1>9, TreeIs
  <2>2. k = i
    BY <1>3, <2>1, PairIs
  <2>3. Returning(t, i) /\ marker.pending
    BY <2>1, <2>2 DEF OwnerFits, Moves
  <2>4. Whole(t)' /\ marker'.pending /\ marker'.had = Had(t)
    BY <1>6, <2>1, <2>3 DEF Whole, Returning
  <2>5. InPlace(t, f)'
    <3>1. Aside(t, f)
      BY <1>3, <2>3 DEF Returning
    <3>2. f \notin marker.had => t[f] = "none"
      BY <2>3 DEF Returning, Had
    <3> QED
      BY <1>7, <3>1, <3>2 DEF InPlace, Aside
  <2>6. \A g \in Parts \ {f} : /\ InPlace(t, g) => InPlace(t, g)'
                               /\ Aside(t, g) => Aside(t, g)'
    BY <1>7 DEF InPlace, Aside
  <2>7. "db" \in Parts /\ "runs" \in Parts /\ "manifest" \in Parts
    BY DEF Parts
  <2>8. CASE s = "put_back"
    <3>1. Returning(t, j)'
      BY <1>3, <1>5, <2>3, <2>4, <2>5, <2>6, <2>7, <2>8 DEF Returning
    <3> QED
      BY <2>4, <2>8, <3>1 DEF OwnerFits, Moves
  <2>9. CASE s = "settled"
    <3>1. i = 3 /\ j = 1
      BY <1>1, <1>5, <2>9
    <3>2. InPlace(t, "db")' /\ InPlace(t, "runs")' /\ InPlace(t, "manifest")'
      BY <1>3, <2>3, <2>5, <2>6, <2>7, <3>1 DEF Returning
    <3>3. place' = t /\ aside' = Empty
      BY <1>7, <3>2, SameTree, NoTree DEF InPlace
    <3> QED
      BY <2>4, <2>9, <3>3 DEF OwnerFits, Moves, Settling, AllInPlace
  <2> QED
    BY <2>8, <2>9
<1> QED
  BY <1>2, <1>5, <1>6, <1>8, <1>9, HolderKeeps

\* The marker goes: what is in place is the tree of the home.
LEMMA SettledKeeps ==
  ASSUME HomeInv, NEW p \in Procs, UNCHANGED history, Settled(p)
  PROVE  HomeInv'
<1>1. Stage(p) = "settled" /\ "settled" \in UnderExclusive /\ exclusive = p
  BY OwnerIs DEF Settled, At, UnderExclusive
<1>2. /\ UNCHANGED <<place, aside, task, published>> /\ marker' = NoMarker /\ Release(p)
      /\ UNCHANGED <<bundleManifest, inhabited, withRuns, lapses, crashes, errors>>
  BY DEF Settled, history
<1>3. PICK s \in {"open", "backup", "restore"} : Goto(p, s)
  BY DEF Settled, HomeInv, Locks
<1>4. Contents'
  BY <1>2 DEF HomeInv, Contents, NoMarker
<1>5. ASSUME lapses \subseteq {"deletion cut short"}
      PROVE  \E t \in OneTree : Whole(t)' /\ Quiet(t)'
  <2>1. PICK t \in OneTree, k \in 1 .. 3 :
          Whole(t) /\ pc[p] = <<"settled", k>> /\ OwnerFits(t, "settled", k)
    BY <1>1, <1>5, TreeIs
  <2>2. Settling(t)
    BY <2>1 DEF OwnerFits
  <2>3. CASE AllInPlace(t)
    BY <1>2, <2>1, <2>2, <2>3 DEF Settling, AllInPlace, Whole, Quiet, NoMarker
  <2>4. CASE NewInPlace
    <3>1. PICK n : n = place
      OBVIOUS
    <3>2. n \in OneTree
      BY <2>4, <3>1 DEF HomeInv, Contents, OneTree, NewInPlace, Parts, Trees
    <3>3. Whole(n)
      BY <2>4, <3>1 DEF Whole, NewInPlace, HomeInv, Contents
    <3> QED
      BY <1>2, <2>2, <3>1, <3>2, <3>3 DEF Whole, Quiet, Settling, NoMarker
  <2> QED
    BY <2>2, <2>3, <2>4 DEF Settling
<1>6. s \in Stages \ (UnderExclusive \cup Opens \cup First)
  BY DEF Stages, UnderExclusive, Opens, First
<1> QED
  BY <1>1, <1>2, <1>3, <1>4, <1>5, <1>6, HolderLeaves

\* A restore writes its marker: everything is where it was.
LEMMA WriteMarkerKeeps ==
  ASSUME HomeInv, NEW p \in Procs, WriteMarker(p),
         UNCHANGED <<bundleManifest, inhabited, withRuns, crashes, errors>>
  PROVE  HomeInv'
<1>1. Stage(p) = "restoring" /\ "restoring" \in UnderExclusive /\ exclusive = p
  BY OwnerIs DEF WriteMarker, At, UnderExclusive
<1>2. /\ marker' = [pending |-> TRUE, had |-> {f \in Parts : Exists(f)}]
      /\ aside' = Empty /\ published' = {} /\ UNCHANGED <<place, lock, task>>
      /\ lapses' = IF marker.pending THEN lapses \cup {"marker overtaken"} ELSE lapses
      /\ pc' = [pc EXCEPT ![p] = <<"move", 1>>]
  BY DEF WriteMarker, Goto
<1>3. Contents'
  BY <1>2 DEF HomeInv, Contents, Empty, Content, Parts, Lapses
<1>4. ASSUME lapses' \subseteq {"deletion cut short"}
      PROVE  \E t \in OneTree : Whole(t)' /\ OwnerFits(t, "move", 1)'
  <2>1. ~marker.pending /\ lapses' = lapses
    BY <1>2, <1>4
  <2>2. PICK t \in OneTree, k \in 1 .. 3 :
          Whole(t) /\ pc[p] = <<"restoring", k>> /\ OwnerFits(t, "restoring", k)
    BY <1>1, <1>4, <2>1, TreeIs
  <2>3. place = t
    BY <2>1, <2>2 DEF OwnerFits, Moves, Quiet
  <2>4. marker'.pending /\ marker'.had = Had(t)
    BY <1>2, <2>3 DEF Had, Exists
  <2>5. \A f \in Parts : InPlace(t, f)'
    BY <1>2, <2>3 DEF InPlace, Empty
  <2>6. Moving(t, 1)'
    BY <1>2, <2>4, <2>5 DEF Moving, Parts
  <2> QED
    BY <2>1, <2>2, <2>4, <2>6 DEF Whole, OwnerFits, Moves
<1>5. "move" \in Moves
  BY DEF Moves
<1>6. lapses' = lapses \/ \E x \in Lapses \ {"lease slipped"} : lapses' = lapses \cup {x}
  BY <1>2 DEF Lapses
<1> QED
  BY <1>1, <1>2, <1>3, <1>4, <1>5, <1>6, OneIs, HolderKeeps

\* A part of the old tree is moved aside.
LEMMA MoveAsideKeeps ==
  ASSUME HomeInv, NEW p \in Procs, UNCHANGED history, MoveAside(p)
  PROVE  HomeInv'
<1>1. Stage(p) = "move" /\ "move" \in UnderExclusive /\ "move" \in Moves
      /\ "publish" \in Moves \ {"move"} /\ (Short("move") <=> ~bundleManifest)
      /\ (Short("publish") <=> ~bundleManifest)
  BY DEF MoveAside, At, UnderExclusive, Moves, Short
<1>2. exclusive = p
  BY <1>1, WorkIs
<1>3. PICK i \in 1 .. 3, f \in Parts :
        /\ pc[p] = <<"move", i>> /\ f = Part(p) /\ (Short("move") => i # 3)
        /\ f = IF i = 1 THEN "db" ELSE IF i = 2 THEN "runs" ELSE "manifest"
  BY <1>1, WorkIs
<1>5. PICK s \in {"move", "publish"}, j \in 1 .. 3 :
        /\ pc' = [pc EXCEPT ![p] = <<s, j>>] /\ s \in Moves /\ (j = 3 => ~Short(s))
        /\ s = "move" => j = i + 1 /\ i # 3
        /\ s = "publish" => j = 1 /\ (i = 3 \/ (i = 2 /\ Short("move")))
  BY <1>1, <1>3, GoesOn DEF MoveAside
<1>6. /\ UNCHANGED <<marker, lock, task, published>>
      /\ UNCHANGED <<bundleManifest, inhabited, withRuns, lapses, crashes, errors>>
      /\ Exists(f) => place' = Remove(place, f) /\ aside' = Replace(aside, f, place[f])
      /\ ~Exists(f) => UNCHANGED <<place, aside>>
  BY <1>3 DEF MoveAside, history
<1>7. /\ place' \in [Parts -> Content] /\ aside' \in [Parts -> Content]
      /\ \A g \in Parts \ {f} : place'[g] = place[g] /\ aside'[g] = aside[g]
      /\ place'[f] = "none"
      /\ aside'[f] = IF place[f] # "none" THEN place[f] ELSE aside[f]
  <2>1. place \in [Parts -> Content] /\ aside \in [Parts -> Content] /\ place[f] \in Content
    BY DEF HomeInv, Contents
  <2>2. CASE Exists(f)
    <3>1. /\ place' \in [Parts -> Content] /\ place'[f] = "none"
          /\ \A g \in Parts \ {f} : place'[g] = place[g]
      <4>1. place' = Remove(place, f)
        BY <1>6, <2>2
      <4> QED
        BY <2>1, <4>1, RemoveIs
    <3>2. /\ aside' \in [Parts -> Content] /\ aside'[f] = place[f]
          /\ \A g \in Parts \ {f} : aside'[g] = aside[g]
      <4>1. PICK c \in Content : c = place[f]
        BY <2>1
      <4>2. aside' = Replace(aside, f, c)
        BY <1>6, <2>2, <4>1
      <4>3. /\ Replace(aside, f, c) \in [Parts -> Content] /\ Replace(aside, f, c)[f] = c
            /\ \A g \in Parts \ {f} : Replace(aside, f, c)[g] = aside[g]
        BY <2>1 DEF Replace
      <4> QED
        BY <4>1, <4>2, <4>3
    <3> QED
      BY <2>2, <3>1, <3>2 DEF Exists
  <2>3. CASE ~Exists(f)
    BY <1>6, <2>1, <2>3 DEF Exists
  <2> QED
    BY <2>2, <2>3
<1>8. Contents'
  <2>1. place'["db"] # "torn" /\ aside'["db"] # "torn"
    BY <1>7 DEF HomeInv, Contents, Parts
  <2> QED
    BY <1>6, <1>7, <2>1 DEF HomeInv, Contents
<1>9. ASSUME lapses' \subseteq {"deletion cut short"}
      PROVE  \E t \in OneTree : Whole(t)' /\ OwnerFits(t, s, j)'
  <2>1. PICK t \in OneTree, k \in 1 .. 3 :
          Whole(t) /\ pc[p] = <<"move", k>> /\ OwnerFits(t, "move", k)
    BY <1>1, <1>6, <1>9, TreeIs
  <2>2. k = i
    BY <1>3, <2>1, PairIs
  <2>3. Moving(t, i) /\ marker.pending
    BY <2>1, <2>2 DEF OwnerFits, Moves
  <2>4. Whole(t)' /\ marker'.pending /\ marker'.had = Had(t) /\ published' = {}
    BY <1>6, <2>1, <2>3 DEF Whole, Moving
  <2>5. Aside(t, f)'
    <3>1. InPlace(t, f)
      BY <1>3, <2>3 DEF Moving
    <3> QED
      BY <1>7, <3>1 DEF InPlace, Aside
  <2>6. \A g \in Parts \ {f} : /\ InPlace(t, g) => InPlace(t, g)'
                               /\ Aside(t, g) => Aside(t, g)'
    BY <1>7 DEF InPlace, Aside
  <2>7. "db" \in Parts /\ "runs" \in Parts /\ "manifest" \in Parts
    BY DEF Parts
  <2>8. CASE s = "move"
    <3>1. Moving(t, j)'
      BY <1>3, <1>5, <2>3, <2>4, <2>5, <2>6, <2>7, <2>8 DEF Moving
    <3> QED
      BY <2>4, <2>8, <3>1 DEF OwnerFits, Moves
  <2>9. CASE s = "publish"
    <3>1. j = 1 /\ ((i = 3 /\ bundleManifest) \/ (i = 2 /\ ~bundleManifest))
      BY <1>1, <1>3, <1>5, <2>9
    <3>2. Aside(t, "db")' /\ Aside(t, "runs")'
      BY <1>3, <2>3, <2>5, <2>6, <2>7, <3>1 DEF Moving
    <3>3. IF bundleManifest THEN Aside(t, "manifest")' ELSE InPlace(t, "manifest")'
      BY <1>3, <2>3, <2>5, <2>6, <2>7, <3>1 DEF Moving
    <3>4. Publishing(t, j)'
      BY <1>6, <2>4, <3>1, <3>2, <3>3 DEF Publishing
    <3> QED
      BY <2>4, <2>9, <3>4 DEF OwnerFits, Moves
  <2> QED
    BY <2>8, <2>9
<1> QED
  BY <1>2, <1>5, <1>6, <1>8, <1>9, HolderKeeps

\* A staged part takes the place of the one that was moved aside.
LEMMA PublishKeeps ==
  ASSUME HomeInv, NEW p \in Procs, UNCHANGED history, Publish(p)
  PROVE  HomeInv'
<1>1. Stage(p) = "publish" /\ "publish" \in UnderExclusive /\ "publish" \in Moves
      /\ "discard" \in Moves \ {"publish"} /\ (Short("publish") <=> ~bundleManifest)
  BY DEF Publish, At, UnderExclusive, Moves, Short
<1>2. exclusive = p
  BY <1>1, WorkIs
<1>3. PICK i \in 1 .. 3, f \in Parts :
        /\ pc[p] = <<"publish", i>> /\ f = Part(p) /\ (Short("publish") => i # 3)
        /\ f = IF i = 1 THEN "db" ELSE IF i = 2 THEN "runs" ELSE "manifest"
  BY <1>1, WorkIs
<1>5. PICK s \in {"publish", "discard"}, j \in 1 .. 3 :
        /\ pc' = [pc EXCEPT ![p] = <<s, j>>] /\ s \in Moves /\ (j = 3 => ~Short(s))
        /\ s = "publish" => j = i + 1 /\ i # 3
        /\ s = "discard" => j = 1 /\ (i = 3 \/ (i = 2 /\ Short("publish")))
  BY <1>1, <1>3, GoesOn DEF Publish
<1>6. /\ UNCHANGED <<aside, marker, lock, task>>
      /\ UNCHANGED <<bundleManifest, inhabited, withRuns, lapses, crashes, errors>>
      /\ place' = Replace(place, f, "bundle") /\ published' = published \cup {f}
  BY <1>3 DEF Publish, history
<1>7. /\ place' \in [Parts -> Content] /\ place'[f] = "bundle"
      /\ \A g \in Parts \ {f} : place'[g] = place[g]
  BY <1>6, ReplaceIs DEF HomeInv, Contents, Content, Trees
<1>8. Contents'
  <2>1. place'["db"] # "torn"
    BY <1>7 DEF HomeInv, Contents, Parts
  <2> QED
    BY <1>6, <1>7, <2>1 DEF HomeInv, Contents
<1>9. ASSUME lapses' \subseteq {"deletion cut short"}
      PROVE  \E t \in OneTree : Whole(t)' /\ OwnerFits(t, s, j)'
  <2>1. PICK t \in OneTree, k \in 1 .. 3 :
          Whole(t) /\ pc[p] = <<"publish", k>> /\ OwnerFits(t, "publish", k)
    BY <1>1, <1>6, <1>9, TreeIs
  <2>2. k = i
    BY <1>3, <2>1, PairIs
  <2>3. Publishing(t, i) /\ marker.pending
    BY <2>1, <2>2 DEF OwnerFits, Moves
  <2>4. Whole(t)' /\ marker'.pending /\ marker'.had = Had(t)
    BY <1>6, <2>1, <2>3 DEF Whole, Publishing
  <2>5. Covered(t, f)'
    <3>1. Aside(t, f)
      BY <1>1, <1>3, <2>3 DEF Publishing
    <3> QED
      BY <1>6, <1>7, <3>1 DEF Covered, Aside
  <2>6. \A g \in Parts \ {f} : /\ InPlace(t, g) => InPlace(t, g)'
                               /\ Aside(t, g) => Aside(t, g)'
                               /\ Covered(t, g) => Covered(t, g)'
    BY <1>6, <1>7 DEF InPlace, Aside, Covered
  <2>7. "db" \in Parts /\ "runs" \in Parts /\ "manifest" \in Parts
    BY DEF Parts
  <2>8. CASE s = "publish"
    <3>1. (j = 2 /\ i = 1) \/ (j = 3 /\ i = 2 /\ bundleManifest)
      BY <1>1, <1>5, <2>8
    <3>2. Covered(t, "db")' /\ (IF j = 2 THEN Aside(t, "runs")' ELSE Covered(t, "runs")')
      BY <1>3, <2>3, <2>5, <2>6, <2>7, <3>1 DEF Publishing
    <3>3. IF bundleManifest THEN Aside(t, "manifest")' ELSE InPlace(t, "manifest")'
      BY <1>3, <2>3, <2>6, <2>7, <3>1 DEF Publishing
    <3>4. /\ "db" \in published' /\ ("runs" \in published' <=> j = 3)
          /\ "manifest" \notin published'
      BY <1>3, <1>6, <2>3, <3>1 DEF Publishing
    <3>5. Publishing(t, j)'
      BY <1>6, <2>4, <3>1, <3>2, <3>3, <3>4 DEF Publishing
    <3> QED
      BY <2>4, <2>8, <3>5 DEF OwnerFits, Moves
  <2>9. CASE s = "discard"
    <3>1. j = 1 /\ ((i = 3 /\ bundleManifest) \/ (i = 2 /\ ~bundleManifest))
      BY <1>1, <1>3, <1>5, <2>9
    <3>2. Covered(t, "db")' /\ Covered(t, "runs")'
      BY <1>3, <2>3, <2>5, <2>6, <2>7, <3>1 DEF Publishing
    <3>3. IF bundleManifest THEN Covered(t, "manifest")' ELSE InPlace(t, "manifest")'
      BY <1>3, <2>3, <2>5, <2>6, <2>7, <3>1 DEF Publishing
    <3>4. {"db", "runs"} \subseteq published' /\ ("manifest" \in published' <=> bundleManifest)
      BY <1>3, <1>6, <2>3, <3>1 DEF Publishing
    <3>5. \A g \in published' : Covered(t, g)'
      BY <1>8, <3>2, <3>3, <3>4 DEF Contents, Parts
    <3>6. t = Empty => aside' = Empty
      <4> SUFFICES ASSUME t = Empty PROVE aside' = Empty
        OBVIOUS
      <4>1. \A g \in Parts : t[g] = "none"
        BY DEF Empty
      <4>2. \A g \in Parts : aside'[g] = "none"
        BY <1>6, <2>7, <3>2, <3>3, <4>1 DEF Covered, InPlace, Parts
      <4> QED
        BY <1>8, <4>2, <2>7, NoTree DEF Contents
    <3>7. Discarding(t, j)'
      BY <1>6, <2>4, <3>1, <3>3, <3>4, <3>5, <3>6 DEF Discarding, Published, Covered
    <3> QED
      BY <2>4, <2>9, <3>7 DEF OwnerFits, Moves
  <2> QED
    BY <2>8, <2>9
<1> QED
  BY <1>2, <1>5, <1>6, <1>8, <1>9, HolderKeeps

\* The old database and run evidence go, the new ones are in place.
LEMMA DiscardKeeps ==
  ASSUME HomeInv, NEW p \in Procs, UNCHANGED history, Discard(p)
  PROVE  HomeInv'
<1>1. Stage(p) = "discard" /\ "discard" \in UnderExclusive /\ "discard" \in Moves
      /\ "restored" \in Moves \ {"discard"} /\ Short("discard")
  BY DEF Discard, At, UnderExclusive, Moves, Short
<1>2. exclusive = p
  BY <1>1, WorkIs
<1>3. PICK i \in 1 .. 3, f \in Parts :
        /\ pc[p] = <<"discard", i>> /\ f = Part(p) /\ (Short("discard") => i # 3)
        /\ f = IF i = 1 THEN "db" ELSE IF i = 2 THEN "runs" ELSE "manifest"
  BY <1>1, WorkIs
<1>5. PICK s \in {"discard", "restored"}, j \in 1 .. 3 :
        /\ pc' = [pc EXCEPT ![p] = <<s, j>>] /\ s \in Moves /\ (j = 3 => ~Short(s))
        /\ s = "discard" => j = i + 1 /\ i # 3
        /\ s = "restored" => j = 1 /\ (i = 3 \/ (i = 2 /\ Short("discard")))
  BY <1>1, <1>3, GoesOn DEF Discard
<1>6. /\ UNCHANGED <<place, published, marker, lock, task>>
      /\ UNCHANGED <<bundleManifest, inhabited, withRuns, lapses, crashes, errors>>
      /\ aside' = Remove(aside, f)
  BY <1>3 DEF Discard, history
<1>7. /\ aside' \in [Parts -> Content] /\ aside'[f] = "none"
      /\ \A g \in Parts \ {f} : aside'[g] = aside[g]
  BY <1>6, RemoveIs DEF HomeInv, Contents
<1>8. Contents'
  <2>1. aside'["db"] # "torn"
    BY <1>7 DEF HomeInv, Contents, Parts
  <2> QED
    BY <1>6, <1>7, <2>1 DEF HomeInv, Contents
<1>9. ASSUME lapses' \subseteq {"deletion cut short"}
      PROVE  \E t \in OneTree : Whole(t)' /\ OwnerFits(t, s, j)'
  <2>1. PICK t \in OneTree, k \in 1 .. 3 :
          Whole(t) /\ pc[p] = <<"discard", k>> /\ OwnerFits(t, "discard", k)
    BY <1>1, <1>6, <1>9, TreeIs
  <2>2. k = i
    BY <1>3, <2>1, PairIs
  <2>3. Discarding(t, i) /\ marker.pending
    BY <2>1, <2>2 DEF OwnerFits, Moves
  <2>4. Whole(t)' /\ marker'.pending
    BY <1>6, <2>1, <2>3 DEF Whole
  <2>5. aside'["db"] = "none"
    BY <1>1, <1>3, <1>7, <2>3 DEF Discarding, Parts
  <2>6. Published(t)'
    <3>1. ~bundleManifest => InPlace(t, "manifest")'
      <4>1. f # "manifest" /\ "manifest" \in Parts
        BY <1>1, <1>3 DEF Parts
      <4> QED
        BY <1>6, <1>7, <2>3, <4>1 DEF Discarding, Published, InPlace
    <3>2. t = Empty => aside' = Empty
      <4> SUFFICES ASSUME t = Empty PROVE aside' = Empty
        OBVIOUS
      <4>1. aside = Empty
        BY <2>3 DEF Discarding, Published
      <4>2. \A g \in Parts : aside'[g] = "none"
        BY <1>7, <4>1 DEF Empty
      <4> QED
        BY <1>7, <4>2, NoTree DEF Parts
    <3> QED
      BY <1>6, <2>3, <3>1, <3>2 DEF Discarding, Published
  <2>7. CASE s = "discard"
    <3>1. j # 1
      BY <1>5, <2>7
    <3>2. Discarding(t, j)'
      BY <2>5, <2>6, <3>1 DEF Discarding
    <3> QED
      BY <2>4, <2>7, <3>2 DEF OwnerFits, Moves
  <2>8. CASE s = "restored"
    BY <2>4, <2>5, <2>6, <2>8 DEF OwnerFits, Moves
  <2> QED
    BY <2>7, <2>8
<1> QED
  BY <1>2, <1>5, <1>6, <1>8, <1>9, HolderKeeps

\* What is published is the whole new tree.
LEMMA PublishedIsNew ==
  ASSUME NEW t \in OneTree, Published(t)
  PROVE  NewInPlace
<1>1. place["db"] = "bundle" /\ place["runs"] = "bundle"
  BY DEF Published
<1>2. CASE bundleManifest
  BY <1>1, <1>2 DEF Published, NewInPlace, Trees, Exists
<1>3. CASE ~bundleManifest
  <2>1. place["manifest"] = t["manifest"]
    BY <1>3 DEF Published, InPlace
  <2>2. t["manifest"] \in Trees \cup {"none"}
    BY DEF OneTree, Parts
  <2>3. "manifest" \in marker.had => t["manifest"] # "none"
    BY DEF Published, Had
  <2> QED
    BY <1>1, <2>1, <2>2, <2>3 DEF NewInPlace, Exists
<1> QED
  BY <1>2, <1>3

\* A restore ends: what is in place is the new tree, one with nothing aside.
LEMMA RestoredKeeps ==
  ASSUME HomeInv, NEW p \in Procs, UNCHANGED history, Restored(p)
  PROVE  HomeInv'
<1>1. Stage(p) = "restored" /\ "restored" \in UnderExclusive /\ exclusive = p
  BY OwnerIs DEF Restored, At, UnderExclusive
<1>2. /\ UNCHANGED <<place, task, published>> /\ marker' = NoMarker /\ aside' = Empty
      /\ Release(p) /\ Goto(p, "idle")
      /\ UNCHANGED <<bundleManifest, inhabited, withRuns, lapses, crashes, errors>>
  BY DEF Restored, history
<1>4. Contents'
  BY <1>2 DEF HomeInv, Contents, NoMarker, Empty, Content, Parts
<1>5. ASSUME lapses \subseteq {"deletion cut short"}
      PROVE  \E t \in OneTree : Whole(t)' /\ Quiet(t)'
  <2>1. PICK t \in OneTree, k \in 1 .. 3 :
          Whole(t) /\ pc[p] = <<"restored", k>> /\ OwnerFits(t, "restored", k)
    BY <1>1, <1>5, TreeIs
  <2>2. NewInPlace
    BY <2>1, PublishedIsNew DEF OwnerFits
  <2>3. PICK n : n = place
    OBVIOUS
  <2>4. n \in OneTree
    BY <2>2, <2>3 DEF HomeInv, Contents, OneTree, NewInPlace, Parts, Trees
  <2>5. Whole(n)
    BY <2>2, <2>3 DEF Whole, NewInPlace, HomeInv, Contents
  <2> QED
    BY <1>2, <2>3, <2>4, <2>5 DEF Whole, Quiet, NoMarker
<1>6. "idle" \in Stages \ (UnderExclusive \cup Opens \cup First)
  BY DEF Stages, UnderExclusive, Opens, First
<1> QED
  BY <1>1, <1>2, <1>4, <1>5, <1>6, HolderLeaves

\* What an exception in a restore finds: every old part is there to be put back,
\* or its deletion has begun.
LEMMA UndoFinds ==
  ASSUME NEW t \in OneTree, Whole(t), NEW i \in 1 .. 3, published \subseteq Parts,
         NEW r \in {"move", "publish", "discard", "restored"}, OwnerFits(t, r, i),
         r = "discard" => i # 3
  PROVE  /\ marker.had = Had(t)
         /\ \/ /\ \A f \in published : aside[f] = t[f]
               /\ \A f \in Parts \ published : InPlace(t, f) \/ Aside(t, f)
            \/ /\ r = "restored" \/ (r = "discard" /\ i = 2)
               /\ "db" \in marker.had /\ aside["db"] = "none" /\ "db" \in published
<1>1. \A f \in Parts : f \in {"db", "runs", "manifest"}
  BY DEF Parts
<1>2. CASE r = "move"
  <2>1. Moving(t, i)
    BY <1>2 DEF OwnerFits
  <2> QED
    BY <1>1, <2>1 DEF Moving
<1>3. CASE r = "publish"
  <2>1. Publishing(t, i)
    BY <1>3 DEF OwnerFits
  <2>2. \A f \in published : aside[f] = t[f]
    BY <1>1, <2>1 DEF Publishing, Covered
  <2>3. \A f \in Parts \ published : InPlace(t, f) \/ Aside(t, f)
    BY <1>1, <2>1 DEF Publishing
  <2> QED
    BY <2>1, <2>2, <2>3 DEF Publishing
<1>4. ASSUME Published(t) PROVE \A f \in Parts \ published : InPlace(t, f)
  BY <1>1, <1>4 DEF Published
<1>5. CASE r = "discard" /\ i = 1
  <2>1. Discarding(t, i)
    BY <1>5 DEF OwnerFits
  <2> QED
    BY <1>4, <1>5, <2>1 DEF Discarding, Published, Covered
<1>6. CASE r = "restored" \/ (r = "discard" /\ i = 2)
  <2>1. Published(t) /\ aside["db"] = "none"
    BY <1>6 DEF OwnerFits, Discarding
  <2>2. CASE t = Empty
    <3>1. \A f \in Parts : aside[f] = t[f]
      BY <2>1, <2>2 DEF Published
    <3> QED
      BY <1>4, <2>1, <3>1 DEF Published
  <2>3. CASE t # Empty
    <3>1. t["db"] # "none" /\ "db" \in Parts
      BY <2>3 DEF Whole, Parts
    <3> QED
      BY <1>6, <2>1, <3>1 DEF Published, Had
  <2> QED
    BY <2>2, <2>3
<1> QED
  BY <1>2, <1>3, <1>5, <1>6

\* The exception of a restore: before the marker it ends, later it is undone.
LEMMA RaisesKeeps ==
  ASSUME HomeInv, NEW p \in Procs, Raises(p)
  PROVE  HomeInv'
<1>1. errors' \in 0 .. MaxErrors
  <2>1. MaxErrors \in Nat /\ errors \in 0 .. MaxErrors /\ errors < MaxErrors
    BY StorageAssumption DEF Raises, HomeInv, Contents
  <2>2. errors' = errors + 1
    BY DEF Raises
  <2> QED
    BY <2>1, <2>2
<1>2. UNCHANGED <<bundleManifest, inhabited, withRuns, crashes>>
  BY DEF Raises
<1>3. CASE At(p, "restoring") /\ Leave(p) /\ UNCHANGED lapses
  <2>1. Contents'
    BY <1>1, <1>2, <1>3 DEF HomeInv, Contents, Leave, files
  <2> QED
    BY <1>2, <1>3, <2>1, LeaveKeeps DEF At
<1>4. CASE /\ Stage(p) \in {"move", "publish", "discard", "restored"}
           /\ lapses' = IF At(p, "restored") \/ (At(p, "discard") /\ Part(p) = "runs")
                        THEN lapses \cup {"deletion cut short"} ELSE lapses
           /\ Goto(p, "undo") /\ UNCHANGED <<files, lock, task, published>>
  <2>1. PICK r \in {"move", "publish", "discard", "restored"} : r = Stage(p)
    BY <1>4
  <2>2. r \in Moves /\ r \in UnderExclusive /\ "undo" \in Moves /\ r # "undo"
    BY DEF Moves, UnderExclusive
  <2>3. PICK i \in 1 .. 3, f \in Parts :
          /\ pc[p] = <<r, i>> /\ f = Part(p) /\ (Short(r) => i # 3)
          /\ f = IF i = 1 THEN "db" ELSE IF i = 2 THEN "runs" ELSE "manifest"
    BY <2>1, <2>2, WorkIs
  <2>4. exclusive = p /\ pc' = [pc EXCEPT ![p] = <<"undo", 1>>]
    BY <1>4, <2>1, <2>2, WorkIs DEF Goto
  <2>5. lapses' = lapses \/ lapses' = lapses \cup {"deletion cut short"}
    BY <1>4
  <2>6. Contents'
    BY <1>1, <1>2, <1>4, <2>5 DEF HomeInv, Contents, files, Lapses
  <2>7. ASSUME lapses' \subseteq {"deletion cut short"}
        PROVE  \E t \in OneTree : Whole(t)' /\ OwnerFits(t, "undo", 1)'
    <3>1. PICK t \in OneTree, k \in 1 .. 3 :
            Whole(t) /\ pc[p] = <<r, k>> /\ OwnerFits(t, r, k)
      BY <2>1, <2>2, <2>5, <2>7, TreeIs
    <3>2. k = i
      BY <2>3, <3>1, PairIs
    <3>3. r = "discard" => i # 3
      <4>1. r = "discard" => Short(r)
        BY DEF Short
      <4> QED
        BY <2>3, <4>1
    <3>4. published \subseteq Parts /\ marker.pending
      BY <2>2, <3>1 DEF HomeInv, Contents, OwnerFits, Moves
    <3>5. r = "restored" \/ (r = "discard" /\ i = 2) => lapses' # {}
      <4> SUFFICES ASSUME r = "restored" \/ (r = "discard" /\ i = 2)
                   PROVE  "deletion cut short" \in lapses'
        OBVIOUS
      <4>1. i = 2 => Part(p) = "runs"
        BY <2>3
      <4>2. At(p, "restored") \/ (At(p, "discard") /\ Part(p) = "runs")
        BY <2>1, <4>1 DEF At
      <4>3. lapses' = lapses \cup {"deletion cut short"}
        BY <1>4, <4>2
      <4> QED
        BY <4>3
    <3>6. UNCHANGED <<place, aside, marker, published>> /\ Whole(t)'
      BY <1>2, <1>4, <3>1 DEF files, Whole
    <3>7. /\ marker.had = Had(t)
          /\ \/ /\ \A g \in published : aside[g] = t[g]
                /\ \A g \in Parts \ published : InPlace(t, g) \/ Aside(t, g)
             \/ /\ r = "restored" \/ (r = "discard" /\ i = 2)
                /\ "db" \in marker.had /\ aside["db"] = "none" /\ "db" \in published
      BY <3>1, <3>2, <3>3, <3>4, UndoFinds
    <3>8. Undoing(t, 1)'
      BY <3>5, <3>6, <3>7 DEF Undoing, InPlace, Aside
    <3> QED
      BY <3>4, <3>6, <3>8 DEF OwnerFits, Moves
  <2>8. "deletion cut short" \in Lapses \ {"lease slipped"}
    BY DEF Lapses
  <2> QED
    BY <1>2, <1>4, <2>2, <2>4, <2>5, <2>6, <2>7, <2>8, OneIs, HolderKeeps
<1> QED
  BY <1>3, <1>4 DEF Raises

\* The undo of a part that is published: it goes.
LEMMA UndoRemoves ==
  ASSUME HomeInv, NEW p \in Procs, UNCHANGED history, Undo(p), Part(p) \in published
  PROVE  HomeInv'
<1>1. Stage(p) = "undo" /\ "undo" \in UnderExclusive /\ "undo" \in Moves /\ ~Short("undo")
  BY DEF Undo, At, UnderExclusive, Moves, Short
<1>2. exclusive = p
  BY <1>1, WorkIs
<1>3. PICK i \in 1 .. 3, f \in Parts :
        /\ pc[p] = <<"undo", i>> /\ f = Part(p)
        /\ f = IF i = 1 THEN "runs" ELSE IF i = 2 THEN "db" ELSE "manifest"
  BY <1>1, WorkIs
<1>4. /\ place' = Remove(place, f) /\ published' = published \ {f} /\ f \in published
      /\ UNCHANGED <<aside, pc, marker, lock, task>>
      /\ UNCHANGED <<bundleManifest, inhabited, withRuns, lapses, crashes, errors>>
  BY <1>3 DEF Undo, UndoPart, history
<1>5. /\ place' \in [Parts -> Content] /\ place'[f] = "none"
      /\ \A g \in Parts \ {f} : place'[g] = place[g]
  BY <1>4, RemoveIs DEF HomeInv, Contents
<1>6. Contents'
  <2>1. place'["db"] # "torn"
    BY <1>5 DEF HomeInv, Contents, Parts
  <2> QED
    BY <1>4, <1>5, <2>1 DEF HomeInv, Contents
<1>7. pc' = [pc EXCEPT ![p] = <<"undo", i>>]
  BY <1>3, <1>4 DEF HomeInv, Locks
<1>8. ASSUME lapses' \subseteq {"deletion cut short"}
      PROVE  \E t \in OneTree : Whole(t)' /\ OwnerFits(t, "undo", i)'
  <2>1. PICK t \in OneTree, k \in 1 .. 3 :
          Whole(t) /\ pc[p] = <<"undo", k>> /\ OwnerFits(t, "undo", k)
    BY <1>1, <1>4, <1>8, TreeIs
  <2>2. k = i
    BY <1>3, <2>1, PairIs
  <2>3. Undoing(t, i) /\ marker.pending
    BY <2>1, <2>2 DEF OwnerFits, Moves
  <2>4. Whole(t)' /\ marker'.pending
    BY <1>4, <2>1, <2>3 DEF Whole
  <2>5. "db" \in Parts /\ "runs" \in Parts /\ "manifest" \in Parts
    BY DEF Parts
  <2>6. CASE /\ marker.had = Had(t)
             /\ \A g \in published : aside[g] = t[g]
             /\ \A g \in Parts \ published : InPlace(t, g) \/ Aside(t, g)
             /\ i # 1 => InPlace(t, "runs") /\ "runs" \notin published
             /\ i \notin {1, 2} => InPlace(t, "db") /\ "db" \notin published
    <3>1. \A g \in published' : aside'[g] = t[g]
      BY <1>4, <2>6
    <3>2. Aside(t, f)'
      BY <1>4, <1>5, <2>6 DEF Aside
    <3>3. \A g \in Parts \ {f} : /\ InPlace(t, g) => InPlace(t, g)'
                                 /\ Aside(t, g) => Aside(t, g)'
      BY <1>4, <1>5 DEF InPlace, Aside
    <3>4. \A g \in Parts \ published' : InPlace(t, g)' \/ Aside(t, g)'
      BY <1>4, <2>6, <3>2, <3>3
    <3>5. i # 1 => InPlace(t, "runs")' /\ "runs" \notin published'
      BY <1>4, <2>5, <2>6, <3>3
    <3>6. i \notin {1, 2} => InPlace(t, "db")' /\ "db" \notin published'
      BY <1>4, <2>5, <2>6, <3>3
    <3> QED
      BY <1>4, <2>4, <2>6, <3>1, <3>4, <3>5, <3>6 DEF OwnerFits, Moves, Undoing
  <2>7. CASE /\ lapses # {} /\ "db" \in marker.had /\ aside["db"] = "none"
             /\ "db" \in published \/ place["db"] = "none"
             /\ i \notin {1, 2} => "db" \notin published
    <3>1. "db" \in published' \/ place'["db"] = "none"
      BY <1>4, <1>5, <2>5, <2>7
    <3> QED
      BY <1>4, <2>4, <2>7, <3>1 DEF OwnerFits, Moves, Undoing
  <2> QED
    BY <2>3, <2>6, <2>7 DEF Undoing
<1>9. i = 3 => ~Short("undo")
  BY <1>1
<1> QED
  BY <1>1, <1>2, <1>4, <1>6, <1>7, <1>8, <1>9, HolderKeeps

\* The undo of a part that is not, or no longer: the old one comes back.
LEMMA UndoReturns ==
  ASSUME HomeInv, NEW p \in Procs, UNCHANGED history, Undo(p), Part(p) \notin published
  PROVE  HomeInv'
<1>1. Stage(p) = "undo" /\ "undo" \in UnderExclusive /\ "undo" \in Moves /\ ~Short("undo")
      /\ "undone" \in Moves \ {"undo"}
  BY DEF Undo, At, UnderExclusive, Moves, Short
<1>2. exclusive = p
  BY <1>1, WorkIs
<1>3. PICK i \in 1 .. 3, f \in Parts :
        /\ pc[p] = <<"undo", i>> /\ f = Part(p)
        /\ f = IF i = 1 THEN "runs" ELSE IF i = 2 THEN "db" ELSE "manifest"
  BY <1>1, WorkIs
<1>4. PICK s \in {"undo", "undone"}, j \in 1 .. 3 :
        /\ pc' = [pc EXCEPT ![p] = <<s, j>>] /\ s \in Moves /\ (j = 3 => ~Short(s))
        /\ s = "undo" => j = i + 1 /\ i # 3
        /\ s = "undone" => j = 1 /\ (i = 3 \/ (i = 2 /\ Short("undo")))
  BY <1>1, <1>3, GoesOn DEF Undo, UndoPart
<1>5. /\ place' = IF aside[f] = "none" THEN place ELSE Replace(place, f, aside[f])
      /\ aside' = Remove(aside, f) /\ f \notin published
      /\ UNCHANGED <<published, marker, lock, task>>
      /\ UNCHANGED <<bundleManifest, inhabited, withRuns, lapses, crashes, errors>>
  BY <1>3 DEF Undo, UndoPart, history
<1>6. /\ place' \in [Parts -> Content] /\ aside' \in [Parts -> Content]
      /\ \A g \in Parts \ {f} : place'[g] = place[g] /\ aside'[g] = aside[g]
      /\ aside'[f] = "none"
      /\ aside[f] = "none" => place'[f] = place[f]
      /\ aside[f] # "none" => place'[f] = aside[f]
  <2>1. place \in [Parts -> Content] /\ aside \in [Parts -> Content] /\ aside[f] \in Content
    BY DEF HomeInv, Contents
  <2>2. /\ aside' \in [Parts -> Content] /\ aside'[f] = "none"
        /\ \A g \in Parts \ {f} : aside'[g] = aside[g]
    BY <1>5, <2>1, RemoveIs
  <2>3. CASE aside[f] = "none"
    BY <1>5, <2>1, <2>2, <2>3
  <2>4. CASE aside[f] # "none"
    <3>1. PICK c \in Content : c = aside[f]
      BY <2>1
    <3>2. place' = Replace(place, f, c)
      BY <1>5, <2>4, <3>1
    <3>3. /\ place' \in [Parts -> Content] /\ place'[f] = c
          /\ \A g \in Parts \ {f} : place'[g] = place[g]
      BY <2>1, <3>2, ReplaceIs
    <3> QED
      BY <2>2, <2>4, <3>1, <3>3
  <2> QED
    BY <2>3, <2>4
<1>7. Contents'
  <2>1. place'["db"] # "torn" /\ aside'["db"] # "torn"
    BY <1>6 DEF HomeInv, Contents, Parts
  <2> QED
    BY <1>5, <1>6, <2>1 DEF HomeInv, Contents
<1>8. ASSUME lapses' \subseteq {"deletion cut short"}
      PROVE  \E t \in OneTree : Whole(t)' /\ OwnerFits(t, s, j)'
  <2>1. PICK t \in OneTree, k \in 1 .. 3 :
          Whole(t) /\ pc[p] = <<"undo", k>> /\ OwnerFits(t, "undo", k)
    BY <1>1, <1>5, <1>8, TreeIs
  <2>2. k = i
    BY <1>3, <2>1, PairIs
  <2>3. Undoing(t, i) /\ marker.pending
    BY <2>1, <2>2 DEF OwnerFits, Moves
  <2>4. Whole(t)' /\ marker'.pending
    BY <1>5, <2>1, <2>3 DEF Whole
  <2>5. "db" \in Parts /\ "runs" \in Parts /\ "manifest" \in Parts
    BY DEF Parts
  <2>6. s = "undone" => i = 3
    BY <1>1, <1>4
  <2>7. CASE /\ marker.had = Had(t)
             /\ \A g \in published : aside[g] = t[g]
             /\ \A g \in Parts \ published : InPlace(t, g) \/ Aside(t, g)
             /\ i # 1 => InPlace(t, "runs") /\ "runs" \notin published
             /\ i \notin {1, 2} => InPlace(t, "db") /\ "db" \notin published
    <3>1. InPlace(t, f) \/ Aside(t, f)
      BY <1>5, <2>7
    <3>2. InPlace(t, f)'
      BY <1>6, <3>1 DEF InPlace, Aside
    <3>3. \A g \in Parts \ {f} : /\ InPlace(t, g) => InPlace(t, g)'
                                 /\ Aside(t, g) => Aside(t, g)'
      BY <1>6 DEF InPlace, Aside
    <3>4. \A g \in Parts \ published' : InPlace(t, g)' \/ Aside(t, g)'
      BY <1>5, <2>7, <3>2, <3>3
    <3>5. \A g \in published' : aside'[g] = t[g]
      BY <1>5, <1>6, <2>7, <1>7 DEF Contents
    <3>6. InPlace(t, "runs")' /\ "runs" \notin published'
      BY <1>3, <1>5, <2>5, <2>7, <3>2, <3>3
    <3>7. i # 1 => InPlace(t, "db")' /\ "db" \notin published'
      BY <1>3, <1>5, <2>5, <2>7, <3>2, <3>3
    <3>8. CASE s = "undo"
      <4>1. j # 1 /\ (j \notin {1, 2} => i # 1)
        BY <1>4, <3>8
      <4>2. marker'.had = Had(t)
        BY <1>5, <2>7
      <4>3. Undoing(t, j)'
        BY <3>4, <3>5, <3>6, <3>7, <4>1, <4>2 DEF Undoing
      <4> QED
        BY <2>4, <3>8, <4>3 DEF OwnerFits, Moves
    <3>9. CASE s = "undone"
      <4>1. InPlace(t, "manifest")' /\ InPlace(t, "db")'
        BY <1>3, <2>6, <3>2, <3>7, <3>9
      <4>2. place' = t /\ aside' = Empty
        BY <1>6, <3>6, <4>1, SameTree, NoTree DEF InPlace
      <4>3. AllInPlace(t)'
        BY <1>5, <2>7, <4>2 DEF AllInPlace
      <4> QED
        BY <2>4, <3>9, <4>3 DEF OwnerFits, Moves, Undoes
    <3> QED
      BY <3>8, <3>9
  <2>8. CASE /\ lapses # {} /\ "db" \in marker.had /\ aside["db"] = "none"
             /\ "db" \in published \/ place["db"] = "none"
             /\ i \notin {1, 2} => "db" \notin published
    <3>1. place'["db"] = place["db"] /\ aside'["db"] = "none"
      BY <1>6, <2>5, <2>8
    <3>2. i # 1 => "db" \notin published
      BY <1>3, <1>5, <2>8
    <3>3. CASE s = "undo"
      <4>1. j \notin {1, 2} => "db" \notin published'
        BY <1>4, <1>5, <3>2, <3>3
      <4>2. Undoing(t, j)'
        BY <1>5, <2>8, <3>1, <4>1 DEF Undoing
      <4> QED
        BY <2>4, <3>3, <4>2 DEF OwnerFits, Moves
    <3>4. CASE s = "undone"
      <4>1. Spoiled'
        BY <1>5, <2>6, <2>8, <3>1, <3>2, <3>4 DEF Spoiled
      <4> QED
        BY <2>4, <3>4, <4>1 DEF OwnerFits, Moves, Undoes
    <3> QED
      BY <3>3, <3>4
  <2> QED
    BY <2>3, <2>7, <2>8 DEF Undoing
<1> QED
  BY <1>2, <1>4, <1>5, <1>7, <1>8, HolderKeeps

\* The undo ends: what is in place stays, the marker with it.
LEMMA UndoneKeeps ==
  ASSUME HomeInv, NEW p \in Procs, UNCHANGED history, Undone(p)
  PROVE  HomeInv'
<1>1. Stage(p) = "undone" /\ "undone" \in UnderExclusive /\ exclusive = p
  BY OwnerIs DEF Undone, At, UnderExclusive
<1>2. /\ UNCHANGED <<place, marker, task, published>> /\ aside' = Empty
      /\ Release(p) /\ Goto(p, "idle")
      /\ UNCHANGED <<bundleManifest, inhabited, withRuns, lapses, crashes, errors>>
  BY DEF Undone, history
<1>3. Contents'
  BY <1>2 DEF HomeInv, Contents, Empty, Content, Parts
<1>4. ASSUME lapses \subseteq {"deletion cut short"}
      PROVE  \E t \in OneTree : Whole(t)' /\ Quiet(t)'
  <2>1. PICK t \in OneTree, k \in 1 .. 3 :
          Whole(t) /\ pc[p] = <<"undone", k>> /\ OwnerFits(t, "undone", k)
    BY <1>1, <1>4, TreeIs
  <2>2. (AllInPlace(t) \/ Spoiled) /\ marker.pending
    BY <2>1 DEF OwnerFits, Undoes, Moves
  <2>3. CASE AllInPlace(t)
    <3>1. \A f \in Parts : InPlace(t, f)'
      BY <1>2, <2>3 DEF AllInPlace, InPlace, Empty
    <3>2. AllInPlace(t)'
      BY <1>2, <2>3 DEF AllInPlace
    <3>3. Left(t)'
      BY <3>1, <3>2 DEF Left, AllInPlace
    <3> QED
      BY <1>2, <2>1, <2>2, <3>3 DEF Whole, Quiet
  <2>4. CASE Spoiled
    <3>1. Spoiled'
      BY <1>2, <2>4 DEF Spoiled, Empty, Parts
    <3> QED
      BY <1>2, <2>1, <2>2, <3>1 DEF Whole, Quiet, Left
  <2> QED
    BY <2>2, <2>3, <2>4
<1>5. "idle" \in Stages \ (UnderExclusive \cup Opens \cup First)
  BY DEF Stages, UnderExclusive, Opens, First
<1> QED
  BY <1>1, <1>2, <1>3, <1>4, <1>5, HolderLeaves

\* A directory is deleted file by file: only one that is given up already.
LEMMA TearsKeeps ==
  ASSUME HomeInv, NEW p \in Procs, UNCHANGED history, Tears(p)
  PROVE  HomeInv'
<1>1. PICK r \in {"drop", "discard", "remove", "undo"} : r = Stage(p)
  BY DEF Tears, At
<1>2. r \in Moves /\ r \in UnderExclusive
  BY DEF Moves, UnderExclusive
<1>3. PICK i \in 1 .. 3, f \in Parts :
        /\ pc[p] = <<r, i>> /\ f = Part(p) /\ (Short(r) => i # 3)
        /\ r # "undo" => f = IF i = 1 THEN "db" ELSE IF i = 2 THEN "runs" ELSE "manifest"
        /\ r = "undo" => f = IF i = 1 THEN "runs" ELSE IF i = 2 THEN "db" ELSE "manifest"
  BY <1>1, <1>2, WorkIs
<1>4. exclusive = p
  BY <1>1, <1>2, WorkIs
<1>5. /\ UNCHANGED <<marker, lock, pc, task, published>> /\ f = "runs"
      /\ UNCHANGED <<bundleManifest, inhabited, withRuns, lapses, crashes, errors>>
      /\ pc' = [pc EXCEPT ![p] = <<r, i>>]
  BY <1>3 DEF Tears, history, HomeInv, Locks
<1>6. i = IF r = "undo" THEN 1 ELSE 2
  BY <1>3, <1>5
<1>7. /\ place \in [Parts -> Content] /\ aside \in [Parts -> Content]
      /\ "torn" \in Content /\ "runs" \in Parts
  BY DEF HomeInv, Contents, Content, Parts
<1>8. CASE /\ r \in {"drop", "discard"} /\ aside["runs"] \in Trees
           /\ aside' = Replace(aside, "runs", "torn") /\ UNCHANGED place
  <2>1. /\ aside' \in [Parts -> Content] /\ aside'["runs"] = "torn"
        /\ \A g \in Parts \ {"runs"} : aside'[g] = aside[g]
    BY <1>7, <1>8, ReplaceIs
  <2>2. aside'["db"] = aside["db"] /\ aside'["manifest"] = aside["manifest"]
    BY <2>1 DEF Parts
  <2>3. Contents'
    BY <1>5, <1>8, <2>1, <2>2 DEF HomeInv, Contents
  <2>4. ASSUME lapses' \subseteq {"deletion cut short"}
        PROVE  \E t \in OneTree : Whole(t)' /\ OwnerFits(t, r, i)'
    <3>1. PICK t \in OneTree, k \in 1 .. 3 :
            Whole(t) /\ pc[p] = <<r, k>> /\ OwnerFits(t, r, k)
      BY <1>1, <1>2, <1>5, <2>4, TreeIs
    <3>2. k = i
      BY <1>3, <3>1, PairIs
    <3>3. Whole(t)' /\ marker'.pending
      BY <1>2, <1>5, <3>1 DEF Whole, OwnerFits
    <3>4. aside # Empty
      BY <1>7, <1>8 DEF Empty, Trees
    <3>5. CASE r = "drop"
      <4>1. Dropping(t, i)
        BY <3>1, <3>2, <3>5 DEF OwnerFits
      <4>2. NewInPlace
        BY <3>4, <4>1 DEF Dropping, AllInPlace
      <4>3. NewInPlace'
        BY <1>5, <1>8, <4>2 DEF NewInPlace, Exists
      <4>4. Dropping(t, i)'
        BY <1>6, <2>2, <3>5, <4>1, <4>3 DEF Dropping
      <4> QED
        BY <3>3, <3>5, <4>4 DEF OwnerFits, Moves
    <3>6. CASE r = "discard"
      <4>1. Discarding(t, i)
        BY <3>1, <3>2, <3>6 DEF OwnerFits
      <4>2. Published(t)'
        BY <1>5, <1>8, <2>2, <3>4, <4>1 DEF Discarding, Published, InPlace
      <4>3. Discarding(t, i)'
        BY <1>6, <2>2, <3>6, <4>1, <4>2 DEF Discarding
      <4> QED
        BY <3>3, <3>6, <4>3 DEF OwnerFits, Moves
    <3> QED
      BY <1>8, <3>5, <3>6
  <2> QED
    BY <1>2, <1>3, <1>4, <1>5, <2>3, <2>4, HolderKeeps
<1>9. CASE /\ r \in {"remove", "undo"} /\ (r = "undo" => "runs" \in published)
           /\ place["runs"] \in Trees
           /\ place' = Replace(place, "runs", "torn") /\ UNCHANGED aside
  <2>1. /\ place' \in [Parts -> Content] /\ place'["runs"] = "torn"
        /\ \A g \in Parts \ {"runs"} : place'[g] = place[g]
    <3>1. place' = Replace(place, "runs", "torn")
      BY <1>9
    <3> QED
      BY <1>7, <3>1, ReplaceIs
  <2>2. place'["db"] = place["db"] /\ place'["manifest"] = place["manifest"]
    BY <2>1 DEF Parts
  <2>3. Contents'
    BY <1>5, <1>9, <2>1, <2>2 DEF HomeInv, Contents
  <2>4. ASSUME lapses' \subseteq {"deletion cut short"}
        PROVE  \E t \in OneTree : Whole(t)' /\ OwnerFits(t, r, i)'
    <3>1. PICK t \in OneTree, k \in 1 .. 3 :
            Whole(t) /\ pc[p] = <<r, k>> /\ OwnerFits(t, r, k)
      BY <1>1, <1>2, <1>5, <2>4, TreeIs
    <3>2. k = i
      BY <1>3, <3>1, PairIs
    <3>3. Whole(t)' /\ marker'.pending
      BY <1>2, <1>5, <3>1 DEF Whole, OwnerFits
    <3>4. CASE r = "remove"
      <4>1. Removing(t, i)
        BY <3>1, <3>2, <3>4 DEF OwnerFits
      <4>2. ~NewComplete'
        BY <1>5, <1>9, <2>2, <4>1 DEF Removing, NewComplete, Exists, Trees
      <4>3. Removing(t, i)'
        BY <1>5, <1>6, <1>9, <2>2, <3>4, <4>1, <4>2 DEF Removing
      <4> QED
        BY <3>3, <3>4, <4>3 DEF OwnerFits, Moves
    <3>5. CASE r = "undo"
      <4>1. Undoing(t, i) /\ "runs" \in published /\ i = 1
        BY <1>6, <1>9, <3>1, <3>2, <3>5 DEF OwnerFits
      <4>2. \A g \in Parts \ published : /\ InPlace(t, g) => InPlace(t, g)'
                                         /\ Aside(t, g) => Aside(t, g)'
        BY <1>9, <2>1, <4>1 DEF InPlace, Aside
      <4>3. Undoing(t, i)'
        BY <1>5, <1>9, <2>2, <4>1, <4>2 DEF Undoing
      <4> QED
        BY <3>3, <3>5, <4>3 DEF OwnerFits, Moves
    <3> QED
      BY <1>9, <3>4, <3>5
  <2> QED
    BY <1>2, <1>3, <1>4, <1>5, <2>3, <2>4, HolderKeeps
<1> QED
  BY <1>1, <1>8, <1>9 DEF Tears, At

-----------------------------------------------------------------------------

\* Under the exclusive lease of a first opener nothing is pending, or it ends.
LEMMA InitializesKeeps ==
  ASSUME HomeInv, NEW p \in Procs, UNCHANGED history, Initializes(p)
  PROVE  HomeInv'
<1>1. Stage(p) = "initialize" /\ "initialize" \in UnderExclusive
  BY DEF Initializes, At, UnderExclusive
<1>2. exclusive = p /\ shared = {} /\ p # NoProc
  BY <1>1, OwnerIs
<1>3. /\ UNCHANGED <<aside, marker, task, published>>
      /\ UNCHANGED <<bundleManifest, inhabited, withRuns, lapses, crashes, errors>>
      /\ task' \in [Procs -> {"open", "backup", "restore"}]
  BY DEF Initializes, history, HomeInv, Locks
<1>4. /\ "downgrade" \in Stages \ Moves /\ "downgrade" \in UnderExclusive
      /\ "downgrade" \notin Opens /\ "initialize" \notin Opens
      /\ "initialize" \in First /\ "initialize" \notin Moves
  BY DEF Stages, Moves, UnderExclusive, Opens, First
<1>5. CASE Current /\ Goto(p, "downgrade") /\ UNCHANGED <<place, lock>>
  <2>1. Contents' /\ UNCHANGED files
    BY <1>3, <1>5, SameContents DEF HomeInv, files, history
  <2> QED
    BY <1>1, <1>3, <1>4, <1>5, <2>1, QuietGoes
<1>6. CASE ~Uninitialized /\ ~Current /\ Goto(p, "idle") /\ Release(p) /\ UNCHANGED place
  <2>1. Contents' /\ UNCHANGED files
    BY <1>3, <1>6, SameContents DEF HomeInv, files, history
  <2>2. "idle" \in Stages \ Moves /\ "idle" \notin UnderExclusive \cup Opens /\ "idle" \notin First
    BY DEF Stages, Moves, UnderExclusive, Opens, First
  <2> QED
    BY <1>1, <1>3, <1>4, <1>6, <2>1, <2>2, QuietGoes
<1>7. CASE /\ Uninitialized /\ place' = Replace(place, "db", "fresh")
           /\ Goto(p, "downgrade") /\ UNCHANGED lock
  <2>1. /\ place' \in [Parts -> Content] /\ place'["db"] = "fresh"
        /\ place'["runs"] = place["runs"] /\ place'["manifest"] = place["manifest"]
    <3>1. place' = Replace(place, "db", "fresh")
      BY <1>7
    <3>2. "fresh" \in Content /\ "db" \in Parts /\ place \in [Parts -> Content]
      BY DEF Content, Trees, Parts, HomeInv, Contents
    <3> QED
      BY <3>1, <3>2, ReplaceIs DEF Parts
  <2>2. Contents'
    BY <1>3, <2>1 DEF HomeInv, Contents
  <2>3. pc' = [pc EXCEPT ![p] = <<"downgrade", 1>>]
    BY <1>7 DEF Goto
  <2>4. exclusive' = p /\ shared' = {} /\ UNCHANGED shared
    BY <1>2, <1>7 DEF lock
  <2>5. Locks' /\ Stage(p)' = "downgrade" /\ pc'[p] = <<"downgrade", 1>>
        /\ \A q \in Procs \ {p} : Stage(q)' = Stage(q)
    BY <1>2, <1>3, <1>4, <2>3, <2>4, OneIs, LocksKept DEF HomeInv, Opens
  <2>6. Current'
    BY <1>3, <1>7, <2>1 DEF Current, Uninitialized, Exists
  <2>7. ASSUME lapses' \subseteq {"deletion cut short"}
        PROVE  \E t \in OneTree : Whole(t)' /\ Fits(t)'
    <3>1. PICK t \in OneTree, k \in 1 .. 3 :
            Whole(t) /\ pc[p] = <<"initialize", k>> /\ OwnerFits(t, "initialize", k)
      BY <1>1, <1>3, <2>7, TreeIs
    <3>2. ~marker.pending /\ place["db"] = "none"
      BY <1>7 DEF Uninitialized, Exists
    <3>3. place = t /\ aside = Empty
      BY <1>4, <3>1, <3>2 DEF OwnerFits, Quiet
    <3>4. t = Empty /\ ~inhabited /\ "fresh" \notin withRuns
      BY <3>1, <3>2, <3>3 DEF Whole
    <3>5. PICK n : n = place'
      OBVIOUS
    <3>6. n["runs"] = "none" /\ n["manifest"] = "none" /\ n["db"] = "fresh"
      BY <2>1, <3>3, <3>4, <3>5 DEF Empty, Parts
    <3>7. n \in OneTree
      BY <2>1, <3>5, <3>6 DEF OneTree, Parts, Trees
    <3>8. Whole(n)'
      BY <1>3, <3>4, <3>6 DEF Whole
    <3>9. Quiet(n)'
      BY <1>3, <3>2, <3>3, <3>5 DEF Quiet
    <3>10. Fits(n)'
      BY <1>2, <1>4, <2>4, <2>5, <3>9 DEF Fits, OwnerFits, Moves
    <3> QED
      BY <3>7, <3>8, <3>10
  <2>8. Ready'
    <3>1. \A q \in Procs : InUse(q)' \/ At(q, "downgrade")' => Current'
      BY <2>6
    <3> QED
      BY <3>1 DEF Ready
  <2>9. NothingSlips'
    BY <1>1, <1>3, <1>4, <2>5, NoSlip
  <2> QED
    BY <2>2, <2>5, <2>7, <2>8, <2>9 DEF HomeInv, HomeKept
<1> QED
  BY <1>5, <1>6, <1>7 DEF Initializes

\* The first opener keeps a shared lease, or loses the lock on the way.
LEMMA DowngradesKeeps ==
  ASSUME HomeInv, NEW p \in Procs, Downgrades(p),
         UNCHANGED <<bundleManifest, inhabited, withRuns, crashes, errors>>
  PROVE  HomeInv'
<1>1. Stage(p) = "downgrade" /\ "downgrade" \in UnderExclusive /\ "downgrade" \in First
      /\ "downgrade" \notin Moves
  BY DEF Downgrades, At, UnderExclusive, First, Moves
<1>2. exclusive = p /\ shared = {} /\ p # NoProc /\ exclusive' = NoProc
  BY <1>1, OwnerIs DEF Downgrades
<1>3. /\ UNCHANGED <<place, aside, marker, task, published>>
      /\ task' \in [Procs -> {"open", "backup", "restore"}]
      /\ lapses' = lapses \/ lapses' = lapses \cup {"lease slipped"}
  BY DEF Downgrades, files, HomeInv, Locks
<1>4. Contents'
  BY <1>3 DEF HomeInv, Contents, Lapses
<1>5. CASE Goto(p, "running") /\ shared' = shared \cup {p} /\ UNCHANGED lapses
  <2>1. pc' = [pc EXCEPT ![p] = <<"running", 1>>] /\ "running" \in Stages
        /\ "running" \notin UnderExclusive /\ "running" \notin First
    BY <1>5 DEF Goto, Stages, UnderExclusive, First
  <2>2. Locks' /\ Stage(p)' = "running" /\ \A q \in Procs \ {p} : Stage(q)' = Stage(q)
    BY <1>2, <1>3, <1>5, <2>1, OneIs, LocksKept DEF HomeInv
  <2>3. ASSUME lapses' \subseteq {"deletion cut short"}
        PROVE  Ready' /\ \E t \in OneTree : Whole(t)' /\ Fits(t)'
    <3>1. PICK t \in OneTree, k \in 1 .. 3 :
            Whole(t) /\ pc[p] = <<"downgrade", k>> /\ OwnerFits(t, "downgrade", k)
      BY <1>1, <1>5, <2>3, TreeIs
    <3>2. Current
      BY <1>1, <1>5, <2>3 DEF HomeInv, HomeKept, Ready, At
    <3>3. Current'
      BY <1>3, <3>2 DEF Current, Exists
    <3>4. Ready'
      BY <3>3 DEF Ready
    <3>5. Quiet(t)
      BY <1>1, <3>1 DEF OwnerFits
    <3>6. Quiet(t)'
      BY <1>3, <1>5, <3>5, SameShapes
    <3>7. Whole(t)'
      BY <3>1 DEF Whole
    <3> QED
      BY <1>2, <3>4, <3>6, <3>7 DEF Fits
  <2>4. NothingSlips'
    BY <1>5, <2>1, <2>2, NoSlip
  <2> QED
    BY <1>4, <2>2, <2>3, <2>4 DEF HomeInv, HomeKept
<1>6. CASE Goto(p, "downgrading") /\ lapses' = lapses \cup {"lease slipped"} /\ UNCHANGED shared
  <2>1. pc' = [pc EXCEPT ![p] = <<"downgrading", 1>>] /\ "downgrading" \in Stages
        /\ "downgrading" \notin UnderExclusive /\ "downgrading" \notin Opens
    BY <1>6 DEF Goto, Stages, UnderExclusive, Opens
  <2>2. Locks'
    BY <1>2, <1>3, <1>6, <2>1, OneIs, LocksKept DEF HomeInv, Opens
  <2>3. "lease slipped" \in lapses'
    BY <1>6
  <2>4. HomeKept'
    BY <2>3 DEF HomeKept
  <2>5. NothingSlips'
    <3> SUFFICES ASSUME inhabited', lapses' \subseteq {"lease slipped"} PROVE FALSE
      BY DEF NothingSlips
    <3>1. inhabited /\ lapses \subseteq {"lease slipped"}
      BY <1>6
    <3> QED
      BY <1>1, <3>1 DEF HomeInv, NothingSlips
  <2> QED
    BY <1>4, <2>2, <2>4, <2>5 DEF HomeInv
<1> QED
  BY <1>5, <1>6 DEF Downgrades

\* A runtime at work makes the directory of its runs.
LEMMA StartsRunKeeps ==
  ASSUME HomeInv, NEW p \in Procs, StartsRun(p),
         UNCHANGED <<bundleManifest, inhabited, lapses, crashes, errors>>
  PROVE  HomeInv'
<1>1. Stage(p) = "running" /\ place["runs"] = "none" /\ place["db"] # "none"
  BY DEF StartsRun, At, Exists
<1>2. /\ place' = Replace(place, "runs", place["db"])
      /\ withRuns' = withRuns \cup {place["db"]}
      /\ UNCHANGED <<aside, marker, exclusive, shared, pc, task, published>>
  BY DEF StartsRun, lock
<1>3. PICK c \in Content : c = place["db"]
  BY DEF HomeInv, Contents, Parts
<1>4. c \in Trees
  BY <1>1, <1>3 DEF HomeInv, Contents, Content
<1>5. /\ place' \in [Parts -> Content] /\ place'["runs"] = c
      /\ place'["db"] = c /\ place'["manifest"] = place["manifest"]
  <2>1. place' = Replace(place, "runs", c) /\ place \in [Parts -> Content] /\ "runs" \in Parts
    BY <1>2, <1>3 DEF HomeInv, Contents, Parts
  <2> QED
    BY <1>3, <2>1, ReplaceIs DEF Parts
<1>6. Contents'
  BY <1>2, <1>3, <1>4, <1>5 DEF HomeInv, Contents
<1>7. \A q \in Procs : Stage(q)' = Stage(q)
  BY <1>2 DEF Stage
<1>8. Locks'
  BY <1>2, <1>7 DEF HomeInv, Locks, Short, InUse, At
<1>9. exclusive = NoProc
  BY <1>1 DEF HomeInv, Locks, InUse, At
<1>10. ASSUME lapses' \subseteq {"deletion cut short"}
       PROVE  Ready' /\ \E t \in OneTree : Whole(t)' /\ Fits(t)'
  <2>1. Ready /\ lapses' = lapses
    BY <1>10 DEF HomeInv, HomeKept
  <2>2. PICK t \in OneTree : Whole(t) /\ Fits(t)
    BY <1>10, <2>1 DEF HomeInv, HomeKept
  <2>3. Current
    BY <1>1, <2>1 DEF Ready, InUse
  <2>4. Current'
    BY <1>2, <1>4, <1>5, <2>3 DEF Current, Exists, Trees
  <2>5. Ready'
    BY <2>4 DEF Ready
  <2>6. place = t /\ aside = Empty /\ ~marker.pending
    BY <1>9, <2>2, <2>3 DEF Fits, Quiet, Current
  <2>7. PICK n : n = place'
    OBVIOUS
  <2>8. n["db"] = c /\ n["runs"] = c /\ n["manifest"] = t["manifest"] /\ t["db"] = c
    BY <1>3, <1>5, <2>6, <2>7
  <2>9. n \in OneTree
    BY <1>4, <1>5, <2>2, <2>7, <2>8 DEF OneTree, Parts
  <2>10. Whole(n)'
    <3>1. c # "none" /\ t # Empty
      BY <1>4, <2>8 DEF Empty, Trees, Parts
    <3> QED
      BY <1>2, <1>3, <2>2, <2>8, <3>1 DEF Whole
  <2>11. Fits(n)'
    BY <1>2, <1>9, <2>6, <2>7 DEF Fits, Quiet
  <2> QED
    BY <2>5, <2>9, <2>10, <2>11
<1>11. NothingSlips'
  BY <1>1, <1>7, NoSlip
<1> QED
  BY <1>6, <1>8, <1>10, <1>11 DEF HomeInv, HomeKept

\* A home at first: nothing, or the parts of one workspace.
LEMMA InitHome ==
  ASSUME Init
  PROVE  HomeInv
<1>1. \A p \in Procs : pc[p] = <<"idle", 1>> /\ Stage(p) = "idle" /\ pc[p][2] = 1
  BY DEF Init, Stage
<1>2. Locks
  <2>1. pc \in [Procs -> Stages \X (1 .. 3)]
    BY OneIs DEF Init, Stages
  <2>2. task \in [Procs -> {"open", "backup", "restore"}]
    BY DEF Init
  <2> QED
    BY <1>1, <2>1, <2>2, StorageAssumption DEF Init, Locks, InUse, At, UnderExclusive,
       Short
<1>3. Contents
  BY StorageAssumption DEF Init, Contents, Content, Trees, Parts, NoMarker, Empty,
     Lapses
<1>4. HomeKept
  <2>1. Ready
    BY <1>1 DEF Ready, InUse, At
  <2>2. PICK t : t = place
    OBVIOUS
  <2>3. t \in OneTree
    BY <2>2 DEF Init, OneTree, Trees
  <2>4. Whole(t)
    <3>1. /\ t \in [Parts -> {"none", "workspace"}]
          /\ t["db"] = "none" => t = Empty
          /\ inhabited = (t["db"] # "none") /\ withRuns = {"bundle"} \cup ({t["runs"]} \ {"none"})
      BY <2>2 DEF Init
    <3>2. t["db"] \in {"none", "workspace"} /\ t["runs"] \in {"none", "workspace"}
          /\ t["manifest"] \in {"none", "workspace"}
      BY <3>1 DEF Parts
    <3>3. CASE t["db"] = "none"
      <4>1. t["runs"] = "none"
        BY <3>1, <3>3 DEF Empty, Parts
      <4> QED
        BY <3>1, <3>3, <4>1 DEF Whole
    <3>4. CASE t["db"] = "workspace"
      BY <3>1, <3>2, <3>4 DEF Whole
    <3> QED
      BY <3>2, <3>3, <3>4
  <2>5. Fits(t)
    BY <2>2 DEF Init, Fits, Quiet, NoMarker
  <2> QED
    BY <2>1, <2>3, <2>4, <2>5 DEF HomeKept
<1>5. NothingSlips
  BY <1>1 DEF Init, NothingSlips, First
<1> QED
  BY <1>2, <1>3, <1>4, <1>5 DEF HomeInv

\* Every step keeps the invariant.
LEMMA NextHome ==
  ASSUME HomeInv, [Next]_vars
  PROVE  HomeInv'
<1>1. ASSUME NEW p \in Procs, NEW t \in {"open", "backup", "restore"},
             Begin(p, t), UNCHANGED history
      PROVE  HomeInv'
  BY <1>1, InspectKeeps
<1>2. ASSUME NEW p \in Procs, RecoveryStep(p), UNCHANGED history
      PROVE  HomeInv'
  BY <1>2, InspectKeeps, TakesKeep, DecidesKeeps, DropKeeps, RemoveNewKeeps,
     PutBackKeeps,
     SettledKeeps DEF RecoveryStep
<1>3. ASSUME NEW p \in Procs, RestoreStep(p), UNCHANGED history
      PROVE  HomeInv'
  BY <1>3, TakesKeep, LeavesKeep, MoveAsideKeeps, PublishKeeps, DiscardKeeps,
     RestoredKeeps,
     UndoRemoves, UndoReturns, UndoneKeeps, TearsKeeps DEF RestoreStep
<1>4. ASSUME NEW p \in Procs, OpenStep(p), UNCHANGED history
      PROVE  HomeInv'
  BY <1>4, InspectKeeps, TakesKeep, InitializesKeeps, ChecksKeeps, LeavesKeep DEF
     OpenStep
<1>5. ASSUME NEW p \in Procs, WriteMarker(p) \/ Downgrades(p),
             UNCHANGED <<bundleManifest, inhabited, withRuns, crashes, errors>>
      PROVE  HomeInv'
  BY <1>5, WriteMarkerKeeps, DowngradesKeeps
<1>6. ASSUME NEW p \in Procs, StartsRun(p),
             UNCHANGED <<bundleManifest, inhabited, lapses, crashes, errors>>
      PROVE  HomeInv'
  BY <1>6, StartsRunKeeps
<1>7. ASSUME NEW p \in Procs, Raises(p) \/ Crash(p)
      PROVE  HomeInv'
  BY <1>7, RaisesKeeps, CrashKeeps
<1>8. CASE UNCHANGED vars
  <2>1. UNCHANGED <<place, aside, marker, exclusive, shared, pc, task, published,
                    bundleManifest, inhabited, withRuns, lapses, crashes, errors>>
    BY <1>8 DEF vars, files, lock, history
  <2>2. \A p \in Procs : Stage(p)' = Stage(p) /\ InUse(p)' = InUse(p)
    BY <2>1 DEF Stage, InUse
  <2>3. Locks'
    BY <2>1, <2>2 DEF HomeInv, Locks, Short, At
  <2>4. Contents'
    BY <2>1 DEF HomeInv, Contents
  <2>5. NothingSlips'
    BY <2>1, <2>2 DEF HomeInv, NothingSlips
  <2>6. ASSUME lapses' \subseteq {"deletion cut short"}
        PROVE  Ready' /\ \E t \in OneTree : Whole(t)' /\ Fits(t)'
    <3>1. PICK t \in OneTree : Whole(t) /\ Fits(t) /\ Ready
      BY <2>1, <2>6 DEF HomeInv, HomeKept
    <3>2. Ready'
      BY <2>1, <2>2, <3>1 DEF Ready, Current, Exists, At
    <3>3. Whole(t)'
      BY <2>1, <3>1 DEF Whole
    <3>4. Fits(t)'
      <4>1. CASE exclusive = NoProc
        BY <2>1, <3>1, <4>1, SameShapes DEF Fits
      <4>2. CASE exclusive # NoProc
        <5>1. PICK r, i : r = Stage(exclusive) /\ i = pc[exclusive][2]
          OBVIOUS
        <5>2. OwnerFits(t, r, i)
          BY <3>1, <4>2, <5>1 DEF Fits
        <5>3. OwnerFits(t, r, i)'
          BY <2>1, <5>2, SameShapes
        <5> QED
          BY <2>1, <4>2, <5>1, <5>3 DEF Fits, Stage
      <4> QED
        BY <4>1, <4>2
    <3> QED
      BY <3>2, <3>3, <3>4
  <2> QED
    BY <2>3, <2>4, <2>5, <2>6 DEF HomeInv, HomeKept
<1> QED
  BY <1>1, <1>2, <1>3, <1>4, <1>5, <1>6, <1>7, <1>8 DEF Next

\* The old tree t, or the whole new one, is somewhere.
LEMMA KeptSomewhere ==
  ASSUME NEW t \in OneTree, Whole(t), inhabited, "bundle" \in withRuns,
         \/ \A f \in Parts : InPlace(t, f) \/ aside[f] = t[f]
         \/ NewInPlace
  PROVE  TreeKept
<1>1. CASE NewInPlace
  BY <1>1 DEF NewInPlace, TreeKept, Trees
<1>2. CASE \A f \in Parts : InPlace(t, f) \/ aside[f] = t[f]
  <2>1. t["db"] \in Trees /\ (t["db"] \in withRuns => t["runs"] = t["db"])
    BY DEF Whole, Trees
  <2>2. t["db"] \in {place["db"], aside["db"]} /\ t["runs"] \in {place["runs"], aside["runs"]}
    BY <1>2 DEF InPlace, Parts
  <2> QED
    BY <2>1, <2>2 DEF TreeKept
<1> QED
  BY <1>1, <1>2

\* The invariant is what the run checks.
LEMMA HomeInvUsable == HomeInv => HomeUsable
<1> SUFFICES ASSUME HomeInv PROVE HomeUsable
  OBVIOUS
<1>1. TypeOK
  BY TypesFollow DEF HomeInv
<1>2. OpenedWhole
  <2> SUFFICES ASSUME lapses \subseteq {"deletion cut short"}, NEW p \in Procs, InUse(p)
               PROVE  /\ ~marker.pending
                      /\ place["runs"] = IF place["db"] \in withRuns THEN place["db"]
                                         ELSE "none"
                      /\ place["db"] \in IF inhabited THEN {"workspace", "bundle"}
                                         ELSE {"bundle", "fresh"}
                      /\ place["manifest"] = "bundle" => place["db"] = "bundle"
    BY DEF OpenedWhole
  <2>1. Current
    BY DEF HomeInv, HomeKept, Ready
  <2>2. exclusive = NoProc
    BY DEF HomeInv, Locks
  <2>3. PICK t \in OneTree : Whole(t) /\ Fits(t)
    BY DEF HomeInv, HomeKept
  <2>4. place = t /\ ~marker.pending /\ place["db"] # "none"
    BY <2>1, <2>2, <2>3 DEF Fits, Quiet, Current, Exists
  <2>5. t # Empty
    BY <2>4 DEF Empty, Parts
  <2> QED
    BY <2>3, <2>4, <2>5 DEF Whole
<1>3. TreeKept
  <2> SUFFICES ASSUME lapses \subseteq {"lease slipped"}, inhabited
               PROVE  TreeKept
    BY DEF TreeKept
  <2>1. lapses = {} /\ "bundle" \in withRuns
    BY DEF HomeInv, NothingSlips, Contents
  <2>2. PICK t \in OneTree : Whole(t) /\ Fits(t)
    BY <2>1 DEF HomeInv, HomeKept
  <2>3. ~Spoiled
    BY <2>1 DEF Spoiled
  <2>4. ASSUME Left(t) PROVE TreeKept
    BY <2>1, <2>2, <2>3, <2>4, KeptSomewhere DEF Left
  <2>5. ASSUME Quiet(t) PROVE TreeKept
    <3>1. CASE marker.pending
      BY <2>4, <2>5, <3>1 DEF Quiet
    <3>2. CASE ~marker.pending
      <4>1. \A f \in Parts : InPlace(t, f)
        BY <2>5, <3>2 DEF Quiet, InPlace, Empty
      <4> QED
        BY <2>1, <2>2, <4>1, KeptSomewhere
    <3> QED
      BY <3>1, <3>2
  <2>6. CASE exclusive = NoProc
    BY <2>2, <2>5, <2>6 DEF Fits
  <2>7. CASE exclusive # NoProc
    <3>1. PICK p \in Procs : p = exclusive
      BY <2>7 DEF HomeInv, Locks
    <3>2. CASE Stage(p) \notin Moves
      <4>1. Quiet(t)
        BY <2>2, <2>7, <3>1, <3>2 DEF Fits, OwnerFits
      <4> QED
        BY <2>5, <4>1
    <3>3. CASE Stage(p) \in Moves \ {"undo"}
      BY <2>2, <2>4, <3>3, StopLeaves
    <3>4. CASE Stage(p) = "undo"
      <4>1. PICK i : Undoing(t, i)
        BY <2>2, <2>7, <3>1, <3>4 DEF Fits, OwnerFits
      <4>2. \A f \in Parts : InPlace(t, f) \/ aside[f] = t[f]
        BY <2>1, <4>1 DEF Undoing, Aside
      <4> QED
        BY <2>1, <2>2, <4>2, KeptSomewhere
    <3> QED
      BY <3>2, <3>3, <3>4
  <2> QED
    BY <2>6, <2>7
<1> QED
  BY <1>1, <1>2, <1>3 DEF HomeUsable

\* Who changes a part: a holder of the lock, or a run that makes its directory.
LEMMA WhoTouches ==
  ASSUME [Next]_vars
  PROVE  \/ place' = place
         \/ \E q \in Procs : Stage(q) \in Moves \cup {"initialize"}
         \/ ~Exists("runs") /\ \E c : place' = Replace(place, "runs", c)
<1>1. ASSUME NEW p \in Procs, NEW t \in {"open", "backup", "restore"}, Begin(p, t)
      PROVE  place' = place
  BY <1>1 DEF Begin, files
<1>2. ASSUME NEW p \in Procs, RecoveryStep(p)
      PROVE  place' = place \/ Stage(p) \in Moves \cup {"initialize"}
  BY <1>2 DEF RecoveryStep, LooksForMarker, TakeExclusive, Decides, Drop, RemoveNew,
     PutBack,
              Settled, files, At, Moves
<1>3. ASSUME NEW p \in Procs, RestoreStep(p)
      PROVE  place' = place \/ Stage(p) \in Moves \cup {"initialize"}
  BY <1>3 DEF RestoreStep, TakeExclusive, Leave, MoveAside, Publish, Discard,
     Restored, Undo,
              Undone, Tears, files, At, Moves
<1>4. ASSUME NEW p \in Procs, OpenStep(p)
      PROVE  place' = place \/ Stage(p) \in Moves \cup {"initialize"}
  BY <1>4 DEF OpenStep, Inspects, TakeShared, TakeExclusive, SeesCurrent, TriesAgain,
              Initializes, Checks, Refused, Leave, files, At
<1>5. ASSUME NEW p \in Procs, WriteMarker(p) \/ Downgrades(p) \/ Raises(p) \/ Crash(p)
      PROVE  place' = place
  BY <1>5 DEF WriteMarker, Downgrades, Raises, Crash, Leave, files
<1>6. ASSUME NEW p \in Procs, StartsRun(p)
      PROVE  ~Exists("runs") /\ \E c : place' = Replace(place, "runs", c)
  BY <1>6 DEF StartsRun
<1>7. CASE UNCHANGED vars
  BY <1>7 DEF vars, files
<1> QED
  BY <1>1, <1>2, <1>3, <1>4, <1>5, <1>6, <1>7 DEF Next

\* The step property, for a step from a state of the invariant.
LEMMA StepUndisturbed ==
  ASSUME HomeInv, [Next]_vars, NEW p \in Procs, StoresOpen(p), "lease slipped" \notin lapses,
         NEW f \in Parts, Exists(f)
  PROVE  place'[f] = place[f]
<1>1. CASE \E q \in Procs : Stage(q) \in Moves \cup {"initialize"}
  <2>1. PICK q \in Procs : Stage(q) \in Moves \cup {"initialize"}
    BY <1>1
  <2>2. exclusive = q /\ q # NoProc /\ shared = {}
    BY <2>1, OwnerIs DEF Moves, UnderExclusive
  <2>3. Stage(p) # "downgrading" /\ ~InUse(p)
    BY <2>2 DEF HomeInv, Locks, At
  <2>4. exclusive = p
    BY <2>3 DEF StoresOpen, HomeInv, Locks, UnderExclusive
  <2>5. Stage(p) = "downgrade"
    BY <2>3 DEF StoresOpen
  <2> QED
    BY <2>1, <2>2, <2>4, <2>5 DEF Moves
<1>2. CASE ~Exists("runs") /\ \E c : place' = Replace(place, "runs", c)
  BY <1>2 DEF Replace, HomeInv, Contents
<1> QED
  BY <1>1, <1>2, WhoTouches

-----------------------------------------------------------------------------
\* workspace_storage.py restore_bundle and recover_pending_restore, runtime.py
\* open and backup, in any number of processes that stop or raise anywhere: what
\* a runtime or a backup works on is one whole tree, and wherever a restore or a
\* recovery ends, the database and run evidence of one tree are still there.
THEOREM HomeIsUsable == Spec => []HomeUsable
<1>1. Init => HomeInv
  BY InitHome
<1>2. HomeInv /\ [Next]_vars => HomeInv'
  BY NextHome
<1> QED
  BY <1>1, <1>2, HomeInvUsable, PTL DEF Spec

\* The shared and exclusive sides of the runtime lock, taken, downgraded and
\* released by the same code: no restore, recovery or first opener replaces a
\* part of the workspace under a runtime that is open or a backup that reads.
THEOREM UseIsUndisturbed == Spec => UseUndisturbed
<1>1. Init => HomeInv
  BY InitHome
<1>2. HomeInv /\ [Next]_vars => HomeInv'
  BY NextHome
<1>3. HomeInv /\ [Next]_vars =>
        [\A p \in Procs : (StoresOpen(p) /\ StoresOpen(p)') =>
           \/ "lease slipped" \in lapses
           \/ \A f \in Parts : Exists(f) => place'[f] = place[f]]_vars
  BY StepUndisturbed
<1> QED
  BY <1>1, <1>2, <1>3, PTL DEF Spec, UseUndisturbed

-----------------------------------------------------------------------------
(* Attachments *)

\* What a host in a write, or a reader with a row in hand, is about.
Uploads == [pc : {"place", "insert", "open"}, id : Ids, row : Rows]
Writing == {"place", "insert"}

UploadTypeOK ==
  /\ conversation \in [Conversations -> Titles \cup {NoRow}]
  /\ row \in [Ids -> Rows \cup {NoRow}]
  /\ call \in [Hosts -> Uploads \cup {NoCall}]
  /\ writer \in Hosts \cup {NoWriter}
  /\ returned \subseteq ({"created"} \X Conversations \X Titles)
                          \cup ({"saved", "read"} \X Ids \X Rows)

\* The call c of h: a write is the only one, for a free id in a conversation
\* that is there, and its file is placed before its insert; a reader holds what
\* the row still says.
CallFits(h, c) ==
  /\ c.pc \in Writing =>
       /\ writer = h
       /\ row[c.id] = NoRow
       /\ conversation[c.row.conversation] # NoRow
  /\ c.pc = "insert" => <<c.id, c.row>> \in file \cup spoiled
  /\ c.pc = "open" => row[c.id] = c.row

\* What a row says is there, and what t told a caller is what the rows say.
RowKept(i) ==
  row[i] # NoRow =>
    /\ <<i, row[i]>> \in file \cup spoiled
    /\ conversation[row[i].conversation] # NoRow
ToldTrue(t) ==
  IF t[1] = "created" THEN conversation[t[2]] = t[3] ELSE row[t[2]] = t[3]

UploadsInv ==
  /\ UploadTypeOK
  /\ \A h \in Hosts : CallFits(h, call[h])
  /\ \A i \in Ids : RowKept(i)
  /\ \A t \in returned : ToldTrue(t)

LEMMA UploadsStart == UploadsInit => UploadsInv
BY DEF UploadsInit, UploadsInv, UploadTypeOK, CallFits, RowKept, NoCall, Writing

\* Nobody writes beside the writer.
LEMMA OthersRead ==
  ASSUME UploadsInv, NEW h \in Hosts, writer \in {h, NoWriter},
         NEW k \in Hosts, k # h
  PROVE  call[k].pc \notin Writing
BY NoWriterIsNone DEF UploadsInv, UploadTypeOK, CallFits, Writing

\* A call that moves on by itself: rows, files and conversations stay.
LEMMA UploadMoves ==
  ASSUME UploadsInv, NEW h \in Hosts, NEW c \in Uploads \cup {NoCall},
         call' = [call EXCEPT ![h] = c], CallFits(h, c)',
         writer \in {h, NoWriter} \/ writer' = writer,
         writer' \in Hosts \cup {NoWriter},
         UNCHANGED <<conversation, row>>,
         file \cup spoiled \subseteq file' \cup spoiled'
  PROVE  /\ call' \in [Hosts -> Uploads \cup {NoCall}]
         /\ \A k \in Hosts : CallFits(k, call[k])'
         /\ \A i \in Ids : RowKept(i)'
<1>1. call' \in [Hosts -> Uploads \cup {NoCall}]
  BY DEF UploadsInv, UploadTypeOK
<1>2. ASSUME NEW k \in Hosts PROVE CallFits(k, call[k])'
  <2>1. CASE k = h
    BY <2>1 DEF UploadsInv, UploadTypeOK
  <2>2. CASE k # h
    <3>1. call'[k] = call[k] /\ CallFits(k, call[k])
      BY <2>2 DEF UploadsInv, UploadTypeOK
    <3>2. call[k].pc \in Writing => writer' = writer
      BY <2>2, OthersRead DEF UploadsInv
    <3> QED BY <3>1, <3>2 DEF CallFits
  <2> QED BY <2>1, <2>2
<1>3. ASSUME NEW i \in Ids PROVE RowKept(i)'
  BY DEF UploadsInv, RowKept
<1> QED BY <1>1, <1>2, <1>3

LEMMA CreateKeeps ==
  ASSUME UploadsInv, NEW h \in Hosts, NEW v \in Conversations, NEW t \in Titles,
         Create(h, v, t)
  PROVE  UploadsInv'
<1>1. UploadTypeOK'
  BY DEF Create, UploadsInv, UploadTypeOK
<1>2. \A u \in Conversations :
        conversation[u] # NoRow => conversation'[u] = conversation[u]
  BY DEF Create, UploadsInv, UploadTypeOK
<1>3. conversation'[v] = t
  BY DEF Create, UploadsInv, UploadTypeOK
<1>4. ASSUME NEW k \in Hosts PROVE CallFits(k, call[k])'
  <2>1. call'[k] = call[k] /\ CallFits(k, call[k])
        /\ call[k] \in Uploads \cup {NoCall}
    BY DEF Create, UploadsInv, UploadTypeOK
  <2>2. call[k].pc \in Writing => call[k].row.conversation \in Conversations
    BY <2>1 DEF Uploads, Rows, NoCall, Writing
  <2> QED BY <1>2, <2>1, <2>2 DEF Create, CallFits
<1>5. ASSUME NEW i \in Ids PROVE RowKept(i)'
  <2>1. row[i] # NoRow => row[i].conversation \in Conversations
    BY DEF UploadsInv, UploadTypeOK, Rows
  <2> QED BY <1>2, <2>1 DEF Create, UploadsInv, RowKept
<1>6. ASSUME NEW s \in returned' PROVE ToldTrue(s)'
  <2>1. CASE s \in returned
    <3>1. s[1] = "created" => s[2] \in Conversations /\ s[3] \in Titles
      BY <2>1 DEF UploadsInv, UploadTypeOK
    <3> QED BY <1>2, <2>1, <3>1, NoRowIsNone DEF Create, UploadsInv, ToldTrue
  <2>2. CASE s = <<"created", v, t>>
    BY <1>3, <2>2 DEF ToldTrue
  <2> QED BY <2>1, <2>2 DEF Create
<1> QED BY <1>1, <1>4, <1>5, <1>6 DEF UploadsInv

\* What was told before stays true: no row is replaced, no title changed.
LEMMA ToldStays ==
  ASSUME UploadsInv, conversation' = conversation,
         \A i \in Ids : row[i] # NoRow => row'[i] = row[i],
         NEW t \in returned
  PROVE  ToldTrue(t)'
<1>1. t[1] # "created" => t[2] \in Ids /\ t[3] \in Rows
  BY DEF UploadsInv, UploadTypeOK
<1> QED BY <1>1, NoRowIsNone DEF UploadsInv, ToldTrue

LEMMA SaveKeeps ==
  ASSUME UploadsInv, NEW h \in Hosts, NEW i \in Ids, NEW r \in Rows,
         Save(h, i, r)
  PROVE  UploadsInv'
<1>1. CASE row[i] # NoRow
  <2>1. row[i] = r /\ returned' = returned \cup {<<"saved", i, r>>}
        /\ UNCHANGED <<conversation, row, file, spoiled, writer, call>>
    BY <1>1 DEF Save, Same
  <2>2. UploadTypeOK' /\ (\A k \in Hosts : CallFits(k, call[k])')
        /\ (\A k \in Ids : RowKept(k)')
    BY <2>1 DEF UploadsInv, UploadTypeOK, CallFits, RowKept
  <2>3. ASSUME NEW s \in returned' PROVE ToldTrue(s)'
    <3>1. CASE s \in returned
      BY <2>1, <3>1, ToldStays
    <3>2. CASE s = <<"saved", i, r>>
      BY <2>1, <3>2 DEF ToldTrue
    <3> QED BY <2>1, <3>1, <3>2
  <2> QED BY <2>2, <2>3 DEF UploadsInv
<1>2. CASE row[i] = NoRow
  <2> DEFINE c == [pc |-> "place", id |-> i, row |-> r]
  <2>1. writer = NoWriter /\ writer' = h /\ call' = [call EXCEPT ![h] = c]
        /\ UNCHANGED <<conversation, row, file, spoiled, returned>>
        /\ conversation[r.conversation] # NoRow
    BY <1>2 DEF Save, GoOn
  <2>2. c \in Uploads
    BY DEF Uploads
  <2>3. CallFits(h, c)'
    BY <1>2, <2>1 DEF CallFits
  <2>4. /\ call' \in [Hosts -> Uploads \cup {NoCall}]
        /\ \A k \in Hosts : CallFits(k, call[k])'
        /\ \A k \in Ids : RowKept(k)'
    <3> HIDE DEF c
    <3> QED BY <2>1, <2>2, <2>3, UploadMoves
  <2>5. \A s \in returned' : ToldTrue(s)'
    BY <2>1, ToldStays
  <2> QED BY <2>1, <2>4, <2>5 DEF UploadsInv, UploadTypeOK
<1> QED BY <1>1, <1>2

LEMMA PlaceKeeps ==
  ASSUME UploadsInv, NEW h \in Hosts, Place(h)
  PROVE  UploadsInv'
<1>1. PICK old : old = call[h]
  OBVIOUS
<1>2. old.pc = "place" /\ old \in Uploads /\ CallFits(h, old)
  BY <1>1 DEF Place, UploadsInv, UploadTypeOK, NoCall
<1>3. PICK c : c = [old EXCEPT !.pc = "insert"]
  OBVIOUS
<1>4. c \in Uploads /\ c.pc = "insert" /\ c.id = old.id /\ c.row = old.row
  BY <1>2, <1>3 DEF Uploads
<1>5. /\ call' = [call EXCEPT ![h] = c]
      /\ file' = file \cup {<<old.id, old.row>>}
      /\ spoiled' = spoiled \ {<<old.id, old.row>>}
      /\ UNCHANGED <<conversation, row, writer, returned>>
  BY <1>1, <1>3 DEF Place, GoOn
<1>6. writer = h /\ CallFits(h, c)'
  BY <1>2, <1>4, <1>5 DEF CallFits, Writing
<1>7. file \cup spoiled \subseteq file' \cup spoiled'
  BY <1>5
<1>8. /\ call' \in [Hosts -> Uploads \cup {NoCall}]
      /\ \A k \in Hosts : CallFits(k, call[k])'
      /\ \A k \in Ids : RowKept(k)'
  BY <1>4, <1>5, <1>6, <1>7, UploadMoves
<1>9. \A s \in returned' : ToldTrue(s)'
  BY <1>5, ToldStays
<1> QED BY <1>5, <1>8, <1>9 DEF UploadsInv, UploadTypeOK

\* A write takes away its own files, and those are no row's.
LEMMA WriteFailsKeeps ==
  ASSUME UploadsInv, NEW h \in Hosts, WriteFails(h)
  PROVE  UploadsInv'
<1>1. PICK old : old = call[h]
  OBVIOUS
<1>2. old.pc \in Writing /\ old \in Uploads /\ CallFits(h, old)
  BY <1>1 DEF WriteFails, UploadsInv, UploadTypeOK, NoCall, Writing
<1>3. /\ call' = [call EXCEPT ![h] = NoCall] /\ writer = h
      /\ writer' = NoWriter /\ row[old.id] = NoRow
      /\ file' = file \ {<<old.id, old.row>>}
      /\ UNCHANGED <<conversation, row, returned, spoiled>>
  BY <1>1, <1>2 DEF WriteFails, EndWrite, GoOn, CallFits
<1>4. UploadTypeOK'
  BY <1>3 DEF UploadsInv, UploadTypeOK
<1>5. ASSUME NEW k \in Hosts PROVE CallFits(k, call[k])'
  <2>1. CASE k = h
    <3>1. call'[k] = NoCall
      BY <1>3, <2>1 DEF UploadsInv, UploadTypeOK
    <3> QED BY <3>1 DEF CallFits, NoCall, Writing
  <2>2. CASE k # h
    <3>1. call'[k] = call[k] /\ CallFits(k, call[k]) /\ call[k].pc \notin Writing
      BY <1>3, <2>2, OthersRead DEF UploadsInv, UploadTypeOK
    <3> QED BY <1>3, <3>1 DEF CallFits, Writing
  <2> QED BY <2>1, <2>2
<1>6. ASSUME NEW i \in Ids PROVE RowKept(i)'
  <2>1. row[i] # NoRow => i # old.id
    BY <1>3
  <2> QED BY <1>3, <2>1 DEF UploadsInv, RowKept
<1>7. \A s \in returned' : ToldTrue(s)'
  BY <1>3, ToldStays
<1> QED BY <1>4, <1>5, <1>6, <1>7 DEF UploadsInv

\* The row is new, and no reader holds another of its id.
LEMMA CommitKeeps ==
  ASSUME UploadsInv, NEW h \in Hosts, Commit(h)
  PROVE  UploadsInv'
<1>1. PICK old : old = call[h]
  OBVIOUS
<1>2. old.pc = "insert" /\ old \in Uploads /\ CallFits(h, old)
  BY <1>1 DEF Commit, UploadsInv, UploadTypeOK, NoCall
<1>3. PICK d, r : d = old.id /\ r = old.row
  OBVIOUS
<1>4. d \in Ids /\ r \in Rows
  BY <1>2, <1>3 DEF Uploads
<1>5. /\ writer = h /\ row[d] = NoRow /\ conversation[r.conversation] # NoRow
      /\ <<d, r>> \in file \cup spoiled
  BY <1>2, <1>3 DEF CallFits, Writing
<1>6. /\ call' = [call EXCEPT ![h] = NoCall] /\ writer' = NoWriter
      /\ row' = [row EXCEPT ![d] = r]
      /\ returned' = returned \cup {<<"saved", d, r>>}
      /\ UNCHANGED <<conversation, file, spoiled>>
  BY <1>1, <1>3 DEF Commit, EndWrite, GoOn
<1>7. /\ row'[d] = r
      /\ \A i \in Ids : i # d => row'[i] = row[i]
      /\ \A i \in Ids : row[i] # NoRow => row'[i] = row[i]
  BY <1>4, <1>5, <1>6 DEF UploadsInv, UploadTypeOK
<1>8. UploadTypeOK'
  BY <1>4, <1>6 DEF UploadsInv, UploadTypeOK
<1>9. ASSUME NEW k \in Hosts PROVE CallFits(k, call[k])'
  <2>1. CASE k = h
    <3>1. call'[k] = NoCall
      BY <1>6, <2>1 DEF UploadsInv, UploadTypeOK
    <3> QED BY <3>1 DEF CallFits, NoCall, Writing
  <2>2. CASE k # h
    <3>1. call'[k] = call[k] /\ CallFits(k, call[k]) /\ call[k].pc \notin Writing
          /\ call[k] \in Uploads \cup {NoCall}
      BY <1>5, <1>6, <2>2, OthersRead DEF UploadsInv, UploadTypeOK
    <3>2. call[k].pc = "open" => call[k].id \in Ids /\ call[k].row \in Rows
      BY <3>1 DEF Uploads, NoCall
    <3>3. call[k].pc = "open" => row'[call[k].id] = call[k].row
      BY <1>7, <3>1, <3>2, NoRowIsNone DEF CallFits
    <3> QED BY <3>1, <3>3 DEF CallFits, Writing
  <2> QED BY <2>1, <2>2
<1>10. ASSUME NEW i \in Ids PROVE RowKept(i)'
  BY <1>5, <1>6, <1>7 DEF UploadsInv, RowKept
<1>11. ASSUME NEW s \in returned' PROVE ToldTrue(s)'
  <2>1. CASE s \in returned
    BY <1>6, <1>7, <2>1, ToldStays
  <2>2. CASE s = <<"saved", d, r>>
    BY <1>7, <2>2 DEF ToldTrue
  <2> QED BY <1>6, <2>1, <2>2
<1> QED BY <1>8, <1>9, <1>10, <1>11 DEF UploadsInv

LEMMA AbandonKeeps ==
  ASSUME UploadsInv, NEW h \in Hosts, Abandon(h)
  PROVE  UploadsInv'
<1>1. /\ call' = [call EXCEPT ![h] = NoCall]
      /\ writer' = IF writer = h THEN NoWriter ELSE writer
      /\ UNCHANGED <<conversation, row, file, spoiled, returned>>
  BY DEF Abandon, GoOn
<1>2. CallFits(h, NoCall)'
  BY DEF CallFits, NoCall, Writing
<1>3. (writer \in {h, NoWriter} \/ writer' = writer)
      /\ writer' \in Hosts \cup {NoWriter}
  BY <1>1 DEF UploadsInv, UploadTypeOK
<1>4. /\ call' \in [Hosts -> Uploads \cup {NoCall}]
      /\ \A k \in Hosts : CallFits(k, call[k])'
      /\ \A k \in Ids : RowKept(k)'
  BY <1>1, <1>2, <1>3, UploadMoves
<1>5. \A s \in returned' : ToldTrue(s)'
  BY <1>1, ToldStays
<1> QED BY <1>1, <1>3, <1>4, <1>5 DEF UploadsInv, UploadTypeOK

LEMMA ReadRowKeeps ==
  ASSUME UploadsInv, NEW h \in Hosts, NEW i \in Ids, ReadRow(h, i)
  PROVE  UploadsInv'
<1>1. PICK c : c = [pc |-> "open", id |-> i, row |-> row[i]]
  OBVIOUS
<1>2. /\ call' = [call EXCEPT ![h] = c] /\ row[i] # NoRow
      /\ UNCHANGED <<conversation, row, file, writer, returned, spoiled>>
  BY <1>1 DEF ReadRow, GoOn
<1>3. c \in Uploads /\ CallFits(h, c)'
  BY <1>1, <1>2 DEF Uploads, CallFits, UploadsInv, UploadTypeOK, Writing
<1>4. /\ call' \in [Hosts -> Uploads \cup {NoCall}]
      /\ \A k \in Hosts : CallFits(k, call[k])'
      /\ \A k \in Ids : RowKept(k)'
  BY <1>2, <1>3, UploadMoves DEF UploadsInv, UploadTypeOK
<1>5. \A s \in returned' : ToldTrue(s)'
  BY <1>2, ToldStays
<1> QED BY <1>2, <1>4, <1>5 DEF UploadsInv, UploadTypeOK

LEMMA ReadFileKeeps ==
  ASSUME UploadsInv, NEW h \in Hosts, ReadFile(h)
  PROVE  UploadsInv'
<1>1. PICK old : old = call[h]
  OBVIOUS
<1>2. /\ old \in Uploads /\ row[old.id] = old.row
      /\ old.id \in Ids /\ old.row \in Rows
  <2>1. old.pc = "open" /\ old \in Uploads /\ CallFits(h, old)
    BY <1>1 DEF ReadFile, UploadsInv, UploadTypeOK, NoCall
  <2> QED BY <2>1 DEF CallFits, Uploads
<1>3. /\ call' = [call EXCEPT ![h] = NoCall]
      /\ returned' \subseteq returned \cup {<<"read", old.id, old.row>>}
      /\ UNCHANGED <<conversation, row, file, writer, spoiled>>
  BY <1>1 DEF ReadFile, GoOn
<1>4. CallFits(h, NoCall)'
  BY DEF CallFits, NoCall, Writing
<1>5. /\ call' \in [Hosts -> Uploads \cup {NoCall}]
      /\ \A k \in Hosts : CallFits(k, call[k])'
      /\ \A k \in Ids : RowKept(k)'
  BY <1>3, <1>4, UploadMoves DEF UploadsInv, UploadTypeOK
<1>6. ASSUME NEW s \in returned' PROVE ToldTrue(s)'
  <2>1. CASE s \in returned
    BY <1>3, <2>1, ToldStays
  <2>2. CASE s = <<"read", old.id, old.row>>
    BY <1>2, <1>3, <2>2 DEF ToldTrue
  <2> QED BY <1>3, <2>1, <2>2
<1> QED BY <1>2, <1>3, <1>5, <1>6 DEF UploadsInv, UploadTypeOK

LEMMA SpoilKeeps ==
  ASSUME UploadsInv, NEW f \in Ids \X Rows, Spoil(f)
  PROVE  UploadsInv'
<1>1. /\ file' \cup spoiled' = file \cup spoiled
      /\ UNCHANGED <<conversation, row, writer, call, returned>>
  BY DEF Spoil
<1> QED BY <1>1 DEF UploadsInv, UploadTypeOK, CallFits, RowKept, ToldTrue

LEMMA UploadsStep == UploadsInv /\ [UploadsNext]_uploadsVars => UploadsInv'
<1> SUFFICES ASSUME UploadsInv, [UploadsNext]_uploadsVars PROVE UploadsInv'
  OBVIOUS
<1>1. CASE UNCHANGED uploadsVars
  BY <1>1 DEF uploadsVars, UploadsInv, UploadTypeOK, CallFits, RowKept, ToldTrue
<1>2. CASE UploadsNext
  BY <1>2, CreateKeeps, SaveKeeps, PlaceKeeps, WriteFailsKeeps, CommitKeeps,
     AbandonKeeps, ReadRowKeeps, ReadFileKeeps, SpoilKeeps DEF UploadsNext
<1> QED BY <1>1, <1>2

\* A row never outlives its bytes and an attachment id means one conversation
\* and one content for ever, whatever saves fail, are given up or are repeated
\* (conversation_store.py save_attachment, read_attachment, create_conversation).
THEOREM AttachmentsAreSound == UploadsSpec => []AttachmentsSound
<1>1. UploadsInv => AttachmentsSound
  BY DEF UploadsInv, AttachmentsSound, RowKept, ToldTrue
<1> QED BY <1>1, UploadsStart, UploadsStep, PTL DEF UploadsSpec

-----------------------------------------------------------------------------
(* The database of a workspace *)

Facts == -1 .. MaxWrites
Sharing == {"check", "using", "copy"}
Excluding == {"bootstrap", "replan", "publish", "preserve", "deactivate", "keep",
              "replace", "sidecars"}
Phases == {"idle", "lock", "steal", "share", "exclude"} \cup Sharing \cup Excluding
Tasks == {"none", "open", "backup", "migrate", "rollback", "restore", "overwrite"}

LayoutTypes ==
  /\ written \in 0 .. MaxWrites
  /\ db \in (SUBSET Facts) \cup {Absent} /\ wal \in SUBSET Facts
  /\ phase \in [Users -> Phases] /\ errand \in [Users -> Tasks]

\* Who has the lease is where it is used, and an exclusive one is alone.
LeaseHeld ==
  /\ excluder # NoUser => sharers = {}
  /\ \A p \in Users : /\ p \in sharers <=> phase[p] \in Sharing
                      /\ excluder = p <=> phase[p] \in Excluding

\* What a process that is so far relies on.
Errands ==
  \A p \in Users :
    /\ phase[p] \in {"lock", "steal", "exclude"} =>
         errand[p] \in {"open", "migrate", "rollback", "restore", "overwrite"}
    /\ phase[p] \in {"keep", "replace"} => errand[p] \in {"restore", "overwrite"}

SetAside(w) == w \in waived \/ \E b \in backups : w \in b

Prepared ==
  \A p \in Users :
    /\ phase[p] \in {"using", "copy", "sidecars"} => db # Absent
    /\ phase[p] = "publish" => db = Absent
    /\ phase[p] = "deactivate" => Visible \in backups
    /\ phase[p] = "replace" /\ errand[p] = "restore" /\ db # Absent => Visible \in backups
    /\ phase[p] = "sidecars" => \A w \in 1 .. written : SetAside(w)

\* Until the log of a replaced file is removed, the file alone is the database.
DatabaseStands ==
  /\ db = Absent => wal = {}
  /\ ~overtaken =>
       IF db = Absent THEN expected = Absent
       ELSE IF \E p \in Users : phase[p] = "sidecars" THEN db = expected
       ELSE Visible = expected

LayoutInv ==
  /\ LayoutTypes /\ LeaseHeld
  /\ Errands /\ Prepared
  /\ DatabaseStands /\ NothingLost

LEMMA Databases ==
  /\ MaxWrites \in Nat /\ NoUser \notin Users
  /\ Legacy \in SUBSET Facts /\ Source \in SUBSET Facts /\ {} \in SUBSET Facts
  /\ Legacy # Absent /\ Source # Absent /\ {} # Absent
  /\ \A facts \in SUBSET Facts : facts # Absent
<1>1. MaxWrites \in Nat /\ \A facts \in SUBSET Facts : facts # Absent
  BY AbsentIsNoDatabase DEF Facts
<1>2. 0 \in Facts /\ -1 \in Facts
  BY <1>1 DEF Facts
<1> QED
  BY <1>1, <1>2, NoUserIsNobody DEF Legacy, Source

LEMMA LayoutInvInit == ASSUME LayoutInit PROVE LayoutInv
<1> USE DEF LayoutInit
<1>1. LayoutTypes
  <2>1. written \in 0 .. MaxWrites
    BY Databases
  <2>2. db \in (SUBSET Facts) \cup {Absent} /\ wal \in SUBSET Facts
    OBVIOUS
  <2>3. phase \in [Users -> Phases] /\ errand \in [Users -> Tasks]
    BY DEF Phases, Tasks
  <2> QED
    BY <2>1, <2>2, <2>3 DEF LayoutTypes
<1>2. LeaseHeld
  BY Databases DEF LeaseHeld, Sharing, Excluding
<1>3. Errands /\ Prepared /\ DatabaseStands /\ NothingLost
  BY DEF Errands, Prepared, DatabaseStands, NothingLost
<1> QED
  BY <1>1, <1>2, <1>3 DEF LayoutInv

LEMMA EnterMoves ==
  ASSUME LayoutTypes, NEW p \in Users, NEW l \in Phases, Enter(p, l)
  PROVE  /\ phase' \in [Users -> Phases] /\ phase'[p] = l
         /\ \A q \in Users : q # p => phase'[q] = phase[q]
BY DEF Enter, LayoutTypes

LEMMA DepartLeaves ==
  ASSUME LayoutInv, NEW p \in Users, Depart(p)
  PROVE  LeaseHeld'
<1>1. /\ phase'[p] = "idle" /\ \A q \in Users : q # p => phase'[q] = phase[q]
  <2>1. LayoutTypes /\ Enter(p, "idle")
    BY DEF Depart, LayoutInv
  <2> QED
    BY <2>1, EnterMoves DEF Phases
<1>2. /\ sharers' = sharers \ {p} /\ excluder' = IF excluder = p THEN NoUser ELSE excluder
  BY DEF Depart
<1> QED
  BY <1>1, <1>2, Databases DEF LeaseHeld, Sharing, Excluding, LayoutInv

\* The log is moved into the file: both hold what they held together.
LEMMA TouchKeeps ==
  ASSUME LayoutTypes, NEW users, Touch(users)
  PROVE  /\ db' \in (SUBSET Facts) \cup {Absent} /\ wal' \in SUBSET Facts
         /\ db' = Absent <=> db = Absent
         /\ Visible' = Visible /\ (wal = {} => db' = db) /\ (wal = {} => wal' = {})
<1> USE DEF Visible
<1>1. CASE UNCHANGED <<db, wal>>
  BY <1>1 DEF LayoutTypes
<1>2. CASE db # Absent /\ db' = Visible /\ wal' = {}
  <2>1. Visible \in SUBSET Facts
    BY <1>2 DEF LayoutTypes
  <2> QED
    BY <1>2, <2>1, Databases
<1> QED
  BY <1>1, <1>2 DEF Touch

\* What p relies on where it is now.
RightlyAt(p) ==
  /\ phase[p] \in {"lock", "steal", "exclude"} =>
       errand[p] \in {"open", "migrate", "rollback", "restore", "overwrite"}
  /\ phase[p] \in {"keep", "replace"} => errand[p] \in {"restore", "overwrite"}
  /\ phase[p] \in {"using", "copy"} => db # Absent
  /\ phase[p] = "publish" => db = Absent
  /\ phase[p] = "deactivate" => Visible \in backups
  /\ phase[p] = "replace" /\ errand[p] = "restore" /\ db # Absent => Visible \in backups
  /\ phase[p] # "sidecars"

\* A step that moves one process and leaves what the database holds, or copies it.
LEMMA MovesKeep ==
  ASSUME LayoutInv, NEW p \in Users, LeaseHeld',
         phase' \in [Users -> Phases], errand' \in [Users -> Tasks],
         \A q \in Users : q # p => phase'[q] = phase[q] /\ errand'[q] = errand[q],
         db' \in (SUBSET Facts) \cup {Absent}, wal' \in SUBSET Facts,
         db' = Absent <=> db = Absent, Visible' = Visible,
         wal = {} => db' = db /\ wal' = {},
         backups \subseteq backups', UNCHANGED <<expected, waived, written>>,
         overtaken => overtaken',
         overtaken' \/ db' = db \/ ~ \E q \in Users : phase[q] = "sidecars",
         phase[p] # "sidecars", RightlyAt(p)'
  PROVE  LayoutInv'
<1>1. LayoutTypes'
  BY DEF LayoutInv, LayoutTypes
<1>2. Errands'
  BY DEF LayoutInv, Errands, RightlyAt
<1>3. \A w : SetAside(w) => SetAside(w)'
  BY DEF SetAside
<1>4. Prepared'
  BY <1>3 DEF LayoutInv, Prepared, RightlyAt
<1>5. DatabaseStands'
  BY DEF LayoutInv, DatabaseStands, RightlyAt
<1>6. NothingLost'
  BY DEF LayoutInv, NothingLost
<1> QED
  BY <1>1, <1>2, <1>4, <1>5, <1>6 DEF LayoutInv

LEMMA InspectionKeeps ==
  ASSUME LayoutInv, NEW p \in Users, NEW t \in {"open", "migrate"}, Inspect(p, t)
  PROVE  LayoutInv'
<1>1. LayoutTypes
  BY DEF LayoutInv
<1>2. PICK l \in {"share", "exclude", "lock", "idle"} : Enter(p, l)
  BY DEF Inspect
<1>3. /\ phase' \in [Users -> Phases] /\ phase'[p] = l
      /\ \A q \in Users : q # p => phase'[q] = phase[q]
  BY <1>1, <1>2, EnterMoves DEF Phases
<1>4. /\ errand' \in [Users -> Tasks] /\ errand'[p] = t
      /\ \A q \in Users : q # p => errand'[q] = errand[q]
  BY <1>1 DEF Inspect, LayoutTypes, Tasks
<1>5. /\ phase[p] = "idle" /\ UNCHANGED <<backups, lease, expected, waived, written>>
      /\ overtaken' = (overtaken \/ (wal # {} /\ \E q \in Users : phase[q] = "sidecars"))
      /\ Touch(Using)
  BY DEF Inspect
<1>6. LeaseHeld'
  BY <1>3, <1>5 DEF LayoutInv, LeaseHeld, lease, Sharing, Excluding
<1>7. /\ db' \in (SUBSET Facts) \cup {Absent} /\ wal' \in SUBSET Facts
      /\ db' = Absent <=> db = Absent
      /\ Visible' = Visible /\ (wal = {} => db' = db) /\ (wal = {} => wal' = {})
  BY <1>1, <1>5, TouchKeeps
<1>8. RightlyAt(p)'
  BY <1>3, <1>4 DEF RightlyAt
<1> QED
  BY <1>3, <1>4, <1>5, <1>6, <1>7, <1>8, MovesKeep

LEMMA StartKeeps ==
  ASSUME LayoutInv, NEW p \in Users,
         NEW t \in {"backup", "rollback", "restore", "overwrite"}, Start(p, t)
  PROVE  LayoutInv'
<1>1. LayoutTypes
  BY DEF LayoutInv
<1>2. PICK l \in {"share", "lock", "exclude"} :
        Enter(p, l) /\ (l # "share" => t # "backup")
  BY DEF Start
<1>3. /\ phase' \in [Users -> Phases] /\ phase'[p] = l
      /\ \A q \in Users : q # p => phase'[q] = phase[q]
  BY <1>1, <1>2, EnterMoves DEF Phases
<1>4. /\ errand' \in [Users -> Tasks] /\ errand'[p] = t
      /\ \A q \in Users : q # p => errand'[q] = errand[q]
  BY <1>1 DEF Start, LayoutTypes, Tasks
<1>5. /\ phase[p] = "idle"
      /\ UNCHANGED <<layout, lease, expected, waived, overtaken, written>>
  BY DEF Start, layoutHistory
<1>6. LeaseHeld'
  BY <1>3, <1>5 DEF LayoutInv, LeaseHeld, lease, Sharing, Excluding
<1>7. RightlyAt(p)'
  BY <1>2, <1>3, <1>4 DEF RightlyAt
<1> QED
  BY <1>1, <1>3, <1>4, <1>5, <1>6, <1>7, MovesKeep DEF LayoutTypes, layout, Visible

\* A step that moves one process only.
LEMMA OnlyMoves ==
  ASSUME LayoutInv, NEW p \in Users, NEW l \in Phases, Enter(p, l), LeaseHeld',
         UNCHANGED <<layout, errand, expected, waived, overtaken, written>>,
         phase[p] # "sidecars", RightlyAt(p)'
  PROVE  LayoutInv'
<1>1. LayoutTypes
  BY DEF LayoutInv
<1>2. /\ phase' \in [Users -> Phases] /\ \A q \in Users : q # p => phase'[q] = phase[q]
  BY <1>1, EnterMoves
<1> QED
  BY <1>1, <1>2, MovesKeep DEF LayoutTypes, layout, Visible

LEMMA GivesUp ==
  ASSUME LayoutInv, NEW p \in Users, Depart(p), phase[p] # "sidecars",
         UNCHANGED <<layout, errand, expected, waived, overtaken, written>>
  PROVE  LayoutInv'
<1>1. LayoutTypes /\ Enter(p, "idle") /\ "idle" \in Phases
  BY DEF LayoutInv, Depart, Phases
<1>2. phase'[p] = "idle"
  BY <1>1, EnterMoves
<1>3. RightlyAt(p)'
  BY <1>2 DEF RightlyAt
<1> QED
  BY <1>1, <1>3, DepartLeaves, OnlyMoves

LEMMA FencesKeep ==
  ASSUME LayoutInv, NEW p \in Users, Lock(p) \/ Steal(p) \/ Share(p)
  PROVE  LayoutInv'
<1>1. /\ phase[p] \in {"lock", "steal", "share"}
      /\ UNCHANGED <<layout, errand, expected, waived, overtaken, written>>
  BY DEF Lock, Steal, Share, layoutHistory
<1>2. PICK l \in {"exclude", "steal", "idle", "lock", "check"} :
        /\ Enter(p, l)
        /\ l \in {"exclude", "steal", "lock"} => phase[p] \in {"lock", "steal"}
        /\ IF l = "check" THEN excluder = NoUser /\ sharers' = sharers \cup {p} ELSE UNCHANGED sharers
        /\ UNCHANGED excluder
  BY DEF Lock, Steal, Share, lease
<1>3. /\ l \in Phases /\ phase'[p] = l /\ \A q \in Users : q # p => phase'[q] = phase[q]
  <2>1. LayoutTypes /\ l \in Phases
    BY DEF LayoutInv, Phases, Sharing
  <2> QED
    BY <1>2, <2>1, EnterMoves
<1>4. LeaseHeld'
  BY <1>1, <1>2, <1>3, Databases DEF LayoutInv, LeaseHeld, Sharing, Excluding
<1>5. RightlyAt(p)'
  BY <1>1, <1>2, <1>3 DEF LayoutInv, Errands, RightlyAt
<1> QED
  BY <1>1, <1>2, <1>3, <1>4, <1>5, OnlyMoves

LEMMA ExcludeKeeps ==
  ASSUME LayoutInv, NEW p \in Users, Exclude(p)
  PROVE  LayoutInv'
<1>1. /\ phase[p] = "exclude" /\ UNCHANGED <<layout, errand, expected, waived, overtaken, written>>
  BY DEF Exclude, layoutHistory
<1>2. CASE sharers = {} /\ excluder = NoUser
  <2>1. PICK l \in {"bootstrap", "replan", "preserve", "keep"} :
          Enter(p, l) /\ (l = "keep" => errand[p] \notin {"open", "migrate", "rollback"})
    BY <1>2 DEF Exclude
  <2>2. /\ l \in Phases /\ phase'[p] = l /\ \A q \in Users : q # p => phase'[q] = phase[q]
    <3>1. LayoutTypes /\ l \in Phases
      BY DEF LayoutInv, Phases, Excluding
    <3> QED
      BY <2>1, <3>1, EnterMoves
  <2>3. excluder' = p /\ UNCHANGED sharers
    BY <1>2 DEF Exclude
  <2>4. LeaseHeld'
    BY <1>1, <1>2, <2>2, <2>3, Databases DEF LayoutInv, LeaseHeld, Sharing, Excluding
  <2>5. RightlyAt(p)'
    BY <1>1, <2>1, <2>2 DEF LayoutInv, Errands, RightlyAt
  <2> QED
    BY <1>1, <2>1, <2>2, <2>4, <2>5, OnlyMoves
<1>3. CASE Enter(p, "share") /\ UNCHANGED <<fence, lease>>
  <2>1. LayoutTypes /\ "share" \in Phases
    BY DEF LayoutInv, Phases
  <2>2. phase'[p] = "share" /\ \A q \in Users : q # p => phase'[q] = phase[q]
    BY <1>3, <2>1, EnterMoves
  <2>3. LeaseHeld'
    BY <1>1, <1>3, <2>2 DEF LayoutInv, LeaseHeld, lease, Sharing, Excluding
  <2>4. RightlyAt(p)'
    BY <2>2 DEF RightlyAt
  <2> QED
    BY <1>1, <1>3, <2>1, <2>3, <2>4, OnlyMoves
<1>4. CASE Depart(p)
  BY <1>1, <1>4, GivesUp
<1> QED
  BY <1>2, <1>3, <1>4 DEF Exclude

LEMMA CheckKeeps ==
  ASSUME LayoutInv, NEW p \in Users, Check(p)
  PROVE  LayoutInv'
<1>1. /\ phase[p] = "check" /\ UNCHANGED <<layout, errand, expected, waived, overtaken, written>>
  BY DEF Check, layoutHistory
<1>2. CASE Status = "current"
  <2>1. PICK l \in {"using", "copy"} : Enter(p, l) /\ UNCHANGED lease
    BY <1>2 DEF Check
  <2>2. l \in Phases /\ phase'[p] = l /\ \A q \in Users : q # p => phase'[q] = phase[q]
    <3>1. LayoutTypes /\ l \in Phases
      BY DEF LayoutInv, Phases, Sharing
    <3> QED
      BY <2>1, <3>1, EnterMoves
  <2>3. LeaseHeld'
    BY <1>1, <2>1, <2>2 DEF LayoutInv, LeaseHeld, lease, Sharing, Excluding
  <2>4. RightlyAt(p)'
    BY <1>1, <1>2, <2>2 DEF RightlyAt, Status, layout
  <2> QED
    BY <1>1, <2>1, <2>2, <2>3, <2>4, OnlyMoves
<1>3. CASE Depart(p)
  BY <1>1, <1>3, GivesUp
<1> QED
  BY <1>2, <1>3 DEF Check

\* A shared lease keeps every exclusive step away, an exclusive one every other.
LEMMA Alone ==
  ASSUME LayoutInv, NEW p \in Users
  PROVE  /\ phase[p] \in Sharing => \A q \in Users : phase[q] \notin Excluding
         /\ phase[p] \in Excluding =>
              \A q \in Users : q # p => phase[q] \notin Sharing \cup Excluding
BY Databases DEF LayoutInv, LeaseHeld

LEMMA ReleaseKeeps ==
  ASSUME LayoutInv, NEW p \in Users, Close(p) \/ CopyOut(p)
  PROVE  LayoutInv'
<1>1. PICK users : Touch(users)
  BY DEF Close, CopyOut
<1>2. /\ phase[p] \in {"using", "copy"} /\ Depart(p) /\ backups \subseteq backups'
      /\ UNCHANGED <<errand, expected, waived, overtaken, written>>
  BY DEF Close, CopyOut, layoutHistory
<1>3. LayoutTypes /\ Enter(p, "idle") /\ "idle" \in Phases
  BY <1>2 DEF LayoutInv, Depart, Phases
<1>4. /\ phase' \in [Users -> Phases] /\ phase'[p] = "idle"
      /\ \A q \in Users : q # p => phase'[q] = phase[q]
  BY <1>3, EnterMoves
<1>5. /\ db' \in (SUBSET Facts) \cup {Absent} /\ wal' \in SUBSET Facts
      /\ db' = Absent <=> db = Absent
      /\ Visible' = Visible /\ (wal = {} => db' = db) /\ (wal = {} => wal' = {})
  BY <1>1, <1>3, TouchKeeps
<1>6. ~ \E q \in Users : phase[q] = "sidecars"
  BY <1>2, Alone DEF Sharing, Excluding
<1>7. RightlyAt(p)'
  BY <1>4 DEF RightlyAt
<1>8. errand' \in [Users -> Tasks]
  BY <1>2, <1>3 DEF LayoutTypes
<1> QED
  BY <1>2, <1>4, <1>5, <1>6, <1>7, <1>8, DepartLeaves, MovesKeep

LEMMA CheckpointKeeps ==
  ASSUME LayoutInv, Checkpoint
  PROVE  LayoutInv'
<1>1. PICK p \in Users : phase[p] = "using"
  BY DEF Checkpoint, Using
<1>2. ~ \E q \in Users : phase[q] = "sidecars"
  BY <1>1, Alone DEF Sharing, Excluding
<1>3. /\ db' = Visible /\ wal' = {} /\ db # Absent
      /\ UNCHANGED <<backups, lease, errand, phase, expected, waived, overtaken, written>>
  BY <1>1 DEF Checkpoint, LayoutInv, Prepared, layoutHistory
<1>4. LayoutTypes /\ Touch({})
  BY <1>3 DEF LayoutInv, Touch
<1>5. /\ db' \in (SUBSET Facts) \cup {Absent} /\ wal' \in SUBSET Facts
      /\ db' = Absent <=> db = Absent
      /\ Visible' = Visible /\ (wal = {} => db' = db) /\ (wal = {} => wal' = {})
  BY <1>4, TouchKeeps
<1>6. LeaseHeld'
  BY <1>3 DEF LayoutInv, LeaseHeld, lease
<1>7. RightlyAt(p)'
  BY <1>1, <1>3, <1>5 DEF RightlyAt
<1>8. phase' \in [Users -> Phases] /\ errand' \in [Users -> Tasks]
  BY <1>3, <1>4 DEF LayoutTypes
<1>9. phase[p] # "sidecars" /\ UNCHANGED <<phase, errand>>
  BY <1>1, <1>3
<1> QED
  BY <1>2, <1>3, <1>5, <1>6, <1>7, <1>8, <1>9, MovesKeep

LEMMA ReplanKeeps ==
  ASSUME LayoutInv, NEW p \in Users, Replan(p)
  PROVE  LayoutInv'
<1>1. /\ phase[p] = "replan" /\ UNCHANGED <<db, wal, errand, expected, waived, overtaken, written>>
  BY DEF Replan, layoutHistory
<1>2. CASE Status = "migration_required"
  <2>1. backups' = backups \cup {Legacy} /\ Enter(p, "publish") /\ UNCHANGED lease
    BY <1>2 DEF Replan
  <2>2. LayoutTypes /\ "publish" \in Phases
    BY DEF LayoutInv, Phases, Excluding
  <2>3. /\ phase' \in [Users -> Phases] /\ phase'[p] = "publish"
        /\ \A q \in Users : q # p => phase'[q] = phase[q]
    BY <2>1, <2>2, EnterMoves
  <2>4. LeaseHeld'
    BY <1>1, <2>1, <2>3 DEF LayoutInv, LeaseHeld, lease, Sharing, Excluding
  <2>5. RightlyAt(p)'
    BY <1>1, <1>2, <2>3 DEF RightlyAt, Status
  <2> QED
    BY <1>1, <2>1, <2>2, <2>3, <2>4, <2>5, MovesKeep DEF LayoutTypes, Visible
<1>3. CASE Depart(p) /\ UNCHANGED backups
  BY <1>1, <1>3, GivesUp DEF layout
<1> QED
  BY <1>2, <1>3 DEF Replan

LEMMA PreserveKeeps ==
  ASSUME LayoutInv, NEW p \in Users, Preserve(p)
  PROVE  LayoutInv'
<1>1. /\ phase[p] = "preserve" /\ UNCHANGED <<errand, expected, waived, overtaken, written>>
  BY DEF Preserve, layoutHistory
<1>2. CASE Status = "current" /\ legacy
  <2>1. /\ backups' = backups \cup {Visible} /\ Enter(p, "deactivate") /\ UNCHANGED lease
        /\ db' = Visible /\ wal' = {} /\ db # Absent
    BY <1>2 DEF Preserve, Copied, Status
  <2>2. LayoutTypes /\ "deactivate" \in Phases /\ Touch({})
    BY <2>1 DEF LayoutInv, Phases, Excluding, Touch
  <2>3. /\ phase' \in [Users -> Phases] /\ phase'[p] = "deactivate"
        /\ \A q \in Users : q # p => phase'[q] = phase[q]
    BY <2>1, <2>2, EnterMoves
  <2>4. LeaseHeld'
    BY <1>1, <2>1, <2>3 DEF LayoutInv, LeaseHeld, lease, Sharing, Excluding
  <2>5. /\ db' \in (SUBSET Facts) \cup {Absent} /\ wal' \in SUBSET Facts
        /\ db' = Absent <=> db = Absent
        /\ Visible' = Visible /\ (wal = {} => db' = db) /\ (wal = {} => wal' = {})
    BY <2>2, TouchKeeps
  <2>6. RightlyAt(p)'
    BY <2>1, <2>3, <2>5 DEF RightlyAt
  <2>7. ~ \E q \in Users : phase[q] = "sidecars"
    BY <1>1, Alone DEF Excluding
  <2> QED
    BY <1>1, <2>1, <2>2, <2>3, <2>4, <2>5, <2>6, <2>7, MovesKeep DEF LayoutTypes
<1>3. CASE Depart(p) /\ UNCHANGED layout
  BY <1>1, <1>3, GivesUp
<1> QED
  BY <1>2, <1>3 DEF Preserve

LEMMA KeepKeeps ==
  ASSUME LayoutInv, NEW p \in Users, Keep(p)
  PROVE  LayoutInv'
<1>1. /\ phase[p] = "keep" /\ UNCHANGED <<lease, errand, expected, waived, overtaken, written>>
      /\ Enter(p, "replace")
  BY DEF Keep, layoutHistory
<1>2. LayoutTypes /\ "replace" \in Phases
  BY DEF LayoutInv, Phases, Excluding
<1>3. /\ phase' \in [Users -> Phases] /\ phase'[p] = "replace"
      /\ \A q \in Users : q # p => phase'[q] = phase[q]
  BY <1>1, <1>2, EnterMoves
<1>4. LeaseHeld'
  BY <1>1, <1>3 DEF LayoutInv, LeaseHeld, lease, Sharing, Excluding
<1>5. /\ backups \subseteq backups'
      /\ errand[p] = "restore" /\ db # Absent => Visible \in backups'
      /\ Touch({}) \/ UNCHANGED <<db, wal>>
  BY DEF Keep, Copied, layout
<1>6. /\ db' \in (SUBSET Facts) \cup {Absent} /\ wal' \in SUBSET Facts
      /\ db' = Absent <=> db = Absent
      /\ Visible' = Visible /\ (wal = {} => db' = db) /\ (wal = {} => wal' = {})
  BY <1>2, <1>5, TouchKeeps DEF LayoutTypes, Visible
<1>7. RightlyAt(p)'
  BY <1>1, <1>3, <1>5, <1>6 DEF RightlyAt, LayoutInv, Errands
<1>8. ~ \E q \in Users : phase[q] = "sidecars"
  BY <1>1, Alone DEF Excluding
<1> QED
  BY <1>1, <1>2, <1>3, <1>4, <1>5, <1>6, <1>7, <1>8, MovesKeep DEF LayoutTypes

\* A runtime that has the lease for itself shares it from then on.
LEMMA BootstrapKeeps ==
  ASSUME LayoutInv, NEW p \in Users, Bootstrap(p)
  PROVE  LayoutInv'
<1>1. /\ phase[p] = "bootstrap" /\ UNCHANGED <<legacy, errand, waived, overtaken, written>>
  BY DEF Bootstrap
<1>2. CASE Depart(p) /\ UNCHANGED <<layout, expected>>
  BY <1>1, <1>2, GivesUp
<1>3. CASE /\ excluder' = NoUser /\ sharers' = sharers \cup {p} /\ Enter(p, "using")
           /\ Status # "migration_required"
           /\ IF Status = "uninitialized"
              THEN db' = {} /\ wal' = {} /\ expected' = {} /\ UNCHANGED backups
              ELSE UNCHANGED <<layout, expected>>
  <2>1. LayoutTypes /\ "using" \in Phases
    BY DEF LayoutInv, Phases, Sharing
  <2>2. /\ phase' \in [Users -> Phases] /\ phase'[p] = "using"
        /\ \A q \in Users : q # p => phase'[q] = phase[q]
    BY <1>3, <2>1, EnterMoves
  <2>3. \A q \in Users : q # p => phase[q] \notin Sharing \cup Excluding
    BY <1>1, Alone DEF Excluding
  <2>4. LeaseHeld'
    BY <1>1, <1>3, <2>2, <2>3, Databases DEF LayoutInv, LeaseHeld, Sharing, Excluding
  <2>5. CASE db # Absent /\ UNCHANGED <<layout, expected>>
    <3>1. RightlyAt(p)'
      BY <2>2, <2>5 DEF RightlyAt, layout
    <3> QED
      BY <1>1, <1>3, <2>1, <2>4, <2>5, <3>1, OnlyMoves
  <2>6. CASE db = Absent /\ db' = {} /\ wal' = {} /\ expected' = {} /\ UNCHANGED backups
    <3>1. LayoutTypes'
      BY <1>1, <2>1, <2>2, <2>6, Databases DEF LayoutTypes
    <3>2. Errands' /\ Prepared'
      BY <1>1, <2>2, <2>3, <2>6, Databases
         DEF LayoutInv, Errands, Prepared, Sharing, Excluding
    <3>3. DatabaseStands'
      BY <2>2, <2>3, <2>6, Databases DEF DatabaseStands, Visible, Excluding
    <3>4. NothingLost'
      BY <1>1, <2>6 DEF LayoutInv, NothingLost
    <3> QED
      BY <2>4, <3>1, <3>2, <3>3, <3>4 DEF LayoutInv
  <2> QED
    BY <1>3, <2>5, <2>6 DEF Status
<1> QED
  BY <1>2, <1>3 DEF Bootstrap

\* Only a runtime with a lease writes, so no publication is between its steps.
LEMMA WriteKeeps ==
  ASSUME LayoutInv, NEW p \in Users, Write(p)
  PROVE  LayoutInv'
<1> DEFINE w == written + 1
<1>1. /\ phase[p] = "using" /\ written < MaxWrites /\ written' = w
      /\ wal' = wal \cup {w} /\ expected' = expected \cup {w}
      /\ UNCHANGED <<db, backups, lease, errand, phase, waived, overtaken>>
  BY DEF Write
<1>2. db # Absent /\ LayoutTypes
  BY <1>1 DEF LayoutInv, Prepared
<1>3. w \in Facts /\ w \in 0 .. MaxWrites /\ 1 .. written' \subseteq (1 .. written) \cup {w}
  BY <1>1, <1>2, Databases DEF Facts, LayoutTypes
<1>4. \A q \in Users : phase[q] \notin Excluding
  BY <1>1, Alone DEF Sharing
<1>5. Visible' = Visible \cup {w}
  BY <1>1 DEF Visible
<1> HIDE DEF w
<1>6. LayoutTypes'
  BY <1>1, <1>2, <1>3 DEF LayoutTypes
<1>7. LeaseHeld' /\ Errands'
  BY <1>1 DEF LayoutInv, LeaseHeld, lease, Errands
<1>8. Prepared'
  BY <1>1, <1>4 DEF LayoutInv, Prepared, Excluding
<1>9. DatabaseStands'
  BY <1>1, <1>2, <1>4, <1>5 DEF LayoutInv, DatabaseStands, Excluding
<1>10. NothingLost'
  BY <1>1, <1>2, <1>3, <1>5 DEF LayoutInv, NothingLost
<1> QED
  BY <1>6, <1>7, <1>8, <1>9, <1>10 DEF LayoutInv

LEMMA MigrationKeeps ==
  ASSUME LayoutInv, NEW p \in Users, PublishMigrated(p)
  PROVE  LayoutInv'
<1>1. /\ phase[p] = "publish" /\ db' = Legacy /\ expected' = Legacy /\ Depart(p)
      /\ UNCHANGED <<wal, backups, errand, waived, overtaken, written>>
  BY DEF PublishMigrated
<1>2. LayoutTypes /\ db = Absent /\ wal = {}
  BY <1>1 DEF LayoutInv, Prepared, DatabaseStands
<1>3. /\ phase' \in [Users -> Phases] /\ phase'[p] = "idle"
      /\ \A q \in Users : q # p => phase'[q] = phase[q]
  BY <1>1, <1>2, EnterMoves DEF Depart, Phases
<1>4. \A q \in Users : q # p => phase[q] \notin Sharing \cup Excluding
  BY <1>1, Alone DEF Excluding
<1>5. LayoutTypes'
  BY <1>1, <1>2, <1>3, Databases DEF LayoutTypes
<1>6. LeaseHeld'
  BY <1>1, DepartLeaves
<1>7. Errands' /\ Prepared'
  BY <1>1, <1>3, <1>4 DEF LayoutInv, Errands, Prepared, Sharing, Excluding
<1>8. DatabaseStands'
  BY <1>1, <1>2, <1>3, <1>4, Databases DEF DatabaseStands, Visible, Excluding
<1>9. NothingLost'
  BY <1>1, <1>2 DEF LayoutInv, NothingLost
<1> QED
  BY <1>5, <1>6, <1>7, <1>8, <1>9 DEF LayoutInv

\* A rollback takes the database away after it is copied.
LEMMA DeactivateKeeps ==
  ASSUME LayoutInv, NEW p \in Users, Deactivate(p)
  PROVE  LayoutInv'
<1>1. /\ phase[p] = "deactivate" /\ db' = Absent /\ wal' = {} /\ expected' = Absent
      /\ Depart(p) /\ UNCHANGED <<backups, errand, waived, overtaken, written>>
  BY DEF Deactivate
<1>2. LayoutTypes /\ Visible \in backups
  BY <1>1 DEF LayoutInv, Prepared
<1>3. /\ phase' \in [Users -> Phases] /\ phase'[p] = "idle"
      /\ \A q \in Users : q # p => phase'[q] = phase[q]
  BY <1>1, <1>2, EnterMoves DEF Depart, Phases
<1>4. \A q \in Users : q # p => phase[q] \notin Sharing \cup Excluding
  BY <1>1, Alone DEF Excluding
<1>5. LayoutTypes'
  BY <1>1, <1>2, <1>3 DEF LayoutTypes
<1>6. LeaseHeld'
  BY <1>1, DepartLeaves
<1>7. Errands' /\ Prepared'
  BY <1>1, <1>3, <1>4 DEF LayoutInv, Errands, Prepared, Sharing, Excluding
<1>8. DatabaseStands'
  BY <1>1 DEF DatabaseStands
<1>9. NothingLost'
  BY <1>1, <1>2 DEF LayoutInv, NothingLost
<1> QED
  BY <1>5, <1>6, <1>7, <1>8, <1>9 DEF LayoutInv

\* The file is replaced: what it and its log held is set aside by then, or given up.
LEMMA ReplaceKeeps ==
  ASSUME LayoutInv, NEW p \in Users, ReplaceDatabase(p)
  PROVE  LayoutInv'
<1>1. /\ phase[p] = "replace" /\ db' = Source /\ expected' = Source /\ Enter(p, "sidecars")
      /\ waived' = IF db # Absent /\ errand[p] = "overwrite" THEN waived \cup Visible ELSE waived
      /\ UNCHANGED <<wal, backups, lease, errand, overtaken, written>>
  BY DEF ReplaceDatabase
<1>2. LayoutTypes /\ "sidecars" \in Phases
  BY DEF LayoutInv, Phases, Excluding
<1>3. /\ phase' \in [Users -> Phases] /\ phase'[p] = "sidecars"
      /\ \A q \in Users : q # p => phase'[q] = phase[q]
  BY <1>1, <1>2, EnterMoves
<1>4. \A q \in Users : q # p => phase[q] \notin Sharing \cup Excluding
  BY <1>1, Alone DEF Excluding
<1>5. LayoutTypes'
  BY <1>1, <1>2, <1>3, Databases DEF LayoutTypes
<1>6. LeaseHeld'
  BY <1>1, <1>3 DEF LayoutInv, LeaseHeld, lease, Sharing, Excluding
<1>7. \A w \in 1 .. written : SetAside(w)'
  <2>1. TAKE w \in 1 .. written
  <2>2. waived \subseteq waived'
    BY <1>1
  <2>3. CASE db # Absent /\ w \in Visible
    <3>1. errand[p] \in {"restore", "overwrite"}
      BY <1>1 DEF LayoutInv, Errands
    <3>2. CASE errand[p] = "restore"
      BY <1>1, <2>3, <3>2 DEF LayoutInv, Prepared, SetAside
    <3>3. CASE errand[p] = "overwrite"
      BY <1>1, <2>3, <3>3 DEF SetAside
    <3> QED
      BY <3>1, <3>2, <3>3
  <2>4. CASE w \in waived \/ \E b \in backups : w \in b
    BY <1>1, <2>2, <2>4 DEF SetAside
  <2> QED
    BY <2>3, <2>4 DEF LayoutInv, NothingLost
<1>8. Errands'
  BY <1>1, <1>3 DEF LayoutInv, Errands
<1>9. Prepared'
  BY <1>1, <1>3, <1>4, <1>7, Databases DEF Prepared, Sharing, Excluding
<1>10. DatabaseStands'
  BY <1>1, <1>3, Databases DEF DatabaseStands
<1>11. NothingLost'
  BY <1>1, <1>7 DEF NothingLost, SetAside
<1> QED
  BY <1>5, <1>6, <1>8, <1>9, <1>10, <1>11 DEF LayoutInv

LEMMA SidecarsKeep ==
  ASSUME LayoutInv, NEW p \in Users, Sidecars(p)
  PROVE  LayoutInv'
<1>1. /\ phase[p] = "sidecars" /\ wal' = {} /\ Depart(p)
      /\ UNCHANGED <<db, backups, errand, expected, waived, overtaken, written>>
  BY DEF Sidecars, layoutHistory
<1>2. LayoutTypes /\ db # Absent
  BY <1>1 DEF LayoutInv, Prepared
<1>3. /\ phase' \in [Users -> Phases] /\ phase'[p] = "idle"
      /\ \A q \in Users : q # p => phase'[q] = phase[q]
  BY <1>1, <1>2, EnterMoves DEF Depart, Phases
<1>4. \A q \in Users : q # p => phase[q] \notin Sharing \cup Excluding
  BY <1>1, Alone DEF Excluding
<1>5. LayoutTypes'
  BY <1>1, <1>2, <1>3 DEF LayoutTypes
<1>6. LeaseHeld'
  BY <1>1, DepartLeaves
<1>7. Errands' /\ Prepared'
  BY <1>1, <1>3, <1>4 DEF LayoutInv, Errands, Prepared, Sharing, Excluding
<1>8. DatabaseStands'
  <2>1. Visible' = db
    BY <1>1, <1>2 DEF Visible, LayoutTypes
  <2>2. ~ \E q \in Users : phase'[q] = "sidecars"
    BY <1>3, <1>4 DEF Excluding
  <2> QED
    BY <1>1, <1>2, <2>1, <2>2 DEF LayoutInv, DatabaseStands
<1>9. NothingLost'
  BY <1>1 DEF LayoutInv, Prepared, NothingLost, SetAside
<1> QED
  BY <1>5, <1>6, <1>7, <1>8, <1>9 DEF LayoutInv

\* A stop between the file and its log leaves both, unless the log was empty.
LEMMA KillKeeps ==
  ASSUME LayoutInv, NEW p \in Users, Kill(p)
  PROVE  LayoutInv'
<1>1. /\ sharers' = sharers \ {p} /\ excluder' = IF excluder = p THEN NoUser ELSE excluder
      /\ Enter(p, "idle") /\ overtaken' = (overtaken \/ (phase[p] = "sidecars" /\ wal # {}))
      /\ UNCHANGED <<db, wal, backups, errand, expected, waived, written>>
  BY DEF Kill, layout
<1>2. LayoutTypes
  BY DEF LayoutInv
<1>3. /\ phase' \in [Users -> Phases] /\ phase'[p] = "idle"
      /\ \A q \in Users : q # p => phase'[q] = phase[q]
  BY <1>1, <1>2, EnterMoves DEF Phases
<1>4. LayoutTypes'
  BY <1>1, <1>2, <1>3 DEF LayoutTypes
<1>5. LeaseHeld'
  BY <1>1, <1>3, Databases DEF LayoutInv, LeaseHeld, Sharing, Excluding
<1>6. Errands'
  BY <1>1, <1>3 DEF LayoutInv, Errands
<1>7. Visible' = Visible /\ \A w : SetAside(w)' = SetAside(w)
  BY <1>1 DEF Visible, SetAside
<1>8. Prepared'
  BY <1>1, <1>3, <1>7 DEF LayoutInv, Prepared
<1>9. DatabaseStands'
  <2>1. CASE phase[p] = "sidecars" /\ wal # {}
    BY <1>1, <2>1 DEF LayoutInv, Prepared, DatabaseStands
  <2>2. CASE phase[p] = "sidecars" /\ wal = {}
    <3>1. Visible = db /\ db # Absent
      BY <1>2, <2>2 DEF LayoutInv, Prepared, LayoutTypes, Visible
    <3>2. ~ \E q \in Users : phase'[q] = "sidecars"
      BY <1>3, <2>2, Alone DEF Excluding
    <3> QED
      BY <1>1, <1>7, <2>2, <3>1, <3>2 DEF LayoutInv, DatabaseStands
  <2>3. CASE phase[p] # "sidecars"
    <3>1. (\E q \in Users : phase'[q] = "sidecars") <=> \E q \in Users : phase[q] = "sidecars"
      BY <1>3, <2>3
    <3> QED
      BY <1>1, <1>7, <2>3, <3>1 DEF LayoutInv, DatabaseStands
  <2> QED
    BY <2>1, <2>2, <2>3
<1>10. NothingLost'
  BY <1>1, <1>7 DEF LayoutInv, NothingLost
<1> QED
  BY <1>4, <1>5, <1>6, <1>8, <1>9, <1>10 DEF LayoutInv

LEMMA LayoutInvNext ==
  ASSUME LayoutInv, [LayoutNext]_layoutVars PROVE LayoutInv'
<1>1. CASE LayoutNext
  BY <1>1, InspectionKeeps, StartKeeps, FencesKeep, ExcludeKeeps, CheckKeeps, BootstrapKeeps,
     WriteKeeps, ReleaseKeeps, ReplanKeeps, MigrationKeeps, PreserveKeeps, DeactivateKeeps,
     KeepKeeps, ReplaceKeeps, SidecarsKeep, KillKeeps, CheckpointKeeps DEF LayoutNext
<1>2. CASE UNCHANGED layoutVars
  <2>1. UNCHANGED <<db, wal, backups, lease, errand, phase, expected, waived, overtaken, written>>
    BY <1>2 DEF layoutVars, layout, layoutHistory
  <2>2. LayoutTypes' /\ LeaseHeld' /\ Errands'
    BY <2>1 DEF LayoutInv, LayoutTypes, LeaseHeld, Errands, lease
  <2>3. Prepared' /\ DatabaseStands' /\ NothingLost'
    BY <2>1 DEF LayoutInv, Prepared, DatabaseStands, NothingLost, Visible, SetAside
  <2> QED
    BY <2>2, <2>3 DEF LayoutInv
<1> QED
  BY <1>1, <1>2

\* workspace_storage.py migrate, rollback and restore, for any processes, writes
\* and crashes: no committed fact is lost that its owner did not give up, and the
\* database is what was published last and written since, unless the log of a
\* replaced file outlived it.
THEOREM LayoutIsKept == LayoutSpec => []WorkspaceKept
<1>1. LayoutInit => LayoutInv
  BY LayoutInvInit
<1>2. LayoutInv /\ [LayoutNext]_layoutVars => LayoutInv'
  BY LayoutInvNext
<1>3. LayoutInv => WorkspaceKept
  <2> SUFFICES ASSUME LayoutInv PROVE WorkspaceKept
    OBVIOUS
  <2>1. excluder = NoUser => ~ \E p \in Users : phase[p] = "sidecars"
    BY Databases DEF LayoutInv, LeaseHeld, Excluding
  <2>2. DatabaseTrue
    BY <2>1 DEF LayoutInv, DatabaseStands, DatabaseTrue
  <2> QED
    BY <2>2 DEF LayoutInv, WorkspaceKept
<1> QED
  BY <1>1, <1>2, <1>3, PTL DEF LayoutSpec
=============================================================================
