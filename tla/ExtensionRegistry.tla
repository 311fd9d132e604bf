------------------------- MODULE ExtensionRegistry -------------------------
(***************************************************************************)
(* ExtensionRegistry (lipas/extensions.py): the certified extensions of a  *)
(* host, in one SQLite file that several handles share.  Each operation    *)
(* takes an advisory file lock, reloads the whole table into the handle's  *)
(* caches, changes them, writes the whole table back and lets the lock go; *)
(* only the load of a handle that is opening takes no lock.                *)
(*                                                                         *)
(* A host trusts by its own policy: what one handle registers, another may *)
(* refuse to load.  Modelled where fcntl is there; a registry without a    *)
(* path keeps its caches and does the same without lock, load and write.   *)
(***************************************************************************)
EXTENDS Naturals, Sequences

CONSTANTS
  Handles,
  Names,
  Records,   \* manifests with their artifacts, of version, artifact, signer and
             \* signature: "none", "good" or "bad"
  Policies,  \* the trust policies of hosts (each host has one): trusted signers, the
             \* signers whose secrets they know, whether a signature is required
  Nobody, Nothing,
  MaxHistory, MaxFaults  \* bounds

NobodyIsNoHandle == Nobody \notin Handles
VersionsAreNumbers == \A r \in Records : r.version \in Nat

VARIABLES
  table,    \* lipas_extension_registry: history_json and revoked of each name
  holder,   \* the handle that holds the file lock
  policy, stage, request,
  cache,    \* _records, _history and _revoked of each handle
  answer,   \* what the operation returns
  \* history and bound
  told,     \* what the operations that were committed make of the registry
  faults

handles == <<policy, stage, request, cache, answer>>
registryVars == <<table, holder, handles, told, faults>>

Unknown == [history |-> <<>>, revoked |-> FALSE]
NoNames == [n \in Names |-> Unknown]
Latest(entry) == entry.history[Len(entry.history)]

Requests ==
  [op : {"register"}, name : Names, record : Records, secret : BOOLEAN]
    \cup [op : {"revoke", "rollback", "get"}, name : Names]

RegistryInit ==
  /\ table = NoNames /\ told = NoNames
  /\ holder = Nobody
  /\ policy \in [Handles -> Policies]
  /\ stage = [h \in Handles |-> "closed"]
  /\ request = [h \in Handles |-> Nothing]
  /\ cache = [h \in Handles |-> NoNames]
  /\ answer = [h \in Handles |-> Nothing]
  /\ faults = 0

-----------------------------------------------------------------------------
(* Trust *)

\* ExtensionTrustPolicy.check: a signer that is named need not have signed,
\* unless signatures are required.
Trusts(p, record) ==
  /\ p.required => record.signature # "none"
  /\ p.trusted # {} => record.signer \in p.trusted

\* A signature is verified with the secret of its signer, if it is known.
Verifies(known, record) ==
  record.signature = "none" \/ (record.signature = "good" /\ record.signer \in known)

Loadable(p, record) == Trusts(p, record) /\ Verifies(p.known, record)

\* A load checks every version of every name, and fails on the first that it
\* does not trust.
LoadsFor(p) ==
  \A n \in Names : \A i \in 1 .. Len(table[n].history) :
    Loadable(p, table[n].history[i])

-----------------------------------------------------------------------------
(* Operations on the caches *)

\* The same bytes again: the name is revived if it was revoked.
SameAgain(entry, record) == entry.history # <<>> /\ Latest(entry) = record

Newer(entry, record) ==
  entry.history # <<>> => record.version > Latest(entry).version

\* What an operation makes of the entry of its name, or Nothing if it raises.
After(entry, q) ==
  CASE q.op = "register" /\ SameAgain(entry, q.record) -> [entry EXCEPT !.revoked = FALSE]
    [] q.op = "register" /\ ~SameAgain(entry, q.record) /\ Newer(entry, q.record) ->
         [history |-> Append(entry.history, q.record), revoked |-> FALSE]
    [] q.op = "revoke" /\ entry.history # <<>> -> [entry EXCEPT !.revoked = TRUE]
    [] q.op = "rollback" /\ Len(entry.history) >= 2 ->
         [history |-> SubSeq(entry.history, 1, Len(entry.history) - 1), revoked |-> FALSE]
    [] q.op = "get" -> entry
    [] OTHER -> Nothing

\* What it returns.
Returned(entry, q) ==
  CASE q.op \in {"register", "rollback"} -> Latest(entry)
    [] q.op = "get" /\ entry.history # <<>> /\ ~entry.revoked -> Latest(entry)
    [] OTHER -> Nothing

-----------------------------------------------------------------------------
(* Handles *)

\* The constructor: it raises, and closes, on a table it cannot load.
Open(h) ==
  /\ stage[h] = "closed"
  /\ LoadsFor(policy[h])
  /\ stage' = [stage EXCEPT ![h] = "idle"]
  /\ cache' = [cache EXCEPT ![h] = table]
  /\ UNCHANGED <<table, holder, policy, request, answer, told, faults>>

BeginOperation(h) ==
  /\ stage[h] = "idle" /\ holder = Nobody
  /\ holder' = h
  /\ \E q \in Requests :
       /\ q.op = "register" => Len(table[q.name].history) < MaxHistory
       /\ request' = [request EXCEPT ![h] = q]
  /\ stage' = [stage EXCEPT ![h] = "load"]
  /\ UNCHANGED <<table, policy, cache, answer, told, faults>>

\* Mutant: a handle that has loaded once trusts its caches.
Reloaded_Cached(h) == IF cache[h] = NoNames THEN table ELSE cache[h]

\* _reload_persisted.
Reloaded(h) == table

\* What it had read of a table it cannot load, nothing uses.
Load(h) ==
  /\ stage[h] = "load"
  /\ IF LoadsFor(policy[h])
     THEN /\ cache' = [cache EXCEPT ![h] = Reloaded(h)]
          /\ stage' = [stage EXCEPT ![h] = "apply"]
     ELSE /\ cache' = [cache EXCEPT ![h] = NoNames]
          /\ stage' = [stage EXCEPT ![h] = "unlock"]
  /\ UNCHANGED <<table, holder, policy, request, answer, told, faults>>

\* What a registration is refused for before the registry is looked at.  A
\* secret that comes with the request verifies its signature.
Admissible(h, q) ==
  q.op = "register" =>
    /\ Trusts(policy[h], q.record)
    /\ q.secret => q.record.signer # Nobody
    /\ Verifies(policy[h].known \cup (IF q.secret THEN {q.record.signer} ELSE {}), q.record)

Apply(h) ==
  /\ stage[h] = "apply"
  /\ LET q == request[h]
         entry == cache[h][q.name]
         after == IF Admissible(h, q) THEN After(entry, q) ELSE Nothing
     IN
     IF after = Nothing
     THEN stage' = [stage EXCEPT ![h] = "unlock"] /\ UNCHANGED <<cache, answer>>
     ELSE /\ cache' = [cache EXCEPT ![h][q.name] = after]
          /\ answer' = [answer EXCEPT ![h] = Returned(after, q)]
          /\ stage' = [stage EXCEPT ![h] = IF after = entry THEN "return" ELSE "persist"]
  /\ UNCHANGED <<table, holder, policy, request, told, faults>>

\* _persist replaces the whole table in one transaction.  The caches of a
\* handle that fails to commit are ahead of the file until the next reload.
Persist(h) ==
  /\ stage[h] = "persist"
  /\ \/ /\ table' = cache[h]
        /\ told' = LET q == request[h] IN
             [told EXCEPT ![q.name] = IF After(@, q) = Nothing THEN @ ELSE After(@, q)]
        /\ stage' = [stage EXCEPT ![h] = "return"]
        /\ UNCHANGED <<answer, faults>>
     \/ /\ faults < MaxFaults
        /\ faults' = faults + 1
        /\ answer' = [answer EXCEPT ![h] = Nothing]
        /\ stage' = [stage EXCEPT ![h] = "unlock"]
        /\ UNCHANGED <<table, told>>
  /\ UNCHANGED <<holder, policy, request, cache>>

\* The lock is let go however the operation ends.
End(h) ==
  /\ stage[h] \in {"return", "unlock"}
  /\ holder' = Nobody
  /\ stage' = [stage EXCEPT ![h] = "idle"]
  /\ request' = [request EXCEPT ![h] = Nothing]
  /\ answer' = [answer EXCEPT ![h] = Nothing]
  /\ UNCHANGED <<table, policy, cache, told, faults>>

\* The host is stopped anywhere and configured anew; the system frees its lock.
Restart(h) ==
  /\ faults < MaxFaults /\ faults' = faults + 1
  /\ stage' = [stage EXCEPT ![h] = "closed"]
  /\ holder' = IF holder = h THEN Nobody ELSE holder
  /\ cache' = [cache EXCEPT ![h] = NoNames]
  /\ request' = [request EXCEPT ![h] = Nothing]
  /\ answer' = [answer EXCEPT ![h] = Nothing]
  /\ \E p \in Policies : policy' = [policy EXCEPT ![h] = p]
  /\ UNCHANGED <<table, told>>

-----------------------------------------------------------------------------
RegistryNext ==
  \E h \in Handles :
    \/ Open(h) \/ BeginOperation(h) \/ Load(h) \/ Apply(h) \/ Persist(h) \/ End(h)
    \/ Restart(h)

RegistrySpec == RegistryInit /\ [][RegistryNext]_registryVars

-----------------------------------------------------------------------------
(* Properties *)

\* The file is what the committed operations make of it, one after the other:
\* no handle writes back a table that another has changed since.
NoOperationLost == table = told

\* The versions of a name only go up, whoever registers them.
VersionsAscend ==
  \A n \in Names : \A i \in 2 .. Len(table[n].history) :
    table[n].history[i - 1].version < table[n].history[i].version

\* What a handle hands out is the current version of a name that is not
\* revoked, is trusted by the handle's own policy, and is signed by a signer it
\* knows, if it is signed: a secret that came with the registration does not
\* get the extension past another handle, or past this one later.
OnlyTrustedHandedOut ==
  \A h \in Handles :
    stage[h] = "return" /\ answer[h] # Nothing =>
      LET q == request[h] IN
      /\ told[q.name].history # <<>> /\ ~told[q.name].revoked
      /\ answer[h] = Latest(told[q.name])
      /\ Trusts(policy[h], answer[h])
      /\ q.op # "register" => Loadable(policy[h], answer[h])

\* The shared registry: operations of several handles take effect one after the
\* other, versions go up, and a handle hands out what its host trusts
\* (extensions.py register, revoke, rollback, get).
RegistrySound == NoOperationLost /\ VersionsAscend /\ OnlyTrustedHandedOut
=============================================================================
