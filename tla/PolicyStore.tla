---------------------------- MODULE PolicyStore ----------------------------
(***************************************************************************)
(* WorkspacePolicyStore (lipas/coordination_policy.py): the immutable      *)
(* identities of a shared workspace and the approval authority they        *)
(* delegate, in one SQLite file.  put_delegation checks the identity it is *)
(* given, commits the two identities, and the delegation after them.       *)
(***************************************************************************)
EXTENDS Naturals, FiniteSets

CONSTANTS
  Processes,    \* processes that call the store
  Identities,
  Delegations,  \* delegation ids
  Grants,       \* the scope sets an identity or a delegation may have
  System,       \* the actor "system", not an identity
  Absent

Puts == [id : Delegations, grantor : Identities, delegate : Identities,
         scopes : Grants, by : Identities \cup {System}]

ASSUME AbsentIsApart == Absent \notin Grants \cup Puts

VARIABLES
  scopes,      \* identity -> its stored scopes, or Absent
  delegated,   \* delegation id -> [grantor, delegate, scopes, by], or Absent
  revoked,
  audit,
  putting      \* the put_delegation each client is in, past its own checks

policyVars == <<scopes, delegated, revoked, audit, putting>>

\* The scopes: "*", one prefix with its wildcard, and one without.
Scopes == {"*", "a:*", "a:x", "b"}

Covers(grant, s) ==
  grant = s \/ grant = "*" \/ (grant = "a:*" /\ s \in {"a:*", "a:x"})

\* WorkspaceIdentity.can and ApprovalDelegation.allows (before the expiry).
Allows(granted, s) == \E g \in granted : Covers(g, s)

PolicyInit ==
  /\ scopes = [i \in Identities |-> Absent]
  /\ delegated = [d \in Delegations |-> Absent]
  /\ revoked = {}
  /\ audit = {}
  /\ putting = [c \in Processes |-> Absent]

\* put_identity raises when the identity is stored with other data.
Compatible(i, s) == scopes[i] \in {Absent, s}

PutIdentity(i, s, by) ==
  /\ Compatible(i, s)
  /\ scopes' = [scopes EXCEPT ![i] = s]
  /\ audit' = audit \cup IF scopes[i] = s THEN {} ELSE {<<"identity", i, by>>}
  /\ UNCHANGED <<delegated, revoked, putting>>

\* Mutant: a grantor that holds one of the scopes may delegate them all.
MayGrant_Some(by, claimed, s) == by = System \/ \E x \in s : Allows(claimed, x)

\* The grantor as given in the call holds every scope it delegates.
MayGrant(by, claimed, s) == by = System \/ \A x \in s : Allows(claimed, x)

\* put_delegation up to its identities, one transaction each: the first one
\* stays when the second is refused.
BeginPut(c, d, g, claimed, to, held, s, by) ==
  LET fits == Compatible(to, held) /\ (to = g => held = claimed)
      put == IF fits THEN {g, to} ELSE {g} IN
  /\ putting[c] = Absent
  /\ by \in {g, System}
  /\ MayGrant(by, claimed, s)
  /\ Compatible(g, claimed)
  /\ scopes' = [i \in Identities |->
       IF i = g THEN claimed ELSE IF i \in put THEN held ELSE scopes[i]]
  /\ audit' = audit \cup {<<"identity", i, by>> : i \in {j \in put : scopes[j] = Absent}}
  /\ putting' = IF fits
                THEN [putting EXCEPT ![c] =
                       [id |-> d, grantor |-> g, delegate |-> to,
                        scopes |-> s, by |-> by]]
                ELSE putting
  /\ UNCHANGED <<delegated, revoked>>

\* The INSERT.  One that is stored with the same data is returned, revoked or
\* not; one with other data is refused.
EndPut(c) ==
  LET p == putting[c] IN
  /\ p # Absent
  /\ IF delegated[p.id] = Absent
     THEN /\ delegated' = [delegated EXCEPT ![p.id] = p]
          /\ audit' = audit \cup {<<"delegated", p.id, p.by>>}
     ELSE UNCHANGED <<delegated, audit>>
  /\ putting' = [putting EXCEPT ![c] = Absent]
  /\ UNCHANGED <<scopes, revoked>>

\* A client that stops has committed what it has committed.
Stop(c) ==
  /\ putting[c] # Absent
  /\ putting' = [putting EXCEPT ![c] = Absent]
  /\ UNCHANGED <<scopes, delegated, revoked, audit>>

Revoke(d, by) ==
  /\ delegated[d] # Absent
  /\ by \in {delegated[d].grantor, System}
  /\ revoked' = revoked \cup {d}
  /\ audit' = audit \cup IF d \in revoked THEN {} ELSE {<<"revoked", d, by>>}
  /\ UNCHANGED <<scopes, delegated, putting>>

PolicyNext ==
  \/ \E i \in Identities, s \in Grants : PutIdentity(i, s, System)
  \/ \E c \in Processes :
       \/ \E d \in Delegations, g, to \in Identities, claimed, held, s \in Grants :
            \E by \in {g, System} : BeginPut(c, d, g, claimed, to, held, s, by)
       \/ EndPut(c) \/ Stop(c)
  \/ \E d \in Delegations, by \in Identities \cup {System} : Revoke(d, by)

PolicySpec == PolicyInit /\ [][PolicyNext]_policyVars

-----------------------------------------------------------------------------
\* Whatever two clients store at once and wherever they stop, a delegation
\* names stored identities, one that its grantor made allows nothing that
\* this identity, as stored, is not allowed itself, and the audit names who
\* made and who revoked it, one actor each.
AuthorityWithinGrantor ==
  /\ \A d \in Delegations : delegated[d] # Absent =>
       LET g == delegated[d] IN
       /\ scopes[g.grantor] # Absent /\ scopes[g.delegate] # Absent
       /\ g.by # System =>
            \A s \in Scopes : Allows(g.scopes, s) => Allows(scopes[g.grantor], s)
       /\ {e \in audit : e[1] = "delegated" /\ e[2] = d}
            = {<<"delegated", d, g.by>>}
  /\ \A d \in Delegations :
       Cardinality({e \in audit : e[1] = "revoked" /\ e[2] = d})
         = IF d \in revoked THEN 1 ELSE 0
=============================================================================
