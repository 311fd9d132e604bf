------------------------------ MODULE Mailbox ------------------------------
(***************************************************************************)
(* The mailbox of a team (lipas/orchestration.py): messages handed to a    *)
(* recipient under a lease, one SQLite file shared by any number of hosts. *)
(* AgentOrchestrator.handoff (and Team.ask) sends one message, claims it,  *)
(* runs the recipient's handler and acknowledges; a poller claims batches. *)
(* Every transition writes its audit event in the same transaction, and    *)
(* mirrors the outbox to the claim tape after the commit: that call can    *)
(* raise when the transition already stands.                               *)
(***************************************************************************)
EXTENDS Naturals, FiniteSets

CONSTANTS
  Hosts,
  MessageCount,   \* messages 1 .. MessageCount, in the order of their ids
  Contents,
  NoPayload,        \* no payload: the message does not exist
  Limit,          \* limit of a poller's claim
  MaxAttempts,    \* claims of a message, at most
  MaxFaults       \* crashes and failed mirror calls, at most

VARIABLES
  payload,    \* message -> payload, NoPayload before it is sent
  status,     \* mailbox.status
  attempts,   \* mailbox.attempts; a claim's token is its number
  expired,    \* the lease has run out
  mailEvents,     \* mailbox_audit_events
  host,       \* the call each host is in
  repliedTo,   \* message -> the attempts whose acknowledge returned (history)
  faults

row == <<payload, status, attempts, expired>>
mailVars == <<row, mailEvents, host, repliedTo, faults>>

ASSUME NoPayloadIsNone == NoPayload \notin Contents
ASSUME AttemptsAreCounted == MaxAttempts \in Nat

MessageIds == 1 .. MessageCount
Free == [pc |-> "free", todo |-> {}, held |-> {}]

MailInit ==
  /\ payload = [m \in MessageIds |-> NoPayload]
  /\ status = [m \in MessageIds |-> "none"]
  /\ attempts = [m \in MessageIds |-> 0]
  /\ expired = [m \in MessageIds |-> FALSE]
  /\ mailEvents = {}
  /\ host = [h \in Hosts |-> Free]
  /\ repliedTo = [m \in MessageIds |-> {}]
  /\ faults = 0

SetHost(h, v) == host' = [host EXCEPT ![h] = v]

\* The mirror call after a commit returns, or raises what ends the call.
Mirrored(h, v) ==
  \/ SetHost(h, v) /\ UNCHANGED faults
  \/ SetHost(h, Free) /\ faults < MaxFaults /\ faults' = faults + 1

-----------------------------------------------------------------------------
(* Sending *)

\* An INSERT; a message of that id with the same contents is returned as it
\* is, and one with other contents is refused.
SendRow(m, p) ==
  \/ /\ payload[m] = NoPayload
     /\ payload' = [payload EXCEPT ![m] = p]
     /\ status' = [status EXCEPT ![m] = "pending"]
     /\ mailEvents' = mailEvents \cup {<<"handoff", m, 0>>}
  \/ /\ payload[m] = p
     /\ UNCHANGED <<payload, status, mailEvents>>

Send(h, m, p) ==
  /\ host[h].pc = "free"
  /\ SendRow(m, p)
  /\ Mirrored(h, Free)
  /\ UNCHANGED <<attempts, expired, repliedTo>>

\* handoff: a message that was acknowledged before is an error.
Handoff(h, m, p) ==
  /\ host[h].pc = "free"
  /\ SendRow(m, p)
  /\ Mirrored(h, IF status[m] = "acknowledged" THEN Free
                 ELSE [Free EXCEPT !.pc = "ask", !.todo = {m}])
  /\ UNCHANGED <<attempts, expired, repliedTo>>

-----------------------------------------------------------------------------
(* Leases *)

Lost(m) == status[m] = "leased" /\ expired[m]

Recoveries(S) == {<<"recovered", m, attempts[m]>> : m \in S}

\* recover_expired, one transaction, at the start of every claim.
RecoverExpired(h) ==
  LET lost == {m \in MessageIds : Lost(m)} IN
  /\ host[h].pc \in {"free", "ask"}
  /\ status' = [m \in MessageIds |-> IF m \in lost THEN "pending" ELSE status[m]]
  /\ expired' = [m \in MessageIds |-> IF m \in lost THEN FALSE ELSE expired[m]]
  /\ mailEvents' = mailEvents \cup Recoveries(lost)
  /\ Mirrored(h, [host[h] EXCEPT
                    !.pc = IF host[h].pc = "ask" THEN "claim one" ELSE "select"])
  /\ UNCHANGED <<payload, attempts, repliedTo>>

\* The SELECT of a poller; each message it names is claimed on its own later.
Select(h) ==
  LET pending == {m \in MessageIds : status[m] = "pending"} IN
  /\ host[h].pc = "select"
  /\ SetHost(h, [host[h] EXCEPT !.pc = "claim",
       !.todo = {m \in pending : Cardinality({q \in pending : q < m}) < Limit}])
  /\ UNCHANGED <<row, mailEvents, repliedTo, faults>>

Claimable(m) == status[m] = "pending"

\* The conditional UPDATE of one message.
ClaimMessage(h, m) ==
  /\ attempts[m] < MaxAttempts
  /\ status' = [status EXCEPT ![m] = "leased"]
  /\ attempts' = [attempts EXCEPT ![m] = @ + 1]
  /\ expired' = [expired EXCEPT ![m] = FALSE]
  /\ mailEvents' = mailEvents \cup {<<"claim", m, attempts[m] + 1>>}
  /\ UNCHANGED payload

\* The messages to claim are taken in the order of their ids.
Claim(h) ==
  LET c == host[h] IN
  /\ c.pc \in {"claim", "claim one"}
  /\ \E m \in c.todo :
       LET left == c.todo \ {m}
           taken == [c EXCEPT !.todo = left,
                              !.held = @ \cup {<<m, attempts[m] + 1>>}] IN
       /\ \A q \in left : m < q
       /\ \/ /\ Claimable(m)
             /\ ClaimMessage(h, m)
             /\ IF left # {} THEN SetHost(h, taken) /\ UNCHANGED faults
                ELSE Mirrored(h, taken)
          \/ /\ ~Claimable(m)
             /\ SetHost(h, [c EXCEPT !.todo = left])
             /\ UNCHANGED <<row, mailEvents, faults>>
  /\ UNCHANGED repliedTo

\* A handoff that could not claim its message raises.
Returned(h) ==
  /\ host[h].pc \in {"claim", "claim one"}
  /\ host[h].todo = {}
  /\ host[h].held = {}
  /\ SetHost(h, Free)
  /\ UNCHANGED <<row, mailEvents, repliedTo, faults>>

\* Mutant: the token of any attempt will do.
Owns_AnyToken(m, n) == status[m] = "leased" /\ ~expired[m]

\* The condition of the UPDATE in acknowledge and in release.
Owns(m, n) == status[m] = "leased" /\ attempts[m] = n /\ ~expired[m]

\* What is left of a call when it is done with one message.
Without(h, m, n) ==
  LET held == host[h].held \ {<<m, n>>} IN
  IF held = {} THEN Free ELSE [host[h] EXCEPT !.held = held]

\* The handler has returned.  A lease that ran out meanwhile is an error: the
\* work was done and the message will be delivered again.
Acknowledge(h, m, n) ==
  /\ host[h].todo = {} /\ <<m, n>> \in host[h].held
  /\ IF Owns(m, n)
     THEN /\ status' = [status EXCEPT ![m] = "acknowledged"]
          /\ expired' = [expired EXCEPT ![m] = FALSE]
          /\ mailEvents' = mailEvents \cup {<<"ack", m, 0>>}
          /\ \/ /\ SetHost(h, Without(h, m, n))
                /\ repliedTo' = [repliedTo EXCEPT ![m] = @ \cup {n}]
                /\ UNCHANGED faults
             \/ /\ faults < MaxFaults
                /\ faults' = faults + 1
                /\ SetHost(h, Without(h, m, n))
                /\ UNCHANGED repliedTo
     ELSE /\ SetHost(h, Without(h, m, n))
          /\ UNCHANGED <<status, expired, mailEvents, repliedTo, faults>>
  /\ UNCHANGED <<payload, attempts>>

\* The handler has raised; handoff ignores that its lease is gone.
Release(h, m, n) ==
  /\ host[h].todo = {} /\ <<m, n>> \in host[h].held
  /\ IF Owns(m, n)
     THEN /\ status' = [status EXCEPT ![m] = "pending"]
          /\ mailEvents' = mailEvents \cup {<<"released", m, n>>}
     ELSE UNCHANGED <<status, mailEvents>>
  /\ SetHost(h, Without(h, m, n))
  /\ UNCHANGED <<payload, attempts, expired, repliedTo, faults>>

-----------------------------------------------------------------------------
Expire(m) ==
  /\ status[m] = "leased" /\ ~expired[m]
  /\ expired' = [expired EXCEPT ![m] = TRUE]
  /\ UNCHANGED <<payload, status, attempts, mailEvents, host, repliedTo, faults>>

Crash(h) ==
  /\ host[h] # Free
  /\ faults < MaxFaults
  /\ faults' = faults + 1
  /\ SetHost(h, Free)
  /\ UNCHANGED <<row, mailEvents, repliedTo>>

MailNext ==
  \/ \E h \in Hosts :
       \/ \E m \in MessageIds, p \in Contents : Send(h, m, p) \/ Handoff(h, m, p)
       \/ RecoverExpired(h) \/ Select(h) \/ Claim(h) \/ Returned(h) \/ Crash(h)
       \/ \E m \in MessageIds, n \in 1 .. MaxAttempts :
            Acknowledge(h, m, n) \/ Release(h, m, n)
  \/ \E m \in MessageIds : Expire(m)

MailSpec == MailInit /\ [][MailNext]_mailVars

-----------------------------------------------------------------------------
MailTypeOK ==
  /\ payload \in [MessageIds -> Contents \cup {NoPayload}]
  /\ status \in [MessageIds -> {"none", "pending", "leased", "acknowledged"}]
  /\ attempts \in [MessageIds -> 0 .. MaxAttempts]
  /\ expired \in [MessageIds -> BOOLEAN]

\* A message is repliedTo once: however often it was delivered, one call at
\* most returns its handler's result to its asker, that of the last attempt,
\* and only when the message is acknowledged and will not be delivered again.
AnsweredOnce ==
  /\ MailTypeOK
  /\ \A m \in MessageIds :
       /\ repliedTo[m] \subseteq {attempts[m]}
       /\ repliedTo[m] # {} => status[m] = "acknowledged"

\* What the migration of a mailbox from before the outbox records of a row.
Reconstructed(m) ==
  {<<"handoff", m, 0>> : p \in {payload[m]} \ {NoPayload}}
    \cup {<<"claim", m, n>> : n \in 1 .. attempts[m]}
    \cup {<<"ack", m, 0>> : s \in {status[m]} \cap {"acknowledged"}}

\* The outbox tells the whole history of every message: no less than its row
\* would, its claims are numbered without a gap, each of them but the last ended
\* in one recovery or one release and in nothing else, and how the last one
\* ended is the status.
OutboxTellsDeliveries ==
  /\ \A m \in MessageIds : Reconstructed(m) \subseteq mailEvents
  /\ \A m \in MessageIds :
    LET ended(n) == Cardinality({e \in mailEvents : e[2] = m /\ e[3] = n
                                   /\ e[1] \in {"recovered", "released"}})
        acked == <<"ack", m, 0>> \in mailEvents IN
    /\ {n \in 1 .. MaxAttempts : <<"claim", m, n>> \in mailEvents} = 1 .. attempts[m]
    /\ \A n \in 1 .. attempts[m] - 1 : ended(n) = 1
    /\ attempts[m] > 0 =>
         ended(attempts[m]) = IF status[m] = "pending" THEN 1 ELSE 0
    /\ acked <=> status[m] = "acknowledged"

\* Asker, outbox and row agree on every message.
DeliveriesTold == AnsweredOnce /\ OutboxTellsDeliveries
=============================================================================
