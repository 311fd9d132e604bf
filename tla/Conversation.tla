---------------------------- MODULE Conversation ----------------------------
(***************************************************************************)
(* The conversation kernel (SQLiteSessionStore in                          *)
(* lipas/conversation_store.py) with the two things the runtime builds on  *)
(* it: the promotion of a message to a Task/Run, and the projection of the *)
(* execution store's events into the chat events that clients page         *)
(* through.  A store method is one BEGIN IMMEDIATE transaction; the        *)
(* runtime's methods are sequences of transactions over two stores.        *)
(***************************************************************************)
EXTENDS Naturals, Sequences, SequencesExt, FiniteSets

CONSTANTS
  Conversations, Messages, Clients,
  Requests,     \* the promotions asked for: <<message, goal>>
  Runs, RunOf,  \* RunOf: the deterministic run id of a promoted message
  None,
  PageSize,     \* of agent_events, and of the page a client asks for
  MaxEvents     \* events of a Run, at most

ASSUME ChatAssumption ==
  /\ None \notin Runs \cup Conversations
  /\ RunOf \in [Messages -> Runs]
  /\ \A q \in Requests : q[1] \in Messages
  /\ PageSize \in Nat \ {0} /\ MaxEvents \in Nat

VARIABLES
  home,       \* lipas_chat_messages.conversation_id, None before the insert
  link,       \* the Run a message is linked to
  events,     \* lipas_chat_events of a conversation in sequence order
  \* the execution store: the goal of the Task behind a Run, does the Run
  \* exist, its agent events, the state of its interrupt
  goalOf, exists, happened, interrupt,
  client,     \* what each client is doing
  follows,    \* the conversation a client follows, None at first
  cursor, got \* its cursor, and the events it received

chat == <<home, link, events>>
execution == <<goalOf, exists, happened, interrupt>>
reading == <<follows, cursor, got>>
vars == <<chat, execution, client, reading>>

Idle == [at |-> "idle"]

Init ==
  /\ home = [m \in Messages |-> None] /\ link = [m \in Messages |-> None]
  /\ events = [c \in Conversations |-> <<>>]
  /\ goalOf = [r \in Runs |-> None] /\ exists = [r \in Runs |-> FALSE]
  /\ happened = [r \in Runs |-> 0] /\ interrupt = [r \in Runs |-> "none"]
  /\ client = [k \in Clients |-> Idle]
  /\ follows = [k \in Clients |-> None]
  /\ cursor = [k \in Clients |-> 0] /\ got = [k \in Clients |-> <<>>]

At(k, stop) == client[k].at = stop
Do(k, next) == client' = [client EXCEPT ![k] = next]
End(k) == Do(k, Idle)

\* An event id is on record in some conversation.
Recorded(e) == \E c \in Conversations : e \in ToSet(events[c])

\* _append_event_locked: an id on record in another conversation is refused.
Accepts(c, e) == \A d \in Conversations \ {c} : e \notin ToSet(events[d])
AppendTo(c, e) ==
  IF Recorded(e) THEN events ELSE [events EXCEPT ![c] = Append(@, e)]

-----------------------------------------------------------------------------
(* append_message, attach_message, append_event *)

\* Mutant: a Run is looked up among the messages of one conversation only.
Owned_Here(m, r) == \E n \in Messages \ {m} : link[n] = r /\ home[n] = home[m]

\* Another message is linked to the Run already.
Owned(m, r) == \E n \in Messages \ {m} : link[n] = r

\* A message with or without a Run; repeated with other data it is refused.
AppendMessage(m, c, r) ==
  /\ home[m] = None
  /\ r # None => ~Owned(m, r)
  /\ home' = [home EXCEPT ![m] = c]
  /\ link' = [link EXCEPT ![m] = r]
  /\ events' = AppendTo(c, <<"message", m>>)
  /\ UNCHANGED <<execution, client, reading>>

\* The link is set once, with its event, in the transaction of k.
Attach(k, m, r) ==
  /\ IF link[m] = None /\ ~Owned(m, r)
     THEN /\ link' = [link EXCEPT ![m] = r]
          /\ events' = AppendTo(home[m], <<"task-link", m>>)
     ELSE UNCHANGED <<link, events>>
  /\ End(k)
  /\ UNCHANGED <<home, execution, reading>>

-----------------------------------------------------------------------------
(* promote_message_to_task *)

\* The message is read unlinked; its goal is the caller's or the message's.
Promote(k, m, g) ==
  /\ At(k, "idle") /\ home[m] # None /\ link[m] = None
  /\ Do(k, [at |-> "task", message |-> m, goal |-> g])
  /\ UNCHANGED <<chat, execution, reading>>

\* A Task under the deterministic id that has another goal ends the call.
PromoteTask(k) ==
  LET r == RunOf[client[k].message] IN
  /\ At(k, "task")
  /\ goalOf' = [goalOf EXCEPT ![r] = IF @ = None THEN client[k].goal ELSE @]
  /\ Do(k, IF goalOf[r] \in {None, client[k].goal}
           THEN [at |-> "run", message |-> client[k].message] ELSE Idle)
  /\ UNCHANGED <<chat, exists, happened, interrupt, reading>>

PromoteRun(k) ==
  /\ At(k, "run")
  /\ exists' = [exists EXCEPT ![RunOf[client[k].message]] = TRUE]
  /\ Do(k, [at |-> "attach", message |-> client[k].message])
  /\ UNCHANGED <<chat, goalOf, happened, interrupt, reading>>

PromoteLink(k) ==
  /\ At(k, "attach")
  /\ Attach(k, client[k].message, RunOf[client[k].message])

-----------------------------------------------------------------------------
(* conversation_events: the projection, then the page *)

\* linked_run_ids
Linked(c) == {link[m] : m \in {n \in Messages : home[n] = c}} \ {None}

\* A client keeps its cursor to the conversation it asked for first.
Project(k, c) ==
  /\ At(k, "idle") /\ follows[k] \in {None, c}
  /\ follows' = [follows EXCEPT ![k] = c]
  /\ Do(k, [at |-> "runs", todo |-> Linked(c)])
  /\ UNCHANGED <<chat, execution, cursor, got>>

\* agent_events(run_id, after=cursor): a page of what has happened by now.
PageAfter(r, n) == [first |-> n + 1,
                    last |-> IF happened[r] < n + PageSize
                             THEN happened[r] ELSE n + PageSize]

\* The next Run in their order: its first page, or none if the Run does not exist (yet).
ReadRun(k) ==
  LET r == CHOOSE q \in client[k].todo : TRUE IN
  /\ At(k, "runs") /\ client[k].todo # {}
  /\ Do(k, LET rest == client[k].todo \ {r} IN
           IF exists[r]
           THEN [at |-> "page", todo |-> rest, run |-> r,
                 page |-> PageAfter(r, 0)]
           ELSE [client[k] EXCEPT !.todo = rest])
  /\ UNCHANGED <<chat, execution, reading>>

\* Each event is an append_event of its own; one that is on record in another
\* conversation ends the call.
ProjectEvent(k) ==
  LET s == client[k]
      e == <<"execution", s.run, s.page.first>> IN
  /\ At(k, "page") /\ s.page.first <= s.page.last
  /\ IF Accepts(follows[k], e)
     THEN /\ events' = AppendTo(follows[k], e)
          /\ Do(k, [s EXCEPT !.page.first = @ + 1])
     ELSE UNCHANGED events /\ End(k)
  /\ UNCHANGED <<home, link, execution, reading>>

\* The next page, or after a short one the interrupts.
NextPage(k) ==
  LET s == client[k] IN
  /\ At(k, "page") /\ s.page.first > s.page.last
  /\ Do(k, LET next == PageAfter(s.run, s.page.last) IN
           IF next.first <= next.last
           THEN [s EXCEPT !.page = next]
           ELSE [at |-> "card", todo |-> s.todo, run |-> s.run,
                 state |-> interrupt[s.run]])
  /\ UNCHANGED <<chat, execution, reading>>

ProjectInterrupt(k) ==
  LET s == client[k]
      e == <<"interrupt", s.run, s.state>> IN
  /\ At(k, "card")
  /\ events' = IF s.state # "none" /\ Accepts(follows[k], e)
               THEN AppendTo(follows[k], e) ELSE events
  /\ Do(k, [at |-> "runs", todo |-> s.todo])
  /\ UNCHANGED <<home, link, execution, reading>>

\* The sequence of the last event of the page, or the old cursor.
NextCursor(c, page, after) == after + Len(page)

\* events(after, limit): the page is returned to the client.
ReadPage(k) ==
  LET c == follows[k]
      after == cursor[k]
      page == SubSeq(events[c], after + 1,
                IF Len(events[c]) < after + PageSize
                THEN Len(events[c]) ELSE after + PageSize) IN
  /\ At(k, "runs") /\ client[k].todo = {}
  /\ got' = [got EXCEPT ![k] = @ \o page]
  /\ cursor' = [cursor EXCEPT ![k] = NextCursor(c, page, after)]
  /\ End(k)
  /\ UNCHANGED <<chat, execution, follows>>

-----------------------------------------------------------------------------
(* The execution of a linked Run.  A call that is cut off is one that takes *)
(* no further step; a retry is another client's.                            *)

RunEvent(r) ==
  /\ exists[r] /\ happened[r] < MaxEvents
  /\ happened' = [happened EXCEPT ![r] = @ + 1]
  /\ UNCHANGED <<chat, goalOf, exists, interrupt, client, reading>>

\* A Run is suspended, its interrupt is resolved.
Interrupt(r) ==
  /\ exists[r] /\ interrupt[r] # "resolved"
  /\ interrupt' = [interrupt EXCEPT ![r] =
                     IF @ = "none" THEN "pending" ELSE "resolved"]
  /\ UNCHANGED <<chat, goalOf, exists, happened, client, reading>>

Work(k) ==
  \/ \E q \in Requests : Promote(k, q[1], q[2])
  \/ PromoteTask(k) \/ PromoteRun(k) \/ PromoteLink(k)
  \/ \E c \in Conversations : Project(k, c)
  \/ ReadRun(k) \/ ProjectEvent(k) \/ NextPage(k) \/ ProjectInterrupt(k) \/ ReadPage(k)

Next ==
  \/ \E m \in Messages, c \in Conversations, r \in Runs \cup {None} :
       AppendMessage(m, c, r)
  \/ \E r \in Runs : RunEvent(r) \/ Interrupt(r)
  \/ \E k \in Clients : Work(k)

Spec == Init /\ [][Next]_vars

-----------------------------------------------------------------------------
(* Properties *)

\* A Run is linked from one message at most, and its events and cards are only
\* ever shown in the conversation of that message: a client that reconnects can
\* tell which chat owns the work, whoever promotes, links and projects.
RunOwnedOnce ==
  /\ \A m, n \in Messages : link[m] # None /\ link[m] = link[n] => m = n
  /\ \A c \in Conversations : \A e \in ToSet(events[c]) :
       e[1] \in {"execution", "interrupt"} => e[2] \in Linked(c)

\* What a client has got is what the conversation's events were, in order and
\* with none left out or repeated, up to its cursor; and the events of a Run
\* are among them once each and in the order in which they happened, from the
\* first one on, however many clients project them at the same time and
\* wherever one is cut off.
ReaderMissesNothing ==
  /\ \A k \in Clients : follows[k] # None =>
       got[k] = SubSeq(events[follows[k]], 1, cursor[k])
  /\ \A c \in Conversations : \A x \in DOMAIN events[c] :
       /\ \A y \in DOMAIN events[c] : events[c][x] = events[c][y] => x = y
       /\ LET e == events[c][x] IN
          e[1] = "execution" /\ e[3] # 1 =>
            \E y \in 1 .. x - 1 : events[c][y] = <<"execution", e[2], e[3] - 1>>

\* A chat tells its own runs' story, whole and in order.
ChatFollowsRuns == RunOwnedOnce /\ ReaderMissesNothing
=============================================================================
