---------------------------- MODULE RemoteWorker ----------------------------
(***************************************************************************)
(* Hybrid execution (lipas/dispatcher.py): RemoteWorkerRunner claims a run *)
(* of the ExecutionStore, forwards the fenced lease over HTTP, renews it   *)
(* while it waits, records what the worker returned and settles the run;   *)
(* RemoteWorkerHTTPServer deduplicates requests by their fence and invokes *)
(* the worker.  Requests may be delivered again, answers may be lost, both *)
(* sides may stop, and the local store is the only lease authority.        *)
(*                                                                         *)
(* The store's transactions are the actions of ExecutionStore, called with *)
(* the current time.  A handler of the server is a thread: it gives up the *)
(* server's lock between the steps below.                                  *)
(***************************************************************************)
EXTENDS ExecutionStore

CONSTANTS
  Runners,      \* processes that use RemoteWorkerRunner
  Handlers,     \* threads of the HTTP server
  Payloads,     \* results the worker may return, each a record of sets: the
                \* data of its events and effects, the version its checkpoint
                \* expects; all are empty for an unstructured result
  MaxCached,    \* _max_response_cache
  MaxTombs,     \* _max_response_tombstones
  MaxPosts      \* deliveries of requests, at most

\* The server's bounds are 1024 and 4096; a response has one checkpoint at most.
ASSUME RemoteAssumption ==
  /\ {MaxCached, MaxTombs} \subseteq Nat \ {0}
  /\ \A p \in Payloads : \A u, v \in p.checkpoint : u = v

VARIABLES
  runner,      \* what a RemoteWorkerRunner.run holds in memory
  sent,        \* the requests a client has put on the wire
  posts,       \* how many were delivered
  answers,     \* the 200 responses written by the server: <<request id, payload>>
  handler,     \* a request thread of the server
  cache,       \* _response_cache with its fingerprints, oldest first
  tombs,       \* _response_tombstones, oldest first
  inflight,    \* _inflight with its fingerprints
  events,      \* execution_agent_events of the worker: <<run, identity, data>>
  executed,    \* history: the executions the worker started, per request id
  forgotten,   \* history: the request ids whose tombstone was dropped
  outcome      \* history: the payload each run was completed with

serverVars == <<handler, cache, tombs, inflight, answers, executed, forgotten>>
clientVars == <<runner, sent, outcome, events>>
remoteVars == <<vars, serverVars, clientVars, posts>>

Idle == [pc |-> "idle", run |-> NoRun, token |-> 0, expires |-> 0,
         cancel |-> FALSE, lost |-> FALSE, payload |-> NoCall]
Free == [pc |-> "free", request |-> NoCall, payload |-> NoCall, woken |-> FALSE]

\* request_id: one identity per logical lease attempt.
Id(q) == <<q.run, q.token>>

\* What the server compares of two requests with one identity: the task and
\* the stable fields of the lease, not its expiry or its cancellation flag.
Fingerprint(q) == <<q.task, q.run, q.token>>

RemoteInit ==
  /\ Init
  /\ runner = [w \in Runners |-> Idle]
  /\ sent = {} /\ posts = 0 /\ answers = {}
  /\ handler = [h \in Handlers |-> Free]
  /\ cache = <<>> /\ tombs = <<>> /\ inflight = {}
  /\ events = {}
  /\ executed = [id \in Runs \X Token |-> 0]
  /\ forgotten = {}
  /\ outcome = [r \in Runs |-> NoCall]

-----------------------------------------------------------------------------
(* RemoteWorkerRunner *)

Move(w, s) == runner' = [runner EXCEPT ![w] = s]
Drop(w) == Move(w, Idle)

\* The call raised: the run keeps its lease until it runs out.
Abandon(w) ==
  /\ Drop(w)
  /\ UNCHANGED <<vars, sent, outcome, events>>

RunnerClaim(w, r) ==
  /\ runner[w] = Idle
  /\ ClaimRun(r, now)
  /\ Move(w, [Idle EXCEPT !.pc = "claimed", !.run = r,
                          !.token = attempt[r] + 1,
                          !.expires = now + LeaseSeconds,
                          !.cancel = cancelRequested[r]])
  /\ UNCHANGED <<sent, outcome, events, serverVars, posts>>

\* A run whose cancellation is requested is settled, never handed over.
Proceeds(r) == ~cancelRequested[r]

SettleBeforeWork(w) ==
  LET r == runner[w].run IN
  /\ runner[w].pc = "claimed"
  /\ ~Proceeds(r)
  /\ \/ /\ FinishCancelled(r, runner[w].token, now)
        /\ Drop(w)
        /\ UNCHANGED <<sent, outcome, events>>
     \/ /\ ~HoldsLease(r, runner[w].token, now)
        /\ Abandon(w)
  /\ UNCHANGED <<serverVars, posts>>

\* execute: the task row is read, and the request leaves with the lease as it
\* was claimed.
Post(w) ==
  LET l == runner[w] IN
  /\ l.pc = "claimed"
  /\ Proceeds(l.run)
  /\ sent' = sent \cup {[run |-> l.run, token |-> l.token,
                         task |-> taskState[taskOf[l.run]],
                         expires |-> l.expires, cancel |-> l.cancel]}
  /\ Move(w, [l EXCEPT !.pc = "posted"])
  /\ UNCHANGED <<vars, outcome, events, serverVars, posts>>

\* One round of the heartbeat loop, which ends at its first error.
Beat(w) ==
  LET l == runner[w] IN
  /\ l.pc = "posted" /\ ~l.lost
  /\ \/ /\ RenewLease(l.run, l.token, now)
        /\ Move(w, [l EXCEPT !.expires = now + LeaseSeconds,
                             !.cancel = cancelRequested[l.run],
                             !.lost = cancelRequested[l.run]])
     \/ /\ ~HoldsLease(l.run, l.token, now)
        /\ Move(w, [l EXCEPT !.lost = TRUE])
        /\ UNCHANGED vars
  /\ UNCHANGED <<sent, outcome, events, serverVars, posts>>

\* An answer arrives.  The heartbeat's error counts more than the result.
Answered(w, payload) ==
  LET l == runner[w] IN
  /\ l.pc = "posted"
  /\ <<<<l.run, l.token>>, payload>> \in answers
  /\ Move(w, IF l.lost THEN Idle
             ELSE [l EXCEPT !.pc = "events", !.payload = payload])
  /\ UNCHANGED <<vars, sent, outcome, events, serverVars, posts>>

\* self.fail, from the exception handlers of run: it raises without a lease.
Fail(w, errors) ==
  LET l == runner[w] IN
  \/ /\ \E e \in errors : FailRun(l.run, l.token, e, now)
     /\ Drop(w)
     /\ UNCHANGED <<sent, outcome, events>>
  \/ /\ ~HoldsLease(l.run, l.token, now)
     /\ Abandon(w)

\* An error response, or none within timeout_s.
Unanswered(w) ==
  /\ runner[w].pc = "posted"
  /\ IF runner[w].lost THEN Abandon(w) ELSE Fail(w, OtherErrors)
  /\ UNCHANGED <<serverVars, posts>>

\* append_agent_event: the identity belongs to the external action, not to
\* the attempt, and its first data is kept.
Contradicts(r, identity, new) ==
  \E e \in events : e[1] = r /\ e[2] = identity /\ new \ {e[3]} # {}

\* The events of one identity need no lease; a contradiction fails the run.
AppendAgentEvent(w, identity, new, next) ==
  LET l == runner[w]
      prior == {e \in events : e[1] = l.run /\ e[2] = identity}
  IN
  /\ IF Contradicts(l.run, identity, new)
     THEN Fail(w, UncertainErrors)
     ELSE /\ events' = IF prior # {} THEN events
                       ELSE events \cup {<<l.run, identity, d>> : d \in new}
          /\ Move(w, [l EXCEPT !.pc = next])
          /\ UNCHANGED <<vars, sent, outcome>>
  /\ UNCHANGED <<serverVars, posts>>

\* _persist_remote_result: the worker's events ...
RecordEvents(w) ==
  /\ runner[w].pc = "events"
  /\ AppendAgentEvent(w, "event", runner[w].payload.events, "checkpoint")

\* ... its checkpoint, at the version it expected and under the lease ...
RecordCheckpoint(w) ==
  LET l == runner[w] IN
  /\ l.pc = "checkpoint"
  /\ \/ /\ l.payload.checkpoint = {}
        /\ Move(w, [l EXCEPT !.pc = "effects"])
        /\ UNCHANGED <<vars, sent, outcome, events>>
     \/ \E v \in l.payload.checkpoint :
          \/ /\ SaveCheckpoint(l.run, l.token, v, now)
             /\ Move(w, [l EXCEPT !.pc = "effects"])
             /\ UNCHANGED <<sent, outcome, events>>
          \/ /\ version[l.run] # v \/ ~HoldsLease(l.run, l.token, now)
             /\ Fail(w, UncertainErrors)
  /\ UNCHANGED <<serverVars, posts>>

\* ... and the effects it observed.
RecordEffects(w) ==
  /\ runner[w].pc = "effects"
  /\ AppendAgentEvent(w, "effect", runner[w].payload.effects, "complete")

\* complete: rejected without the lease, or when the run is to be cancelled.
Complete(w) ==
  LET l == runner[w] IN
  /\ l.pc = "complete"
  /\ \/ /\ CompleteRun(l.run, l.token, now)
        /\ outcome' = [outcome EXCEPT ![l.run] = l.payload]
        /\ Drop(w)
        /\ UNCHANGED <<sent, events>>
     \/ /\ ~HoldsLease(l.run, l.token, now) \/ ~Completable(l.run)
        /\ Abandon(w)
  /\ UNCHANGED <<serverVars, posts>>

RunnerStops(w) ==
  /\ runner[w] # Idle
  /\ Abandon(w)
  /\ UNCHANGED <<serverVars, posts>>

-----------------------------------------------------------------------------
(* RemoteWorkerHTTPServer *)

Cached(id) == {i \in DOMAIN cache : cache[i].id = id}
Entombed(id) == {i \in DOMAIN tombs : tombs[i].id = id}
Entry(q) == [id |-> Id(q), print |-> Fingerprint(q)]

\* The oldest tombstones are dropped beyond the bound; an identity that has a
\* tombstone keeps its place.
WithTomb(t) ==
  LET all == IF \E i \in DOMAIN tombs : tombs[i].id = t.id THEN tombs
             ELSE Append(tombs, t)
  IN IF Len(all) > MaxTombs THEN Tail(all) ELSE all

Bury(t) ==
  /\ tombs' = WithTomb(t)
  /\ forgotten' = forgotten \cup ({tombs[i].id : i \in DOMAIN tombs} \ {tombs'[i].id : i \in DOMAIN tombs'})

Reply(q, payload) == answers' = answers \cup {<<Id(q), payload>>}

\* A full cache leaves a tombstone for the response it drops.
Evict ==
  IF Len(cache) < MaxCached THEN UNCHANGED <<tombs, forgotten>>
  ELSE Bury([id |-> Head(cache).id, print |-> Head(cache).print])

\* do_POST up to the end of its first locked section: a finished request is
\* answered again, a running one is waited for, a new one gets an owner; one
\* whose fingerprint differs, or whose response was dropped, is refused.
Deliver(h, q) ==
  LET hits == Cached(Id(q))
      same == {e \in inflight : e.id = Id(q)}
  IN
  /\ handler[h] = Free
  /\ posts < MaxPosts
  /\ posts' = posts + 1
  /\ \/ /\ \E i \in hits : /\ cache[i].print = Fingerprint(q)
                           /\ Reply(q, cache[i].payload)
        /\ UNCHANGED <<handler, inflight>>
     \/ /\ hits = {} /\ Entombed(Id(q)) = {}
        /\ same = {}
        /\ inflight' = inflight \cup {Entry(q)}
        /\ handler' = [handler EXCEPT ![h] = [Free EXCEPT !.pc = "owner", !.request = q]]
        /\ UNCHANGED answers
     \/ /\ hits = {} /\ Entombed(Id(q)) = {}
        /\ Entry(q) \in same
        /\ handler' = [handler EXCEPT ![h] = [Free EXCEPT !.pc = "waiter", !.request = q]]
        /\ UNCHANGED <<inflight, answers>>
  /\ UNCHANGED <<vars, clientVars, cache, tombs, executed, forgotten>>

\* The owner looks at the lease it was sent, outside the lock.
Begin(h) ==
  LET q == handler[h].request IN
  /\ handler[h].pc = "owner"
  /\ IF q.cancel \/ q.expires <= now
     THEN /\ inflight' = inflight \ {Entry(q)}
          /\ handler' = [handler EXCEPT ![h] = Free]
          /\ UNCHANGED executed
     ELSE /\ handler' = [handler EXCEPT ![h].pc = "working"]
          /\ executed' = [executed EXCEPT ![Id(q)] = @ + 1]
          /\ UNCHANGED inflight
  /\ UNCHANGED <<vars, clientVars, posts, cache, tombs, answers, forgotten>>

\* Mutant: a failed execution leaves nothing behind.
AfterFailure_Nothing(q) == UNCHANGED <<tombs, forgotten>>

\* A worker that failed may have acted: its fence is never executed again.
AfterFailure(q) == Bury(Entry(q))

\* The worker raised, returned something that is not strict JSON, or returned
\* after the lease it was sent had run out.
WorkFails(h) ==
  LET q == handler[h].request IN
  /\ handler[h].pc = "working"
  /\ AfterFailure(q)
  /\ handler' = [handler EXCEPT ![h].pc = "leaving"]
  /\ UNCHANGED <<vars, clientVars, posts, cache, inflight, answers, executed>>

\* The worker returned in time: the response is cached, the oldest dropped.
Publish(h, payload) ==
  LET q == handler[h].request
      kept == IF Len(cache) < MaxCached THEN cache ELSE Tail(cache)
  IN
  /\ handler[h].pc = "working"
  /\ q.expires > now
  /\ Evict
  /\ cache' = Append(kept, [id |-> Id(q), print |-> Fingerprint(q), payload |-> payload])
  /\ handler' = [handler EXCEPT ![h].pc = "sending", ![h].payload = payload]
  /\ UNCHANGED <<vars, clientVars, posts, inflight, answers, executed>>

\* The response is written, or the connection is gone and the exception path
\* leaves a tombstone beside the cached response.
Send(h) ==
  /\ handler[h].pc = "sending"
  /\ handler' = [handler EXCEPT ![h].pc = "leaving"]
  /\ \/ Reply(handler[h].request, handler[h].payload) /\ UNCHANGED <<tombs, forgotten>>
     \/ Bury(Entry(handler[h].request)) /\ UNCHANGED answers
  /\ UNCHANGED <<vars, clientVars, posts, cache, inflight, executed>>

\* finally: the request is no longer in flight and its waiters are woken.
Leave(h) ==
  LET q == handler[h].request IN
  /\ handler[h].pc = "leaving"
  /\ inflight' = inflight \ {Entry(q)}
  /\ handler' = [g \in Handlers |->
                   IF g = h THEN Free
                   ELSE IF handler[g].pc = "waiter" /\ Id(handler[g].request) = Id(q)
                        THEN [handler[g] EXCEPT !.woken = TRUE] ELSE handler[g]]
  /\ UNCHANGED <<vars, clientVars, posts, cache, tombs, answers, executed, forgotten>>

\* A duplicate was woken and repeats the response, or finds none; or it waited
\* 30 seconds.
Wake(h) ==
  LET q == handler[h].request
      hits == Cached(Id(q))
  IN
  /\ handler[h].pc = "waiter"
  /\ handler' = [handler EXCEPT ![h] = Free]
  /\ \/ \E i \in hits : handler[h].woken /\ Reply(q, cache[i].payload)
     \/ /\ hits = {} \/ ~handler[h].woken
        /\ UNCHANGED answers
  /\ UNCHANGED <<vars, clientVars, posts, cache, tombs, inflight, executed, forgotten>>

-----------------------------------------------------------------------------
\* The host's own calls on the store, and the clock.
Host ==
  /\ \/ Tick
     \/ \E t \in Tasks : CreateTask(t)
     \/ \E r \in Runs, t \in Tasks : CreateRun(r, t)
     \/ \E r \in Runs : RequestCancel(r)
  /\ UNCHANGED <<serverVars, clientVars, posts>>

Runner(w) ==
  \/ \E r \in Runs : RunnerClaim(w, r)
  \/ SettleBeforeWork(w) \/ Post(w) \/ Beat(w)
  \/ \E p \in Payloads : Answered(w, p)
  \/ Unanswered(w)
  \/ RecordEvents(w) \/ RecordCheckpoint(w) \/ RecordEffects(w) \/ Complete(w)
  \/ RunnerStops(w)

Server(h) ==
  \/ \E q \in sent : Deliver(h, q)
  \/ Begin(h) \/ WorkFails(h) \/ Send(h) \/ Leave(h) \/ Wake(h)
  \/ \E p \in Payloads : Publish(h, p)

RemoteNext ==
  \/ Host
  \/ \E w \in Runners : Runner(w)
  \/ \E h \in Handlers : Server(h)

RemoteSpec == RemoteInit /\ [][RemoteNext]_remoteVars

-----------------------------------------------------------------------------
(* Properties *)

\* One fence is executed at most once and has one answer, whatever is
\* delivered again and whichever thread answers it, as long as the server
\* remembers the fence (its tombstones are bounded).
OneExecutionPerFence ==
  \A id \in Runs \X Token : id \notin forgotten =>
    /\ executed[id] <= 1
    /\ \A a, b \in answers : a[1] = id /\ b[1] = id => a = b

\* A run is completed only with an answer to its current fence, after that
\* answer's own events and checkpoint were stored: neither a late attempt nor
\* a redelivery that says something else leaves a second history.
CompletedIsRecorded ==
  \A r \in Runs : outcome[r] # NoCall =>
    /\ <<<<r, attempt[r]>>, outcome[r]>> \in answers
    /\ \A d \in outcome[r].events : <<r, "event", d>> \in events
    /\ \A d \in outcome[r].effects : <<r, "effect", d>> \in events
    /\ \A v \in outcome[r].checkpoint : version[r] = v + 1

\* A claim of a remote run has one history, on both sides of the wire.
OneHistoryPerFence == OneExecutionPerFence /\ CompletedIsRecorded
=============================================================================
