------------------------- MODULE RemoteWorkerProofs -------------------------
(***************************************************************************)
(* Machine-checked proofs about RemoteWorker: whatever is delivered again, *)
(* lost, late or dropped from the server's memory, the runners use the     *)
(* store only through its methods, and a fence has one history.  And about *)
(* Coordination: whatever callers race, crash and call again, the outcomes *)
(* of a team are those its runs have recorded, within its budget.          *)
(***************************************************************************)
EXTENDS RemoteWorker, Coordination, ExecutionStoreProofs, SequenceTheorems,
  FiniteSetTheorems

Ids == Runs \X Token
Request == [run : Runs, token : Token, task : TaskStates, expires : Nat,
            cancel : BOOLEAN]
Imprint == TaskStates \X Runs \X Token
TombEntry == [id : Ids, print : Imprint]
CacheEntry == [id : Ids, print : Imprint, payload : Payloads]
RunnerState ==
  [pc : {"idle", "claimed", "posted", "events", "checkpoint", "effects", "complete"},
   run : Runs \cup {NoRun}, token : 0 .. MaxAttempt, expires : Nat,
   cancel : BOOLEAN, lost : BOOLEAN, payload : Payloads \cup {NoCall}]
HandlerState ==
  [pc : {"free", "owner", "working", "sending", "leaving", "waiter"},
   request : Request \cup {NoCall}, payload : Payloads \cup {NoCall},
   woken : BOOLEAN]

\* The stages of a runner that holds an answer, and of a handler that owns a
\* request in flight.
Holding == {"events", "checkpoint", "effects", "complete"}
Owning == {"owner", "working", "sending", "leaving"}

ServerTypeOK ==
  /\ handler \in [Handlers -> HandlerState]
  /\ \A h \in Handlers : /\ handler[h].pc # "free" => handler[h].request \in Request
                         /\ handler[h].pc = "sending" => handler[h].payload \in Payloads
  /\ cache \in Seq(CacheEntry)
  /\ tombs \in Seq(TombEntry)
  /\ answers \subseteq Ids \X Payloads
  /\ executed \in [Ids -> Nat]

ClientTypeOK ==
  /\ runner \in [Runners -> RunnerState]
  /\ \A w \in Runners :
       /\ runner[w].pc # "idle" => runner[w].run \in Runs /\ runner[w].token \in Token
       /\ runner[w].pc \in Holding => runner[w].payload \in Payloads
  /\ sent \subseteq Request
  /\ \A e \in events : e = <<e[1], e[2], e[3]>>
  /\ outcome \in [Runs -> Payloads \cup {NoCall}]

-----------------------------------------------------------------------------
(* The server *)

CachedIds == {cache[i].id : i \in DOMAIN cache}
TombIds == {tombs[i].id : i \in DOMAIN tombs}
Works(h, id) == handler[h].pc = "working" /\ Id(handler[h].request) = id

\* What the server has said, or may still say, to a request with this identity.
Responded(id, p) ==
  \/ <<id, p>> \in answers
  \/ \E i \in DOMAIN cache : cache[i].id = id /\ cache[i].payload = p
  \/ \E h \in Handlers : /\ handler[h].pc = "sending"
                         /\ Id(handler[h].request) = id /\ handler[h].payload = p

\* A request that has an owner is in flight, and nobody else owns it.
OwnersInFlight ==
  /\ \A h \in Handlers : handler[h].pc \in Owning => Entry(handler[h].request) \in inflight
  /\ \A g, h \in Handlers :
       /\ handler[g].pc \in Owning /\ handler[h].pc \in Owning
       /\ Id(handler[g].request) = Id(handler[h].request)
       => g = h

\* A fence that was executed leaves its response or a tombstone, or the
\* execution is still going on.
ExecutedRemembered ==
  \A id \in Ids : id \notin forgotten =>
    /\ executed[id] <= 1
    /\ executed[id] > 0 =>
         id \in CachedIds \cup TombIds \/ \E h \in Handlers : Works(h, id)
    /\ \A h \in Handlers :
         handler[h].pc = "owner" /\ Id(handler[h].request) = id => executed[id] = 0

\* An execution that goes on was counted.
ExecutionsCounted ==
  \A h \in Handlers : handler[h].pc = "working" => executed[Id(handler[h].request)] > 0

\* A fence is answered after it was executed, with one response.
ResponsesAgree ==
  \A id \in Ids : \A p \in Payloads : id \notin forgotten /\ Responded(id, p) =>
    /\ executed[id] > 0
    /\ \A h \in Handlers : ~Works(h, id)
    /\ \A q \in Payloads : Responded(id, q) => q = p

ServerInv ==
  /\ ServerTypeOK /\ OwnersInFlight /\ ExecutedRemembered /\ ExecutionsCounted
  /\ ResponsesAgree

-----------------------------------------------------------------------------
(* What the server remembers *)

\* The identity and the fingerprint of a request.
LEMMA RequestIs ==
  ASSUME NEW q \in Request
  PROVE  /\ Id(q) \in Ids /\ Entry(q).id = Id(q) /\ Entry(q) \in TombEntry
         /\ Fingerprint(q) \in Imprint
  BY DEF Request, Id, Ids, Entry, TombEntry, Fingerprint, Imprint

\* Burying an identity forgets, at most, identities that were buried before.
LEMMA BuryIs ==
  ASSUME tombs \in Seq(TombEntry), NEW t \in TombEntry, Bury(t)
  PROVE  /\ tombs' \in Seq(TombEntry) /\ forgotten \subseteq forgotten'
         /\ \A id \in TombIds \cup {t.id} : id \in TombIds' \cup forgotten'
<1> DEFINE all == IF \E i \in DOMAIN tombs : tombs[i].id = t.id THEN tombs
                  ELSE Append(tombs, t)
<1>1. /\ tombs' = IF Len(all) > MaxTombs THEN Tail(all) ELSE all
      /\ forgotten' = forgotten \cup (TombIds \ TombIds')
  BY DEF Bury, WithTomb, TombIds
<1>2. all \in Seq(TombEntry)
  OBVIOUS
<1>3. tombs' \in Seq(TombEntry)
  <2>1. Len(all) > MaxTombs => Len(all) > 0
    BY <1>2, RemoteAssumption
  <2> HIDE DEF all
  <2> QED
    BY <1>1, <1>2, <2>1
<1>4. t.id \in TombIds' \cup forgotten'
  <2>1. CASE \E i \in DOMAIN tombs : tombs[i].id = t.id
    BY <1>1, <2>1 DEF TombIds
  <2>2. CASE ~\E i \in DOMAIN tombs : tombs[i].id = t.id
    <3>1. all = Append(tombs, t) /\ Len(all) = Len(tombs) + 1 /\ Len(tombs) \in Nat
      BY <2>2
    <3>2. CASE ~(Len(all) > MaxTombs)
      <4>1. tombs' = Append(tombs, t) /\ tombs'[Len(tombs) + 1] = t
            /\ Len(tombs) + 1 \in DOMAIN tombs'
        BY <1>1, <3>1, <3>2
      <4> QED
        BY <4>1 DEF TombIds
    <3>3. CASE Len(all) > MaxTombs
      <4>1. Len(tombs) > 0
        BY <3>1, <3>3, RemoteAssumption
      <4>2. tombs' = Tail(Append(tombs, t))
        BY <1>1, <3>1, <3>3
      <4>3. tombs'[Len(tombs)] = t /\ Len(tombs) \in DOMAIN tombs'
        <5> DEFINE longer == Append(tombs, t)
        <5>1. longer \in Seq(TombEntry) /\ Len(longer) = Len(tombs) + 1
              /\ longer[Len(tombs) + 1] = t
          OBVIOUS
        <5> HIDE DEF longer
        <5>2. longer # <<>>
          BY <3>1, <5>1
        <5>3. /\ Len(Tail(longer)) = Len(tombs)
              /\ \A i \in 1 .. Len(tombs) : Tail(longer)[i] = longer[i + 1]
          BY <3>1, <5>1, <5>2
        <5>4. tombs' = Tail(longer)
          BY <4>2 DEF longer
        <5>5. tombs' \in Seq(TombEntry) /\ Len(tombs) \in 1 .. Len(tombs)
          BY <1>3, <3>1, <4>1
        <5> QED
          BY <5>1, <5>3, <5>4, <5>5
      <4> QED
        BY <4>3 DEF TombIds
    <3> QED
      BY <3>2, <3>3
  <2> QED
    BY <2>1, <2>2
<1> QED
  BY <1>1, <1>3, <1>4

\* A response goes into the cache; the one that is dropped for it is buried.
LEMMA PublishIs ==
  ASSUME ServerInv, NEW h \in Handlers, NEW p \in Payloads, Publish(h, p)
  PROVE  LET q == handler[h].request IN
         /\ cache' \in Seq(CacheEntry) /\ tombs' \in Seq(TombEntry)
         /\ forgotten \subseteq forgotten'
         /\ \A id \in TombIds : id \in TombIds' \cup forgotten'
         /\ \A id \in CachedIds \cup {Id(q)} : id \in CachedIds' \cup TombIds' \cup forgotten'
         /\ \A j \in DOMAIN cache' :
              \/ cache'[j].id = Id(q) /\ cache'[j].payload = p
              \/ \E i \in DOMAIN cache : cache'[j] = cache[i]
<1> DEFINE q == handler[h].request
           kept == IF Len(cache) < MaxCached THEN cache ELSE Tail(cache)
           e == [id |-> Id(q), print |-> Fingerprint(q), payload |-> p]
<1>1. handler[h].pc = "working" /\ Evict /\ cache' = Append(kept, e)
  BY DEF Publish
<1>2. q \in Request /\ cache \in Seq(CacheEntry) /\ tombs \in Seq(TombEntry)
  BY <1>1 DEF ServerInv, ServerTypeOK
<1>3. e \in CacheEntry /\ e.id = Id(q) /\ e.payload = p
  BY <1>2, RequestIs DEF CacheEntry
<1>4. MaxCached \in Nat \ {0} /\ Len(cache) \in Nat
  BY <1>2, RemoteAssumption
<1> HIDE DEF e, q
<1>5. CASE Len(cache) < MaxCached
  <2>1. tombs' = tombs /\ forgotten' = forgotten
    BY <1>1, <1>5 DEF Evict
  <2>2. cache' = Append(cache, e)
    BY <1>1, <1>5
  <2>3. /\ cache' \in Seq(CacheEntry) /\ DOMAIN cache' = 1 .. Len(cache) + 1
        /\ cache'[Len(cache) + 1] = e /\ DOMAIN cache = 1 .. Len(cache)
        /\ \A i \in 1 .. Len(cache) : cache'[i] = cache[i]
    BY <1>2, <1>3, <2>2
  <2>4. \A i \in DOMAIN cache : i \in DOMAIN cache' /\ cache'[i] = cache[i]
    BY <1>4, <2>3
  <2>5. Len(cache) + 1 \in DOMAIN cache'
    BY <1>4, <2>3
  <2>6. \A id \in CachedIds \cup {Id(q)} : id \in CachedIds'
    BY <1>3, <2>3, <2>4, <2>5 DEF CachedIds
  <2>7. \A j \in DOMAIN cache' : cache'[j] = e \/ \E i \in DOMAIN cache : cache'[j] = cache[i]
    BY <1>4, <2>3
  <2>8. tombs' \in Seq(TombEntry) /\ TombIds' = TombIds
    BY <1>2, <2>1 DEF TombIds
  <2>9. \A j \in DOMAIN cache' : \/ cache'[j].id = Id(q) /\ cache'[j].payload = p
                                \/ \E i \in DOMAIN cache : cache'[j] = cache[i]
    BY <1>3, <2>7
  <2> QED
    BY <2>1, <2>3, <2>6, <2>8, <2>9 DEF q
<1>6. CASE ~(Len(cache) < MaxCached)
  <2>1. Bury([id |-> Head(cache).id, print |-> Head(cache).print])
    BY <1>1, <1>6 DEF Evict
  <2>2. cache # <<>> /\ Len(cache) > 0
    BY <1>2, <1>4, <1>6
  <2>3. Head(cache) = cache[1] /\ cache[1] \in CacheEntry
    BY <1>2, <2>2
  <2> DEFINE t == [id |-> Head(cache).id, print |-> Head(cache).print]
  <2>4. t \in TombEntry /\ t.id = cache[1].id
    BY <2>3 DEF CacheEntry, TombEntry
  <2> HIDE DEF t
  <2>5. /\ tombs' \in Seq(TombEntry) /\ forgotten \subseteq forgotten'
        /\ \A id \in TombIds \cup {cache[1].id} : id \in TombIds' \cup forgotten'
    <3>1. Bury(t)
      BY <2>1 DEF t
    <3> QED
      BY <1>2, <2>4, <3>1, BuryIs
  <2>6. cache' = Append(Tail(cache), e)
    BY <1>1, <1>6
  <2>7. /\ Tail(cache) \in Seq(CacheEntry) /\ Len(Tail(cache)) = Len(cache) - 1
        /\ \A i \in 1 .. Len(cache) - 1 : Tail(cache)[i] = cache[i + 1]
    BY <1>2, <2>2
  <2>8. /\ cache' \in Seq(CacheEntry) /\ DOMAIN cache' = 1 .. Len(cache)
        /\ cache'[Len(cache)] = e /\ DOMAIN cache = 1 .. Len(cache)
        /\ \A i \in 1 .. Len(cache) - 1 : cache'[i] = cache[i + 1]
    <3> DEFINE rest == Tail(cache)
    <3>1. rest \in Seq(CacheEntry) /\ Len(rest) = Len(cache) - 1
      BY <2>7
    <3> HIDE DEF rest
    <3>2. /\ Append(rest, e) \in Seq(CacheEntry) /\ Len(Append(rest, e)) = Len(rest) + 1
          /\ Append(rest, e)[Len(rest) + 1] = e
          /\ \A i \in 1 .. Len(rest) : Append(rest, e)[i] = rest[i]
      BY <1>3, <3>1
    <3>3. cache' = Append(rest, e) /\ \A i \in 1 .. Len(cache) - 1 : rest[i] = cache[i + 1]
      BY <2>6, <2>7 DEF rest
    <3>4. Len(cache') = Len(cache) /\ Len(rest) + 1 = Len(cache)
      BY <1>4, <3>1, <3>2, <3>3
    <3> QED
      BY <1>2, <3>1, <3>2, <3>3, <3>4
  <2>9. ASSUME NEW id \in CachedIds \cup {Id(q)} PROVE id \in CachedIds' \cup {cache[1].id}
    <3>1. CASE id = Id(q)
      BY <1>3, <1>4, <2>2, <2>8, <3>1 DEF CachedIds
    <3>2. CASE id \in CachedIds
      <4>1. PICK i \in DOMAIN cache : cache[i].id = id
        BY <3>2 DEF CachedIds
      <4>2. CASE i = 1
        BY <4>1, <4>2
      <4>3. CASE i # 1
        <5>1. i - 1 \in 1 .. Len(cache) - 1 /\ i - 1 \in DOMAIN cache' /\ (i - 1) + 1 = i
          BY <1>4, <2>8, <4>1, <4>3
        <5>2. cache'[i - 1] = cache[i]
          BY <2>8, <5>1
        <5> QED
          BY <4>1, <5>1, <5>2 DEF CachedIds
      <4> QED
        BY <4>2, <4>3
    <3> QED
      BY <3>1, <3>2
  <2>10. ASSUME NEW j \in DOMAIN cache'
         PROVE  cache'[j] = e \/ \E i \in DOMAIN cache : cache'[j] = cache[i]
    <3>1. CASE j = Len(cache)
      BY <2>8, <3>1
    <3>2. CASE j # Len(cache)
      <4>1. j \in 1 .. Len(cache) - 1 /\ j + 1 \in DOMAIN cache
        BY <1>4, <2>8, <3>2
      <4> QED
        BY <2>8, <4>1
    <3> QED
      BY <3>1, <3>2
  <2> QED
    BY <1>3, <2>5, <2>8, <2>9, <2>10 DEF q
<1> QED
  BY <1>5, <1>6

-----------------------------------------------------------------------------
(* The steps of the server *)

\* A handler that becomes an owner, a waiter, or has answered.
LEMMA HandlerStates ==
  /\ Free \in HandlerState /\ Free.pc = "free"
  /\ \A q \in Request : \A c \in {"owner", "waiter"} :
       LET st == [Free EXCEPT !.pc = c, !.request = q] IN
       st \in HandlerState /\ st.pc = c /\ st.request = q
  BY DEF Free, HandlerState

LEMMA DeliverKeeps ==
  ASSUME ServerInv, sent \subseteq Request, NEW h \in Handlers, NEW q \in sent, Deliver(h, q)
  PROVE  ServerInv'
<1> USE DEF ServerInv
<1>1. /\ handler[h] = Free /\ handler[h].pc = "free" /\ q \in Request /\ Id(q) \in Ids
      /\ UNCHANGED <<cache, tombs, executed, forgotten>>
  BY HandlerStates, RequestIs DEF Deliver
<1>2. CASE /\ \E i \in Cached(Id(q)) : Reply(q, cache[i].payload)
           /\ UNCHANGED <<handler, inflight>>
  <2>1. PICK i \in DOMAIN cache : cache[i].id = Id(q) /\ answers' = answers \cup {<<Id(q), cache[i].payload>>}
    BY <1>2 DEF Cached, Reply
  <2>2. cache[i].payload \in Payloads
    <3>1. cache[i] \in CacheEntry
      BY DEF ServerTypeOK
    <3> QED
      BY <3>1 DEF CacheEntry
  <2>3. ServerTypeOK'
    BY <1>1, <1>2, <2>1, <2>2 DEF ServerTypeOK
  <2>4. OwnersInFlight' /\ ExecutedRemembered'
    BY <1>1, <1>2 DEF OwnersInFlight, ExecutedRemembered, CachedIds, TombIds, Works
  <2>5. \A id, p : Responded(id, p)' => Responded(id, p)
    BY <1>1, <1>2, <2>1 DEF Responded
  <2>6. ResponsesAgree'
    BY <1>1, <1>2, <2>5 DEF ResponsesAgree, Works
  <2>7. ExecutionsCounted'
    BY <1>1, <1>2 DEF ExecutionsCounted
  <2> QED
    BY <2>3, <2>4, <2>6, <2>7
<1>3. CASE /\ Cached(Id(q)) = {} /\ Entombed(Id(q)) = {}
           /\ {e \in inflight : e.id = Id(q)} = {}
           /\ inflight' = inflight \cup {Entry(q)}
           /\ handler' = [handler EXCEPT ![h] = [Free EXCEPT !.pc = "owner", !.request = q]]
           /\ UNCHANGED answers
  <2>1. /\ \A g \in Handlers \ {h} : handler'[g] = handler[g]
        /\ handler'[h].pc = "owner" /\ handler'[h].request = q
        /\ handler' \in [Handlers -> HandlerState]
    BY <1>1, <1>3, HandlerStates DEF ServerTypeOK
  <2>2. \A g \in Handlers : handler[g].pc \in Owning => Id(handler[g].request) # Id(q)
    <3> SUFFICES ASSUME NEW g \in Handlers, handler[g].pc \in Owning,
                        Id(handler[g].request) = Id(q)
                 PROVE  FALSE
      OBVIOUS
    <3>1. Entry(handler[g].request) \in inflight
      BY DEF OwnersInFlight
    <3>2. Entry(handler[g].request).id = Id(q)
      BY DEF Entry
    <3> QED
      BY <1>3, <3>1, <3>2
  <2>3. Id(q) \notin CachedIds \cup TombIds
    BY <1>3 DEF CachedIds, TombIds, Cached, Entombed
  <2>4. Id(q) \notin forgotten => executed[Id(q)] = 0
    <3>1. \A g \in Handlers : ~Works(g, Id(q))
      BY <2>2 DEF Works, Owning
    <3>2. executed[Id(q)] \in Nat
      BY <1>1 DEF ServerTypeOK
    <3> QED
      BY <1>1, <2>3, <3>1, <3>2 DEF ExecutedRemembered
  <2>5. ServerTypeOK'
    BY <1>1, <1>3, <2>1 DEF ServerTypeOK
  <2>6. OwnersInFlight'
    BY <1>3, <2>1, <2>2 DEF OwnersInFlight
  <2>7. \A g \in Handlers, id \in Ids : Works(g, id)' <=> Works(g, id)
    BY <1>1, <2>1 DEF Works
  <2>8. ExecutedRemembered'
    BY <1>1, <2>1, <2>4, <2>7 DEF ExecutedRemembered, CachedIds, TombIds
  <2>9. \A id, p : Responded(id, p)' <=> Responded(id, p)
    BY <1>1, <1>3, <2>1 DEF Responded
  <2>10. ResponsesAgree'
    BY <1>1, <2>7, <2>9 DEF ResponsesAgree
  <2>11. ExecutionsCounted'
    BY <1>1, <2>1 DEF ExecutionsCounted
  <2> QED
    BY <2>5, <2>6, <2>8, <2>10, <2>11
<1>4. CASE /\ handler' = [handler EXCEPT ![h] = [Free EXCEPT !.pc = "waiter", !.request = q]]
           /\ UNCHANGED <<inflight, answers>>
  <2>1. /\ \A g \in Handlers \ {h} : handler'[g] = handler[g]
        /\ handler'[h].pc = "waiter" /\ handler'[h].request = q
        /\ handler' \in [Handlers -> HandlerState]
    BY <1>1, <1>4, HandlerStates DEF ServerTypeOK
  <2>2. ServerTypeOK'
    BY <1>1, <1>4, <2>1 DEF ServerTypeOK
  <2>3. OwnersInFlight'
    BY <1>4, <2>1 DEF OwnersInFlight, Owning
  <2>4. \A g \in Handlers, id \in Ids : Works(g, id)' <=> Works(g, id)
    BY <1>1, <2>1 DEF Works
  <2>5. ExecutedRemembered'
    BY <1>1, <2>1, <2>4 DEF ExecutedRemembered, CachedIds, TombIds
  <2>6. \A id, p : Responded(id, p)' <=> Responded(id, p)
    BY <1>1, <1>4, <2>1 DEF Responded
  <2>7. ResponsesAgree'
    BY <1>1, <2>4, <2>6 DEF ResponsesAgree
  <2>8. ExecutionsCounted'
    BY <1>1, <2>1 DEF ExecutionsCounted
  <2> QED
    BY <2>2, <2>3, <2>5, <2>7, <2>8
<1> QED
  BY <1>2, <1>3, <1>4 DEF Deliver

\* An owner that has looked at its lease starts the only execution of its fence.
LEMMA BeginKeeps ==
  ASSUME ServerInv, NEW h \in Handlers, Begin(h)
  PROVE  ServerInv'
<1> USE DEF ServerInv
<1> DEFINE q == handler[h].request
<1>1. /\ handler[h].pc = "owner" /\ q \in Request /\ Id(q) \in Ids
      /\ UNCHANGED <<cache, tombs, answers, forgotten>>
  BY RequestIs DEF Begin, ServerTypeOK
<1>2. CASE /\ inflight' = inflight \ {Entry(q)} /\ handler' = [handler EXCEPT ![h] = Free]
           /\ UNCHANGED executed
  <2>1. /\ \A g \in Handlers \ {h} : handler'[g] = handler[g]
        /\ handler'[h].pc = "free" /\ handler' \in [Handlers -> HandlerState]
    BY <1>2, HandlerStates DEF ServerTypeOK
  <2>2. \A g \in Handlers \ {h} :
          handler[g].pc \in Owning => Entry(handler[g].request) # Entry(q)
    <3>1. \A g \in Handlers \ {h} :
            handler[g].pc \in Owning => Id(handler[g].request) # Id(q)
      BY <1>1 DEF OwnersInFlight, Owning
    <3> QED
      BY <3>1 DEF Entry
  <2>3. ServerTypeOK'
    BY <1>1, <1>2, <2>1 DEF ServerTypeOK
  <2>4. OwnersInFlight'
    BY <1>2, <2>1, <2>2 DEF OwnersInFlight, Owning
  <2>5. \A g \in Handlers, id \in Ids : Works(g, id)' <=> Works(g, id)
    BY <1>1, <2>1 DEF Works
  <2>6. ExecutedRemembered'
    BY <1>1, <1>2, <2>1, <2>5 DEF ExecutedRemembered, CachedIds, TombIds
  <2>7. \A id, p : Responded(id, p)' => Responded(id, p)
    BY <1>1, <2>1 DEF Responded
  <2>8. ResponsesAgree'
    BY <1>1, <1>2, <2>5, <2>7 DEF ResponsesAgree
  <2>9. ExecutionsCounted'
    BY <1>2, <2>1 DEF ExecutionsCounted
  <2> QED
    BY <2>3, <2>4, <2>6, <2>8, <2>9
<1>3. CASE /\ handler' = [handler EXCEPT ![h].pc = "working"]
           /\ executed' = [executed EXCEPT ![Id(q)] = @ + 1] /\ UNCHANGED inflight
  <2>1. /\ \A g \in Handlers \ {h} : handler'[g] = handler[g]
        /\ handler'[h].pc = "working" /\ handler'[h].request = q
        /\ handler' \in [Handlers -> HandlerState]
    BY <1>3 DEF ServerTypeOK, HandlerState
  <2>2. /\ executed[Id(q)] \in Nat /\ executed'[Id(q)] = executed[Id(q)] + 1
        /\ executed' \in [Ids -> Nat]
        /\ \A id \in Ids : id # Id(q) => executed'[id] = executed[id]
    BY <1>1, <1>3 DEF ServerTypeOK
  <2>3. Id(q) \notin forgotten => executed[Id(q)] = 0 /\ executed'[Id(q)] = 1
    BY <1>1, <2>2 DEF ExecutedRemembered
  <2>4. ServerTypeOK'
    BY <1>1, <2>1, <2>2 DEF ServerTypeOK
  <2>5. OwnersInFlight'
    BY <1>1, <1>3, <2>1 DEF OwnersInFlight, Owning
  <2>6. \A g \in Handlers, id \in Ids : Works(g, id)' <=> Works(g, id) \/ (g = h /\ id = Id(q))
    BY <1>1, <2>1 DEF Works
  <2>7. \A g \in Handlers : handler'[g].pc = "owner" =>
          g # h /\ handler[g].pc = "owner" /\ handler'[g].request = handler[g].request
          /\ Id(handler[g].request) # Id(q)
    BY <1>1, <2>1 DEF OwnersInFlight, Owning
  <2>8. ExecutedRemembered'
    <3> SUFFICES ASSUME NEW id \in Ids, id \notin forgotten
                 PROVE  /\ executed'[id] <= 1
                        /\ executed'[id] > 0 =>
                             \/ id \in CachedIds \cup TombIds
                             \/ \E g \in Handlers : Works(g, id)'
                        /\ \A g \in Handlers :
                             handler'[g].pc = "owner" /\ Id(handler'[g].request) = id
                               => executed'[id] = 0
      BY <1>1 DEF ExecutedRemembered, CachedIds, TombIds
    <3>1. CASE id = Id(q)
      BY <2>3, <2>6, <2>7, <3>1
    <3>2. CASE id # Id(q)
      BY <2>2, <2>6, <2>7, <3>2 DEF ExecutedRemembered
    <3> QED
      BY <3>1, <3>2
  <2>9. \A id, p : Responded(id, p)' => Responded(id, p)
    BY <1>1, <2>1 DEF Responded
  <2>10. ResponsesAgree'
    <3> SUFFICES ASSUME NEW id \in Ids, NEW p \in Payloads, id \notin forgotten, Responded(id, p)'
                 PROVE  /\ executed'[id] > 0
                        /\ \A g \in Handlers : ~Works(g, id)'
                        /\ \A r \in Payloads : Responded(id, r)' => r = p
      BY <1>1 DEF ResponsesAgree
    <3>1. /\ executed[id] > 0 /\ \A g \in Handlers : ~Works(g, id)
          /\ \A r \in Payloads : Responded(id, r) => r = p
      BY <2>9 DEF ResponsesAgree
    <3>2. id # Id(q)
      BY <2>3, <3>1
    <3> QED
      BY <2>2, <2>6, <2>9, <3>1, <3>2
  <2>11. ExecutionsCounted'
    <3> SUFFICES ASSUME NEW g \in Handlers, handler'[g].pc = "working"
                 PROVE  executed'[Id(handler'[g].request)] > 0
      BY DEF ExecutionsCounted
    <3>1. CASE g = h
      BY <2>1, <2>2, <3>1
    <3>2. CASE g # h
      <4>1. /\ handler[g].pc = "working" /\ handler'[g].request = handler[g].request
            /\ Id(handler[g].request) \in Ids /\ executed[Id(handler[g].request)] > 0
        BY <2>1, <3>2, RequestIs DEF ExecutionsCounted, ServerTypeOK
      <4> QED
        BY <2>2, <4>1
    <3> QED
      BY <3>1, <3>2
  <2> QED
    BY <2>4, <2>5, <2>8, <2>10, <2>11
<1> QED
  BY <1>2, <1>3 DEF Begin

\* An execution that failed leaves a tombstone.
LEMMA WorkFailsKeeps ==
  ASSUME ServerInv, NEW h \in Handlers, WorkFails(h)
  PROVE  ServerInv'
<1> USE DEF ServerInv
<1> DEFINE q == handler[h].request
<1>1. /\ handler[h].pc = "working" /\ q \in Request /\ Id(q) \in Ids
      /\ handler' = [handler EXCEPT ![h].pc = "leaving"]
      /\ UNCHANGED <<cache, inflight, answers, executed>>
  BY RequestIs DEF WorkFails, ServerTypeOK
<1>2. /\ tombs' \in Seq(TombEntry) /\ forgotten \subseteq forgotten'
      /\ \A id \in TombIds \cup {Id(q)} : id \in TombIds' \cup forgotten'
  <2>1. Bury(Entry(q))
    BY DEF WorkFails, AfterFailure
  <2>2. tombs \in Seq(TombEntry)
    BY DEF ServerTypeOK
  <2> QED
    BY <1>1, <2>1, <2>2, RequestIs, BuryIs
<1>3. /\ \A g \in Handlers \ {h} : handler'[g] = handler[g]
      /\ handler'[h].pc = "leaving" /\ handler'[h].request = q
      /\ handler' \in [Handlers -> HandlerState]
  BY <1>1 DEF ServerTypeOK, HandlerState
<1>4. ServerTypeOK'
  BY <1>1, <1>2, <1>3 DEF ServerTypeOK
<1>5. OwnersInFlight'
  BY <1>1, <1>3 DEF OwnersInFlight, Owning
<1>6. \A g \in Handlers, id \in Ids : Works(g, id)' <=> Works(g, id) /\ g # h
  BY <1>1, <1>3 DEF Works
<1>7. ExecutedRemembered'
  <2> SUFFICES ASSUME NEW id \in Ids, id \notin forgotten'
               PROVE  /\ executed[id] <= 1
                      /\ executed[id] > 0 =>
                           \/ id \in CachedIds' \cup TombIds'
                           \/ \E g \in Handlers : Works(g, id)'
                      /\ \A g \in Handlers :
                           handler'[g].pc = "owner" /\ Id(handler'[g].request) = id
                             => executed[id] = 0
    BY <1>1 DEF ExecutedRemembered
  <2>1. /\ executed[id] <= 1
        /\ executed[id] > 0 =>
             id \in CachedIds \cup TombIds \/ \E g \in Handlers : Works(g, id)
        /\ \A g \in Handlers :
             handler[g].pc = "owner" /\ Id(handler[g].request) = id => executed[id] = 0
    BY <1>2 DEF ExecutedRemembered
  <2>2. CachedIds' = CachedIds
    BY <1>1 DEF CachedIds
  <2>3. Works(h, id) => id \in TombIds'
    BY <1>2 DEF Works
  <2> QED
    BY <1>2, <1>3, <1>6, <2>1, <2>2, <2>3
<1>8. \A id, p : Responded(id, p)' => Responded(id, p)
  BY <1>1, <1>3 DEF Responded
<1>9. ResponsesAgree'
  BY <1>1, <1>2, <1>6, <1>8 DEF ResponsesAgree
<1>10. ExecutionsCounted'
  BY <1>1, <1>3 DEF ExecutionsCounted
<1> QED
  BY <1>4, <1>5, <1>7, <1>9, <1>10

\* The execution has answered: nothing was said to its fence before.
LEMMA PublishKeeps ==
  ASSUME ServerInv, NEW h \in Handlers, NEW p \in Payloads, Publish(h, p)
  PROVE  ServerInv'
<1> DEFINE q == handler[h].request
<1>1. /\ handler[h].pc = "working" /\ q \in Request /\ Id(q) \in Ids
      /\ handler' = [handler EXCEPT ![h].pc = "sending", ![h].payload = p]
      /\ UNCHANGED <<inflight, answers, executed>>
  BY RequestIs DEF Publish, ServerInv, ServerTypeOK
<1>2. /\ cache' \in Seq(CacheEntry) /\ tombs' \in Seq(TombEntry)
      /\ forgotten \subseteq forgotten'
      /\ \A id \in TombIds : id \in TombIds' \cup forgotten'
      /\ \A id \in CachedIds \cup {Id(q)} : id \in CachedIds' \cup TombIds' \cup forgotten'
      /\ \A j \in DOMAIN cache' :
           \/ cache'[j].id = Id(q) /\ cache'[j].payload = p
           \/ \E i \in DOMAIN cache : cache'[j] = cache[i]
  BY PublishIs
<1> USE DEF ServerInv
<1>3. /\ \A g \in Handlers \ {h} : handler'[g] = handler[g]
      /\ handler'[h].pc = "sending" /\ handler'[h].request = q /\ handler'[h].payload = p
      /\ handler' \in [Handlers -> HandlerState]
  BY <1>1 DEF ServerTypeOK, HandlerState
<1>4. ServerTypeOK'
  BY <1>1, <1>2, <1>3 DEF ServerTypeOK
<1>5. OwnersInFlight'
  BY <1>1, <1>3 DEF OwnersInFlight, Owning
<1>6. \A g \in Handlers, id \in Ids : Works(g, id)' <=> Works(g, id) /\ g # h
  BY <1>1, <1>3 DEF Works
<1>7. ExecutedRemembered'
  <2> SUFFICES ASSUME NEW id \in Ids, id \notin forgotten'
               PROVE  /\ executed[id] <= 1
                      /\ executed[id] > 0 =>
                           \/ id \in CachedIds' \cup TombIds'
                           \/ \E g \in Handlers : Works(g, id)'
                      /\ \A g \in Handlers :
                           handler'[g].pc = "owner" /\ Id(handler'[g].request) = id
                             => executed[id] = 0
    BY <1>1 DEF ExecutedRemembered
  <2>1. /\ executed[id] <= 1
        /\ executed[id] > 0 =>
             id \in CachedIds \cup TombIds \/ \E g \in Handlers : Works(g, id)
        /\ \A g \in Handlers :
             handler[g].pc = "owner" /\ Id(handler[g].request) = id => executed[id] = 0
    BY <1>2 DEF ExecutedRemembered
  <2>2. Works(h, id) => id \in CachedIds' \cup TombIds'
    BY <1>2 DEF Works
  <2> QED
    BY <1>2, <1>3, <1>6, <2>1, <2>2
<1>8. \A id \in Ids : \A r : Responded(id, r)' => Responded(id, r) \/ (id = Id(q) /\ r = p)
  <2> SUFFICES ASSUME NEW id \in Ids, NEW r, Responded(id, r)'
               PROVE  Responded(id, r) \/ (id = Id(q) /\ r = p)
    OBVIOUS
  <2>1. CASE <<id, r>> \in answers'
    BY <1>1, <2>1 DEF Responded
  <2>2. CASE \E j \in DOMAIN cache' : cache'[j].id = id /\ cache'[j].payload = r
    BY <1>2, <2>2 DEF Responded
  <2>3. CASE \E g \in Handlers : /\ handler'[g].pc = "sending"
                                 /\ Id(handler'[g].request) = id /\ handler'[g].payload = r
    BY <1>3, <2>3 DEF Responded
  <2> QED
    BY <2>1, <2>2, <2>3 DEF Responded
<1>9. ResponsesAgree'
  <2> SUFFICES ASSUME NEW id \in Ids, NEW r \in Payloads, id \notin forgotten', Responded(id, r)'
               PROVE  /\ executed[id] > 0
                      /\ \A g \in Handlers : ~Works(g, id)'
                      /\ \A t \in Payloads : Responded(id, t)' => t = r
    BY <1>1 DEF ResponsesAgree
  <2>1. CASE id = Id(q)
    <3>1. Works(h, id) /\ id \notin forgotten
      BY <1>1, <1>2, <2>1 DEF Works
    <3>2. \A t \in Payloads : ~Responded(id, t)
      BY <3>1 DEF ResponsesAgree
    <3>3. executed[id] > 0
      BY <1>1, <2>1 DEF ExecutionsCounted
    <3>4. \A g \in Handlers : ~Works(g, id)'
      BY <1>1, <1>6, <2>1 DEF Works, OwnersInFlight, Owning
    <3> QED
      BY <1>8, <3>2, <3>3, <3>4
  <2>2. CASE id # Id(q)
    BY <1>2, <1>6, <1>8, <2>2 DEF ResponsesAgree
  <2> QED
    BY <2>1, <2>2
<1>10. ExecutionsCounted'
  BY <1>1, <1>3 DEF ExecutionsCounted
<1> QED
  BY <1>4, <1>5, <1>7, <1>9, <1>10

\* The response is sent, or a tombstone is left for it.
LEMMA SendKeeps ==
  ASSUME ServerInv, NEW h \in Handlers, Send(h)
  PROVE  ServerInv'
<1> USE DEF ServerInv
<1> DEFINE q == handler[h].request
           p == handler[h].payload
<1>1. /\ handler[h].pc = "sending" /\ q \in Request /\ Id(q) \in Ids /\ p \in Payloads
      /\ handler' = [handler EXCEPT ![h].pc = "leaving"]
      /\ UNCHANGED <<cache, inflight, executed>>
  BY RequestIs DEF Send, ServerTypeOK
<1>2. /\ tombs' \in Seq(TombEntry) /\ forgotten \subseteq forgotten'
      /\ \A id \in TombIds : id \in TombIds' \cup forgotten'
      /\ answers \subseteq answers' /\ answers' \subseteq answers \cup {<<Id(q), p>>}
  <2>1. tombs \in Seq(TombEntry)
    BY DEF ServerTypeOK
  <2>2. CASE Reply(q, p) /\ UNCHANGED <<tombs, forgotten>>
    BY <2>1, <2>2 DEF Reply, TombIds
  <2>3. CASE Bury(Entry(q)) /\ UNCHANGED answers
    BY <1>1, <2>1, <2>3, RequestIs, BuryIs
  <2> QED
    BY <2>2, <2>3 DEF Send
<1>3. /\ \A g \in Handlers \ {h} : handler'[g] = handler[g]
      /\ handler'[h].pc = "leaving" /\ handler'[h].request = q
      /\ handler' \in [Handlers -> HandlerState]
  BY <1>1 DEF ServerTypeOK, HandlerState
<1>4. ServerTypeOK'
  BY <1>1, <1>2, <1>3 DEF ServerTypeOK
<1>5. OwnersInFlight'
  BY <1>1, <1>3 DEF OwnersInFlight, Owning
<1>6. \A g \in Handlers, id \in Ids : Works(g, id)' <=> Works(g, id)
  BY <1>1, <1>3 DEF Works
<1>7. ExecutedRemembered'
  <2>1. CachedIds' = CachedIds
    BY <1>1 DEF CachedIds
  <2>2. \A g \in Handlers : handler'[g].pc = "owner" =>
          handler[g].pc = "owner" /\ handler'[g].request = handler[g].request
    BY <1>3
  <2> QED
    BY <1>1, <1>2, <1>6, <2>1, <2>2 DEF ExecutedRemembered
<1>8. \A id \in Ids : \A r : Responded(id, r)' => Responded(id, r)
  <2> SUFFICES ASSUME NEW id \in Ids, NEW r, Responded(id, r)' PROVE Responded(id, r)
    OBVIOUS
  <2>1. CASE <<id, r>> \in answers'
    <3>1. <<id, r>> \in answers \/ (id = Id(q) /\ r = p)
      BY <1>2, <2>1
    <3> QED
      BY <1>1, <3>1 DEF Responded
  <2>2. CASE \E j \in DOMAIN cache' : cache'[j].id = id /\ cache'[j].payload = r
    BY <1>1, <2>2 DEF Responded
  <2>3. CASE \E g \in Handlers : /\ handler'[g].pc = "sending"
                                 /\ Id(handler'[g].request) = id /\ handler'[g].payload = r
    BY <1>3, <2>3 DEF Responded
  <2> QED
    BY <2>1, <2>2, <2>3 DEF Responded
<1>9. ResponsesAgree'
  BY <1>1, <1>2, <1>6, <1>8 DEF ResponsesAgree
<1>10. ExecutionsCounted'
  BY <1>1, <1>3 DEF ExecutionsCounted
<1> QED
  BY <1>4, <1>5, <1>7, <1>9, <1>10

\* A request leaves the server; who waited for it is woken.
LEMMA LeaveKeeps ==
  ASSUME ServerInv, NEW h \in Handlers, Leave(h)
  PROVE  ServerInv'
<1> USE DEF ServerInv
<1> DEFINE q == handler[h].request
<1>1. /\ handler[h].pc = "leaving" /\ q \in Request
      /\ inflight' = inflight \ {Entry(q)}
      /\ UNCHANGED <<cache, tombs, answers, executed, forgotten>>
  BY DEF Leave, ServerTypeOK
<1>2. handler' = [g \in Handlers |->
                   IF g = h THEN Free
                   ELSE IF handler[g].pc = "waiter" /\ Id(handler[g].request) = Id(q)
                        THEN [handler[g] EXCEPT !.woken = TRUE] ELSE handler[g]]
  BY DEF Leave
<1>3. handler'[h].pc = "free" /\ handler' \in [Handlers -> HandlerState]
  <2>1. \A g \in Handlers : [handler[g] EXCEPT !.woken = TRUE] \in HandlerState
    BY DEF ServerTypeOK, HandlerState
  <2>2. \A g \in Handlers : handler[g] \in HandlerState
    BY DEF ServerTypeOK
  <2> QED
    BY <1>2, <2>1, <2>2, HandlerStates
<1>4. \A g \in Handlers \ {h} :
        /\ handler'[g].pc = handler[g].pc /\ handler'[g].request = handler[g].request
        /\ handler'[g].payload = handler[g].payload
  BY <1>2 DEF ServerTypeOK, HandlerState
<1>5. ServerTypeOK'
  BY <1>1, <1>3, <1>4 DEF ServerTypeOK
<1>6. \A g \in Handlers \ {h} :
        handler[g].pc \in Owning => Entry(handler[g].request) # Entry(q)
  <2>1. \A g \in Handlers \ {h} :
          handler[g].pc \in Owning => Id(handler[g].request) # Id(q)
    BY <1>1 DEF OwnersInFlight, Owning
  <2> QED
    BY <2>1 DEF Entry
<1>7. OwnersInFlight'
  BY <1>1, <1>3, <1>4, <1>6 DEF OwnersInFlight, Owning
<1>8. \A g \in Handlers, id \in Ids : Works(g, id)' <=> Works(g, id)
  BY <1>1, <1>3, <1>4 DEF Works
<1>9. ExecutedRemembered'
  BY <1>1, <1>3, <1>4, <1>8 DEF ExecutedRemembered, CachedIds, TombIds
<1>10. \A id, p : Responded(id, p)' => Responded(id, p)
  BY <1>1, <1>3, <1>4 DEF Responded
<1>11. ResponsesAgree'
  BY <1>1, <1>8, <1>10 DEF ResponsesAgree
<1>12. ExecutionsCounted'
  BY <1>1, <1>3, <1>4 DEF ExecutionsCounted
<1> QED
  BY <1>5, <1>7, <1>9, <1>11, <1>12

\* A duplicate that waited repeats the response that is there.
LEMMA WakeKeeps ==
  ASSUME ServerInv, NEW h \in Handlers, Wake(h)
  PROVE  ServerInv'
<1> USE DEF ServerInv
<1> DEFINE q == handler[h].request
<1>1. /\ handler[h].pc = "waiter" /\ q \in Request /\ Id(q) \in Ids
      /\ handler' = [handler EXCEPT ![h] = Free]
      /\ UNCHANGED <<cache, tombs, inflight, executed, forgotten>>
  BY RequestIs DEF Wake, ServerTypeOK
<1>2. \/ UNCHANGED answers
      \/ \E i \in DOMAIN cache :
           cache[i].id = Id(q) /\ answers' = answers \cup {<<Id(q), cache[i].payload>>}
  BY DEF Wake, Cached, Reply
<1>3. /\ \A g \in Handlers \ {h} : handler'[g] = handler[g]
      /\ handler'[h].pc = "free" /\ handler' \in [Handlers -> HandlerState]
  BY <1>1, HandlerStates DEF ServerTypeOK
<1>4. answers' \subseteq Ids \X Payloads
  <2>1. \A i \in DOMAIN cache : cache[i].payload \in Payloads
    <3>1. \A i \in DOMAIN cache : cache[i] \in CacheEntry
      BY DEF ServerTypeOK
    <3> QED
      BY <3>1 DEF CacheEntry
  <2> QED
    BY <1>1, <1>2, <2>1 DEF ServerTypeOK
<1>5. ServerTypeOK'
  BY <1>1, <1>3, <1>4 DEF ServerTypeOK
<1>6. OwnersInFlight'
  BY <1>1, <1>3 DEF OwnersInFlight, Owning
<1>7. \A g \in Handlers, id \in Ids : Works(g, id)' <=> Works(g, id)
  BY <1>1, <1>3 DEF Works
<1>8. ExecutedRemembered'
  BY <1>1, <1>3, <1>7 DEF ExecutedRemembered, CachedIds, TombIds
<1>9. \A id, p : Responded(id, p)' => Responded(id, p)
  BY <1>1, <1>2, <1>3 DEF Responded
<1>10. ResponsesAgree'
  BY <1>1, <1>7, <1>9 DEF ResponsesAgree
<1>11. ExecutionsCounted'
  BY <1>1, <1>3 DEF ExecutionsCounted
<1> QED
  BY <1>5, <1>6, <1>8, <1>10, <1>11

\* Only the server's own threads touch what it remembers.
LEMMA ServerUnchanged ==
  ASSUME ServerInv, UNCHANGED serverVars
  PROVE  ServerInv'
<1> USE DEF ServerInv, serverVars
<1>1. ServerTypeOK' /\ OwnersInFlight' /\ ExecutionsCounted'
  BY DEF ServerTypeOK, OwnersInFlight, ExecutionsCounted
<1>2. ExecutedRemembered'
  BY DEF ExecutedRemembered, CachedIds, TombIds, Works
<1>3. ResponsesAgree'
  BY DEF ResponsesAgree, Responded, Works
<1> QED
  BY <1>1, <1>2, <1>3

\* What a thread does keeps the server's invariant, whoever else runs.
LEMMA ServerKeeps ==
  ASSUME ServerInv, sent \subseteq Request, NEW h \in Handlers, Server(h)
  PROVE  ServerInv'
  BY DeliverKeeps, BeginKeeps, WorkFailsKeeps, PublishKeeps, SendKeeps, LeaveKeeps, WakeKeeps
  DEF Server

LEMMA AnswersGrow ==
  ASSUME NEW h \in Handlers, Server(h)
  PROVE  answers \subseteq answers' /\ UNCHANGED <<vars, clientVars>>
<1>1. CASE \E q \in sent : Deliver(h, q)
  BY <1>1 DEF Deliver, Reply
<1>2. CASE Begin(h) \/ WorkFails(h) \/ Send(h) \/ Leave(h) \/ Wake(h)
  BY <1>2 DEF Begin, WorkFails, Send, Leave, Wake, Reply
<1>3. CASE \E p \in Payloads : Publish(h, p)
  BY <1>3 DEF Publish
<1> QED
  BY <1>1, <1>2, <1>3 DEF Server

-----------------------------------------------------------------------------
(* The clients *)

\* A claim belongs to one runner.
ClaimsDistinct ==
  \A w \in Runners : runner[w].pc # "idle" =>
    /\ runner[w].token <= attempt[runner[w].run]
    /\ \A u \in Runners :
         /\ runner[u].pc # "idle" /\ runner[u].run = runner[w].run
         /\ runner[u].token = runner[w].token
         => u = w

OnRecord(r, identity, data) == \A d \in data : <<r, identity, d>> \in events

\* What a runner has of its answer on record when it gets to a stage.
Held(w) ==
  LET l == runner[w] IN
  /\ l.pc \in Holding => <<<<l.run, l.token>>, l.payload>> \in answers
  /\ l.pc \in {"checkpoint", "effects", "complete"} =>
       OnRecord(l.run, "event", l.payload.events)
  /\ l.pc \in {"effects", "complete"} /\ attempt[l.run] = l.token =>
       \A v \in l.payload.checkpoint : version[l.run] = v + 1
  /\ l.pc = "complete" => OnRecord(l.run, "effect", l.payload.effects)

HeldIsRecorded == \A w \in Runners : Held(w)

OutcomeIsFinal == \A r \in Runs : outcome[r] # NoCall => state[r] = "completed"

ClientInv ==
  /\ ClientTypeOK /\ ClaimsDistinct /\ HeldIsRecorded
  /\ OutcomeIsFinal /\ CompletedIsRecorded

\* A run that exists, and each that was ever claimed, has a task to be read.
RunsHaveTasks ==
  \A r \in Runs : state[r] # "none" \/ attempt[r] > 0 => taskOf[r] \in Tasks

RemoteInv == IInv /\ RunsHaveTasks /\ ServerInv /\ ClientInv

-----------------------------------------------------------------------------
(* What the clients do to the store *)

\* A completed run stays completed, with the attempt and the checkpoint it had.
LEMMA CompletedFixed ==
  ASSUME IInv, [Next]_vars, NEW r \in Runs, state[r] = "completed"
  PROVE  state'[r] = "completed" /\ attempt'[r] = attempt[r] /\ version'[r] = version[r]
<1>1. state'[r] = "completed"
  BY DecisionStep DEF Terminal, Reopens
<1> USE DEF IInv, TypeOK
<1>2. CASE UNCHANGED <<attempt, version>>
  BY <1>1, <1>2
<1>3. ASSUME NEW q \in Runs, NEW s \in Stamp, ClaimRun(q, s)
      PROVE  attempt'[r] = attempt[r] /\ version'[r] = version[r]
  BY <1>3 DEF ClaimRun, Claimable
<1>4. ASSUME NEW q \in Runs, NEW token \in Token, NEW s \in Stamp, WorkerCall(q, token, s)
      PROVE  attempt'[r] = attempt[r] /\ version'[r] = version[r]
  BY <1>4 DEF WorkerCall, RenewLease, SaveCheckpoint, Suspend, Advance, CompleteRun, FailRun,
              FinishCancelled, Settle, DropLease, leaseVars, HoldsLease
<1>5. CASE \/ Tick \/ \E t \in Tasks : CreateTask(t)
           \/ \E q \in Runs, t \in Tasks : CreateRun(q, t)
           \/ \E i \in Interrupts, allow \in BOOLEAN : ResolveInterrupt(i, allow)
           \/ \E o \in Operators, q \in Runs : ReopenRead(o, q)
           \/ \E o \in Operators, ev \in Evidence : ReopenCommit(o, ev)
           \/ \E o \in Operators : ReopenAbort(o)
  BY <1>2, <1>5 DEF Tick, CreateTask, CreateRun, ResolveInterrupt, ReopenRead, ReopenCommit,
                    ReopenAbort, leaseVars
<1>6. CASE \E q \in Runs : RequestCancel(q)
  BY <1>2, <1>6 DEF RequestCancel, CancelActive, DropLease, leaseVars
<1>7. CASE \E t \in Tasks : CancelTask(t)
  BY <1>2, <1>7 DEF CancelTask, CancelActive, DropLease, leaseVars
<1>8. CASE UNCHANGED vars
  BY <1>2, <1>8 DEF vars, leaseVars
<1> QED
  BY <1>1, <1>3, <1>4, <1>5, <1>6, <1>7, <1>8 DEF Next

\* The task of a run is written with the run and never again.
LEMMA TasksKept ==
  ASSUME IInv, RunsHaveTasks, [Next]_vars
  PROVE  RunsHaveTasks'
<1> USE DEF RunsHaveTasks, IInv, TypeOK
<1>1. CASE UNCHANGED <<taskOf, state, attempt>>
  BY <1>1
<1>2. CASE \/ UNCHANGED vars \/ Tick \/ \E t \in Tasks : CreateTask(t)
           \/ \E o \in Operators, r \in Runs : ReopenRead(o, r)
           \/ \E o \in Operators : ReopenAbort(o)
  BY <1>1, <1>2 DEF vars, taskVars, leaseVars, Tick, CreateTask, ReopenRead, ReopenAbort
<1>3. ASSUME NEW r \in Runs, NEW t \in Tasks, CreateRun(r, t) PROVE RunsHaveTasks'
  BY <1>3 DEF CreateRun, leaseVars
<1>4. ASSUME NEW r \in Runs, NEW s \in Stamp, ClaimRun(r, s) PROVE RunsHaveTasks'
  BY <1>4 DEF ClaimRun, Claimable, taskVars
<1>5. ASSUME NEW r \in Runs, NEW token \in Token, NEW s \in Stamp, WorkerCall(r, token, s)
      PROVE  RunsHaveTasks'
  BY <1>5 DEF WorkerCall, RenewLease, SaveCheckpoint, Suspend, Advance, CompleteRun, FailRun,
              FinishCancelled, Settle, DropLease, leaseVars, taskVars, HoldsLease
<1>6. ASSUME NEW i \in Interrupts, NEW allow \in BOOLEAN, ResolveInterrupt(i, allow)
      PROVE  RunsHaveTasks'
  BY <1>6 DEF ResolveInterrupt, taskVars, leaseVars
<1>7. ASSUME NEW o \in Operators, NEW ev \in Evidence, ReopenCommit(o, ev)
      PROVE  RunsHaveTasks'
  BY <1>7 DEF ReopenCommit, leaseVars
<1>8. ASSUME NEW r \in Runs, CancelActive(r), UNCHANGED taskOf
      PROVE  RunsHaveTasks'
  BY <1>8 DEF CancelActive, DropLease, leaseVars
<1>9. ASSUME NEW r \in Runs, RequestCancel(r) PROVE RunsHaveTasks'
  BY <1>8, <1>9 DEF RequestCancel, taskVars
<1>10. ASSUME NEW t \in Tasks, CancelTask(t) PROVE RunsHaveTasks'
  BY <1>1, <1>8, <1>10 DEF CancelTask, leaseVars, ActiveRuns
<1> QED
  BY <1>2, <1>3, <1>4, <1>5, <1>6, <1>7, <1>9, <1>10 DEF Next

\* A runner presents tokens and versions of the store's ranges.
LEMMA NowIsAStamp == IInv => now \in Stamp
  BY StoreAssumption DEF IInv, TypeOK, Stamp

\* The completed runs keep their history while more is recorded.
LEMMA OutcomesKeep ==
  ASSUME RemoteInv, [Next]_vars, outcome' = outcome,
         answers \subseteq answers', events \subseteq events'
  PROVE  OutcomeIsFinal' /\ CompletedIsRecorded'
<1> USE DEF RemoteInv, ClientInv
<1>1. \A r \in Runs : outcome[r] # NoCall =>
        /\ state[r] = "completed" /\ state'[r] = "completed"
        /\ attempt'[r] = attempt[r] /\ version'[r] = version[r]
  BY CompletedFixed DEF OutcomeIsFinal
<1>2. OutcomeIsFinal'
  BY <1>1 DEF OutcomeIsFinal
<1>3. CompletedIsRecorded'
  BY <1>1 DEF CompletedIsRecorded
<1> QED
  BY <1>2, <1>3

\* A runner that keeps its claim or gives it up, and writes no checkpoint but
\* under a current token, leaves the other runners what they have.
LEMMA OthersKeep ==
  ASSUME RemoteInv, NEW w \in Runners,
         \A u \in Runners \ {w} : runner'[u] = runner[u],
         runner'[w].pc # "idle" =>
           /\ runner[w].pc # "idle"
           /\ runner'[w].run = runner[w].run /\ runner'[w].token = runner[w].token,
         attempt' = attempt, answers \subseteq answers', events \subseteq events',
         \A r \in Runs : version'[r] # version[r] =>
           runner[w].pc # "idle" /\ runner[w].run = r /\ runner[w].token = attempt[r]
  PROVE  ClaimsDistinct' /\ \A u \in Runners \ {w} : Held(u)'
<1> USE DEF RemoteInv, ClientInv
<1>1. ClaimsDistinct'
  BY DEF ClaimsDistinct
<1>2. ASSUME NEW u \in Runners \ {w} PROVE Held(u)'
  <2>1. Held(u) /\ runner'[u] = runner[u]
    BY DEF HeldIsRecorded
  <2>2. runner[u].pc \in Holding => runner[u].run \in Runs /\ runner[u].pc # "idle"
    BY DEF ClientTypeOK, Holding
  <2>3. runner[u].pc \in Holding /\ attempt[runner[u].run] = runner[u].token
          => version'[runner[u].run] = version[runner[u].run]
    BY <2>2 DEF ClaimsDistinct
  <2> QED
    BY <2>1, <2>3 DEF Held, OnRecord, Holding
<1> QED
  BY <1>1, <1>2

\* A step that leaves the runners and their runs' claims as they are.
LEMMA QuietKeeps ==
  ASSUME RemoteInv, [Next]_vars, UNCHANGED <<clientVars, attempt, version>>,
         answers \subseteq answers'
  PROVE  ClientInv'
<1> USE DEF RemoteInv, ClientInv, clientVars
<1>1. ClientTypeOK' /\ ClaimsDistinct'
  BY DEF ClientTypeOK, ClaimsDistinct
<1>2. HeldIsRecorded'
  BY DEF HeldIsRecorded, Held, OnRecord
<1>3. OutcomeIsFinal' /\ CompletedIsRecorded'
  BY OutcomesKeep
<1> QED
  BY <1>1, <1>2, <1>3

\* The runner that moves, and what it has on record where it gets to.
LEMMA MoveKeeps ==
  ASSUME RemoteInv, NEW w \in Runners, Move(w, runner'[w]), runner'[w] \in RunnerState,
         runner'[w].pc # "idle" =>
           /\ runner[w].pc # "idle"
           /\ runner'[w].run = runner[w].run /\ runner'[w].token = runner[w].token,
         runner'[w].pc \in Holding => runner'[w].payload \in Payloads,
         [Next]_vars, UNCHANGED <<outcome, attempt, answers>>,
         sent' \subseteq Request,
         events \subseteq events', \A e \in events' : e = <<e[1], e[2], e[3]>>,
         \A r \in Runs : version'[r] # version[r] =>
           runner[w].pc # "idle" /\ runner[w].run = r /\ runner[w].token = attempt[r],
         Held(w)'
  PROVE  ClientInv'
<1> USE DEF RemoteInv, ClientInv
<1>1. /\ runner' \in [Runners -> RunnerState]
      /\ \A u \in Runners \ {w} : runner'[u] = runner[u]
  BY DEF Move, ClientTypeOK
<1>2. ClientTypeOK'
  BY <1>1 DEF ClientTypeOK
<1>3. ClaimsDistinct' /\ HeldIsRecorded'
  BY <1>1, OthersKeep DEF HeldIsRecorded
<1>4. OutcomeIsFinal' /\ CompletedIsRecorded'
  BY OutcomesKeep
<1> QED
  BY <1>2, <1>3, <1>4

\* A call of a runner is a step of the store: it presents a token of its claim.
LEMMA HeldToken ==
  ASSUME IInv, NEW r \in Runs, NEW token \in Token, WorkerCall(r, token, now)
  PROVE  [Next]_vars /\ attempt' = attempt
<1>1. now \in Stamp
  BY NowIsAStamp
<1>2. Next
  BY <1>1 DEF Next
<1>3. attempt' = attempt
  BY DEF WorkerCall, RenewLease, SaveCheckpoint, Suspend, Advance, CompleteRun, FailRun,
         FinishCancelled, Settle, DropLease, leaseVars
<1> QED
  BY <1>2, <1>3

\* A runner that gives up keeps nothing but what the store and the others have.
LEMMA DropKeeps ==
  ASSUME RemoteInv, NEW w \in Runners, Drop(w), [Next]_vars,
         UNCHANGED <<sent, events, outcome, attempt, version, answers>>
  PROVE  ClientInv'
<1> USE DEF RemoteInv, ClientInv
<1>1. Idle \in RunnerState /\ Idle.pc = "idle"
  BY StoreAssumption DEF Idle, RunnerState
<1>2. runner'[w] = Idle /\ Move(w, runner'[w])
  BY DEF Drop, Move, ClientTypeOK
<1>3. Held(w)'
  BY <1>1, <1>2 DEF Held, Holding
<1>4. sent' \subseteq Request /\ \A e \in events' : e = <<e[1], e[2], e[3]>>
  BY DEF ClientTypeOK
<1> QED
  BY <1>1, <1>2, <1>3, <1>4, MoveKeeps DEF Holding

\* A runner that raises leaves its run to its lease ...
LEMMA AbandonKeeps ==
  ASSUME RemoteInv, NEW w \in Runners, Abandon(w), UNCHANGED answers
  PROVE  [Next]_vars /\ ClientInv'
<1>1. UNCHANGED <<vars, attempt, version>>
  BY DEF Abandon, vars, leaseVars
<1> QED
  BY <1>1, DropKeeps DEF Abandon

\* ... or to the failure it can still record.
LEMMA FailKeeps ==
  ASSUME RemoteInv, NEW w \in Runners, runner[w].pc # "idle",
         NEW errors \in SUBSET Errors, Fail(w, errors), UNCHANGED answers
  PROVE  [Next]_vars /\ ClientInv'
<1> DEFINE l == runner[w]
<1>1. l.run \in Runs /\ l.token \in Token
  BY DEF RemoteInv, ClientInv, ClientTypeOK
<1>2. CASE Abandon(w)
  BY <1>2, AbandonKeeps
<1>3. ASSUME NEW e \in errors, FailRun(l.run, l.token, e, now), Drop(w),
             UNCHANGED <<sent, outcome, events>>
      PROVE  [Next]_vars /\ ClientInv'
  <2>1. WorkerCall(l.run, l.token, now) /\ version' = version
    BY <1>3 DEF WorkerCall, FailRun
  <2>2. [Next]_vars /\ attempt' = attempt
    BY <1>1, <2>1, HeldToken DEF RemoteInv
  <2> QED
    BY <1>3, <2>1, <2>2, DropKeeps
<1> QED
  BY <1>2, <1>3 DEF Fail

\* A claim is a new one: its token was never given to anybody.
LEMMA ClaimKeeps ==
  ASSUME RemoteInv, NEW w \in Runners, NEW r \in Runs, RunnerClaim(w, r)
  PROVE  [Next]_vars /\ ClientInv'
<1> USE DEF RemoteInv, ClientInv
<1> DEFINE s == [Idle EXCEPT !.pc = "claimed", !.run = r, !.token = attempt[r] + 1,
                             !.expires = now + LeaseSeconds, !.cancel = cancelRequested[r]]
<1>1. runner[w] = Idle /\ ClaimRun(r, now) /\ Move(w, s)
      /\ UNCHANGED <<sent, outcome, events, answers>>
  BY DEF RunnerClaim, serverVars
<1>2. [Next]_vars
  BY <1>1, NowIsAStamp DEF Next
<1>3. /\ attempt[r] \in Nat /\ attempt' = [attempt EXCEPT ![r] = @ + 1]
      /\ attempt[r] + 1 \in Token /\ version' = version /\ attempt \in [Runs -> Nat]
  <2>1. attempt \in [Runs -> 0 .. MaxAttempt] /\ attempt[r] < MaxAttempt
    BY <1>1 DEF ClaimRun, IInv, TypeOK
  <2>2. attempt' = [attempt EXCEPT ![r] = @ + 1] /\ version' = version
    BY <1>1 DEF ClaimRun
  <2>3. attempt \in [Runs -> Nat] /\ attempt[r] + 1 \in Token
    BY <2>1, Bounds DEF Token
  <2> QED
    BY <2>1, <2>2, <2>3
<1>4. /\ s.pc = "claimed" /\ s.run = r /\ s.token = attempt[r] + 1 /\ s \in RunnerState
  <2>1. /\ now + LeaseSeconds \in Nat /\ cancelRequested[r] \in BOOLEAN
        /\ attempt[r] + 1 \in 0 .. MaxAttempt
    BY <1>3, Bounds DEF IInv, TypeOK, Token
  <2> QED
    BY <2>1 DEF Idle, RunnerState
<1> HIDE DEF s
<1>5. /\ runner' \in [Runners -> RunnerState] /\ runner'[w] = s
      /\ \A u \in Runners \ {w} : runner'[u] = runner[u]
  BY <1>1, <1>4 DEF Move, ClientTypeOK
<1>6. \A u \in Runners : runner[u].pc # "idle" =>
        /\ runner[u].run \in Runs /\ runner[u].token \in Nat
        /\ runner[u].token <= attempt[runner[u].run]
  BY DEF ClientTypeOK, ClaimsDistinct, Token
<1>7. ClientTypeOK'
  BY <1>1, <1>3, <1>4, <1>5 DEF ClientTypeOK, Holding
<1>8. ClaimsDistinct'
  <2>1. \A u \in Runners \ {w} : runner[u].pc # "idle" =>
          /\ runner[u].token <= attempt'[runner[u].run]
          /\ ~(runner[u].run = r /\ runner[u].token = attempt[r] + 1)
    BY <1>3, <1>6
  <2>2. attempt'[r] = attempt[r] + 1
    BY <1>3
  <2> QED
    BY <1>3, <1>4, <1>5, <2>1, <2>2 DEF ClaimsDistinct
<1>9. HeldIsRecorded'
  <2>1. ASSUME NEW u \in Runners PROVE Held(u)'
    <3>1. CASE u = w
      BY <1>4, <1>5, <3>1 DEF Held, Holding
    <3>2. CASE u # w
      <4>1. Held(u) /\ runner'[u] = runner[u]
        BY <1>5, <3>2 DEF HeldIsRecorded
      <4>2. runner[u].pc \in Holding /\ attempt'[runner[u].run] = runner[u].token
              => attempt[runner[u].run] = runner[u].token
        BY <1>3, <1>6 DEF Holding
      <4> QED
        BY <1>1, <1>3, <4>1, <4>2 DEF Held, OnRecord, Holding
    <3> QED
      BY <3>1, <3>2
  <2> QED
    BY <2>1 DEF HeldIsRecorded
<1>10. OutcomeIsFinal' /\ CompletedIsRecorded'
  BY <1>1, <1>2, OutcomesKeep
<1> QED
  BY <1>2, <1>7, <1>8, <1>9, <1>10

\* What a runner that has claimed holds in memory.
LEMMA RunnerIs ==
  ASSUME ClientInv, NEW w \in Runners, runner[w].pc # "idle"
  PROVE  /\ runner[w] \in RunnerState /\ runner[w].run \in Runs /\ runner[w].token \in Token
         /\ runner[w].pc \in Holding => runner[w].payload \in Payloads
         /\ Held(w)
  BY DEF ClientInv, ClientTypeOK, HeldIsRecorded

\* A runner that gets to its next stage with the answer it holds.
LEMMA StageKeeps ==
  ASSUME RemoteInv, NEW w \in Runners, runner[w].pc \in Holding,
         NEW c \in Holding, Move(w, [runner[w] EXCEPT !.pc = c]),
         [Next]_vars, UNCHANGED <<outcome, attempt, answers, sent>>,
         events \subseteq events', \A e \in events' : e = <<e[1], e[2], e[3]>>,
         \A r \in Runs : version'[r] # version[r] =>
           runner[w].run = r /\ runner[w].token = attempt[r],
         c \in {"checkpoint", "effects", "complete"} =>
           \A d \in runner[w].payload.events : <<runner[w].run, "event", d>> \in events',
         c \in {"effects", "complete"} /\ attempt[runner[w].run] = runner[w].token =>
           \A v \in runner[w].payload.checkpoint : version'[runner[w].run] = v + 1,
         c = "complete" =>
           \A d \in runner[w].payload.effects : <<runner[w].run, "effect", d>> \in events'
  PROVE  ClientInv'
<1> DEFINE l == runner[w]
<1>1. /\ l.pc # "idle" /\ l \in RunnerState /\ l.payload \in Payloads
      /\ <<<<l.run, l.token>>, l.payload>> \in answers
  BY RunnerIs DEF Holding, RemoteInv, Held
<1>2. runner'[w] = [l EXCEPT !.pc = c] /\ Move(w, runner'[w])
  BY DEF Move, RemoteInv, ClientInv, ClientTypeOK
<1>3. /\ runner'[w].pc = c /\ runner'[w].run = l.run /\ runner'[w].token = l.token
      /\ runner'[w].payload = l.payload /\ runner'[w] \in RunnerState
  BY <1>1, <1>2 DEF RunnerState, Holding
<1>4. Held(w)'
  BY <1>1, <1>3 DEF Held, OnRecord
<1>5. sent' \subseteq Request
  BY DEF RemoteInv, ClientInv, ClientTypeOK
<1> QED
  BY <1>1, <1>2, <1>3, <1>4, <1>5, MoveKeeps

\* Before it is settled the run is marked only, and afterwards it is over.
LEMMA SettleBeforeWorkKeeps ==
  ASSUME RemoteInv, NEW w \in Runners, SettleBeforeWork(w)
  PROVE  [Next]_vars /\ ClientInv'
<1> DEFINE l == runner[w]
<1>1. l.pc # "idle" /\ UNCHANGED answers
  BY DEF SettleBeforeWork, serverVars
<1>2. l.run \in Runs /\ l.token \in Token
  BY <1>1, RunnerIs DEF RemoteInv
<1>3. CASE Abandon(w)
  BY <1>1, <1>3, AbandonKeeps
<1>4. CASE FinishCancelled(l.run, l.token, now) /\ Drop(w) /\ UNCHANGED <<sent, outcome, events>>
  <2>1. WorkerCall(l.run, l.token, now) /\ version' = version
    BY <1>4 DEF WorkerCall, FinishCancelled
  <2>2. [Next]_vars /\ attempt' = attempt
    BY <1>2, <2>1, HeldToken DEF RemoteInv
  <2> QED
    BY <1>1, <1>4, <2>1, <2>2, DropKeeps
<1> QED
  BY <1>3, <1>4 DEF SettleBeforeWork

\* The request carries the lease as it was claimed.
LEMMA PostKeeps ==
  ASSUME RemoteInv, NEW w \in Runners, Post(w)
  PROVE  [Next]_vars /\ ClientInv'
<1> DEFINE l == runner[w]
           q == [run |-> l.run, token |-> l.token, task |-> taskState[taskOf[l.run]],
                 expires |-> l.expires, cancel |-> l.cancel]
<1>1. /\ l.pc = "claimed" /\ sent' = sent \cup {q} /\ Move(w, [l EXCEPT !.pc = "posted"])
      /\ UNCHANGED <<vars, outcome, events, answers>>
  BY DEF Post, serverVars
<1>2. l \in RunnerState /\ l.run \in Runs /\ l.token \in Token
  BY <1>1, RunnerIs DEF RemoteInv
<1>3. UNCHANGED <<attempt, version>> /\ [Next]_vars
  BY <1>1 DEF vars, leaseVars
<1>4. q \in Request
  <2>1. attempt[l.run] > 0
    <3>1. l.token <= attempt[l.run] /\ attempt[l.run] \in 0 .. MaxAttempt
      BY <1>1, <1>2 DEF RemoteInv, ClientInv, ClaimsDistinct, IInv, TypeOK
    <3> QED
      BY <1>2, <3>1, Bounds DEF Token
  <2>2. taskState[taskOf[l.run]] \in TaskStates
    BY <1>2, <2>1 DEF RemoteInv, RunsHaveTasks, IInv, TypeOK
  <2> QED
    BY <1>2, <2>2 DEF Request, RunnerState
<1>5. runner'[w] = [l EXCEPT !.pc = "posted"] /\ Move(w, runner'[w])
  BY <1>1 DEF Move, RemoteInv, ClientInv, ClientTypeOK
<1>6. /\ runner'[w].pc = "posted" /\ runner'[w].run = l.run /\ runner'[w].token = l.token
      /\ runner'[w] \in RunnerState
  BY <1>2, <1>5 DEF RunnerState
<1>7. Held(w)'
  BY <1>6 DEF Held, Holding
<1>8. sent' \subseteq Request /\ \A e \in events' : e = <<e[1], e[2], e[3]>>
  BY <1>1, <1>4 DEF RemoteInv, ClientInv, ClientTypeOK
<1> QED
  BY <1>1, <1>3, <1>5, <1>6, <1>7, <1>8, MoveKeeps DEF Holding

\* Renewing a lease takes no claim from anybody.
LEMMA BeatKeeps ==
  ASSUME RemoteInv, NEW w \in Runners, Beat(w)
  PROVE  [Next]_vars /\ ClientInv'
<1> DEFINE l == runner[w]
<1>1. /\ l.pc = "posted" /\ UNCHANGED <<sent, outcome, events, answers>>
      /\ l \in RunnerState /\ l.run \in Runs /\ l.token \in Token
  BY RunnerIs DEF Beat, serverVars, RemoteInv
<1>2. ASSUME NEW st \in RunnerState, Move(w, st), st.pc = "posted",
             st.run = l.run, st.token = l.token,
             [Next]_vars, UNCHANGED <<attempt, version>>
      PROVE  ClientInv'
  <2>1. runner'[w] = st /\ Move(w, runner'[w])
    BY <1>2 DEF Move, RemoteInv, ClientInv, ClientTypeOK
  <2>2. Held(w)'
    BY <1>2, <2>1 DEF Held, Holding
  <2>3. sent' \subseteq Request /\ \A e \in events' : e = <<e[1], e[2], e[3]>>
    BY <1>1 DEF RemoteInv, ClientInv, ClientTypeOK
  <2> QED
    BY <1>1, <1>2, <2>1, <2>2, <2>3, MoveKeeps DEF Holding
<1>3. CASE /\ RenewLease(l.run, l.token, now)
           /\ Move(w, [l EXCEPT !.expires = now + LeaseSeconds,
                                !.cancel = cancelRequested[l.run],
                                !.lost = cancelRequested[l.run]])
  <2> DEFINE st == [l EXCEPT !.expires = now + LeaseSeconds,
                             !.cancel = cancelRequested[l.run],
                             !.lost = cancelRequested[l.run]]
  <2>1. now + LeaseSeconds \in Nat /\ cancelRequested[l.run] \in BOOLEAN
    BY <1>1, Bounds DEF RemoteInv, IInv, TypeOK
  <2>2. st \in RunnerState /\ st.pc = "posted" /\ st.run = l.run /\ st.token = l.token
    BY <1>1, <2>1 DEF RunnerState
  <2>3. WorkerCall(l.run, l.token, now) /\ version' = version
    BY <1>3 DEF WorkerCall, RenewLease
  <2>4. [Next]_vars /\ attempt' = attempt
    BY <1>1, <2>3, HeldToken DEF RemoteInv
  <2> QED
    BY <1>2, <1>3, <2>2, <2>3, <2>4
<1>4. CASE Move(w, [l EXCEPT !.lost = TRUE]) /\ UNCHANGED vars
  <2> DEFINE st == [l EXCEPT !.lost = TRUE]
  <2>1. st \in RunnerState /\ st.pc = "posted" /\ st.run = l.run /\ st.token = l.token
    BY <1>1 DEF RunnerState
  <2>2. [Next]_vars /\ UNCHANGED <<attempt, version>>
    BY <1>4 DEF vars, leaseVars
  <2> QED
    BY <1>2, <1>4, <2>1, <2>2
<1> QED
  BY <1>3, <1>4 DEF Beat

\* An answer is to the fence the runner holds.
LEMMA AnsweredKeeps ==
  ASSUME RemoteInv, NEW w \in Runners, NEW p \in Payloads, Answered(w, p)
  PROVE  [Next]_vars /\ ClientInv'
<1> DEFINE l == runner[w]
<1>1. /\ l.pc = "posted" /\ <<<<l.run, l.token>>, p>> \in answers
      /\ UNCHANGED <<vars, sent, outcome, events, answers>>
      /\ l \in RunnerState /\ l.run \in Runs /\ l.token \in Token
  BY RunnerIs DEF Answered, serverVars, RemoteInv
<1>2. [Next]_vars /\ UNCHANGED <<attempt, version>>
  BY <1>1 DEF vars, leaseVars
<1>3. CASE Move(w, Idle)
  BY <1>1, <1>2, <1>3, DropKeeps DEF Drop
<1>4. CASE Move(w, [l EXCEPT !.pc = "events", !.payload = p])
  <2>1. runner'[w] = [l EXCEPT !.pc = "events", !.payload = p] /\ Move(w, runner'[w])
    BY <1>4 DEF Move, RemoteInv, ClientInv, ClientTypeOK
  <2>2. /\ runner'[w].pc = "events" /\ runner'[w].run = l.run /\ runner'[w].token = l.token
        /\ runner'[w].payload = p /\ runner'[w] \in RunnerState
    BY <1>1, <2>1 DEF RunnerState
  <2>3. Held(w)'
    BY <1>1, <2>2 DEF Held
  <2>4. sent' \subseteq Request /\ \A e \in events' : e = <<e[1], e[2], e[3]>>
    BY <1>1 DEF RemoteInv, ClientInv, ClientTypeOK
  <2> QED
    BY <1>1, <1>2, <2>1, <2>2, <2>3, <2>4, MoveKeeps
<1> QED
  BY <1>3, <1>4 DEF Answered

LEMMA UnansweredKeeps ==
  ASSUME RemoteInv, NEW w \in Runners, Unanswered(w)
  PROVE  [Next]_vars /\ ClientInv'
<1>1. runner[w].pc # "idle" /\ UNCHANGED answers
  BY DEF Unanswered, serverVars
<1>2. OtherErrors \in SUBSET Errors
  BY DEF Errors
<1> QED
  BY <1>1, <1>2, AbandonKeeps, FailKeeps DEF Unanswered

\* An event that was kept before, for whatever attempt, says the same.
LEMMA EventsAppended ==
  ASSUME RemoteInv, NEW r, NEW identity, NEW new, ~Contradicts(r, identity, new),
         events' = IF {e \in events : e[1] = r /\ e[2] = identity} # {} THEN events
                   ELSE events \cup {<<r, identity, d>> : d \in new}
  PROVE  /\ events \subseteq events' /\ \A e \in events' : e = <<e[1], e[2], e[3]>>
         /\ \A d \in new : <<r, identity, d>> \in events'
<1>1. \A e \in events : e = <<e[1], e[2], e[3]>>
  BY DEF RemoteInv, ClientInv, ClientTypeOK
<1>2. CASE {e \in events : e[1] = r /\ e[2] = identity} # {}
  <2>1. PICK e \in events : e[1] = r /\ e[2] = identity
    BY <1>2
  <2>2. \A d \in new : d = e[3]
    BY <2>1 DEF Contradicts
  <2>3. e = <<r, identity, e[3]>>
    BY <1>1, <2>1
  <2>4. events' = events
    BY <1>2
  <2> QED
    BY <1>1, <2>2, <2>3, <2>4
<1>3. CASE {e \in events : e[1] = r /\ e[2] = identity} = {}
  <2>1. events' = events \cup {<<r, identity, d>> : d \in new}
    BY <1>3
  <2> QED
    BY <1>1, <2>1
<1> QED
  BY <1>2, <1>3

\* The worker's events and effects are kept, or the run fails.
LEMMA AppendKeeps ==
  ASSUME RemoteInv, NEW w \in Runners,
         RecordEvents(w) \/ RecordEffects(w)
  PROVE  [Next]_vars /\ ClientInv'
<1> DEFINE l == runner[w]
<1>1. /\ l.pc \in {"events", "effects"} /\ l.pc # "idle" /\ l.pc \in Holding
      /\ UNCHANGED answers
  BY DEF RecordEvents, RecordEffects, AppendAgentEvent, serverVars, Holding
<1>2. Held(w) /\ l.run \in Runs
  BY <1>1, RunnerIs DEF RemoteInv
<1>3. UncertainErrors \in SUBSET Errors
  BY DEF Errors
<1>4. CASE Fail(w, UncertainErrors)
  BY <1>1, <1>3, <1>4, FailKeeps
<1>5. ASSUME NEW identity, NEW new, ~Contradicts(l.run, identity, new),
             events' = IF {e \in events : e[1] = l.run /\ e[2] = identity} # {} THEN events
                       ELSE events \cup {<<l.run, identity, d>> : d \in new}
      PROVE  /\ events \subseteq events' /\ \A e \in events' : e = <<e[1], e[2], e[3]>>
             /\ \A d \in new : <<l.run, identity, d>> \in events'
  BY <1>5, EventsAppended
<1>6. CASE RecordEvents(w) /\ ~Fail(w, UncertainErrors)
  <2>1. /\ l.pc = "events" /\ Move(w, [l EXCEPT !.pc = "checkpoint"])
        /\ UNCHANGED <<vars, sent, outcome>>
        /\ ~Contradicts(l.run, "event", l.payload.events)
        /\ events' = IF {e \in events : e[1] = l.run /\ e[2] = "event"} # {} THEN events
                     ELSE events \cup {<<l.run, "event", d>> : d \in l.payload.events}
    BY <1>6 DEF RecordEvents, AppendAgentEvent
  <2>2. /\ events \subseteq events' /\ \A e \in events' : e = <<e[1], e[2], e[3]>>
        /\ \A d \in l.payload.events : <<l.run, "event", d>> \in events'
    BY <1>5, <2>1
  <2>3. [Next]_vars /\ UNCHANGED <<attempt, version>> /\ "checkpoint" \in Holding
    BY <2>1 DEF vars, leaseVars, Holding
  <2> QED
    BY <1>1, <2>1, <2>2, <2>3, StageKeeps
<1>7. CASE RecordEffects(w) /\ ~Fail(w, UncertainErrors)
  <2>1. /\ l.pc = "effects" /\ Move(w, [l EXCEPT !.pc = "complete"])
        /\ UNCHANGED <<vars, sent, outcome>>
        /\ ~Contradicts(l.run, "effect", l.payload.effects)
        /\ events' = IF {e \in events : e[1] = l.run /\ e[2] = "effect"} # {} THEN events
                     ELSE events \cup {<<l.run, "effect", d>> : d \in l.payload.effects}
    BY <1>7 DEF RecordEffects, AppendAgentEvent
  <2>2. /\ events \subseteq events' /\ \A e \in events' : e = <<e[1], e[2], e[3]>>
        /\ \A d \in l.payload.effects : <<l.run, "effect", d>> \in events'
    BY <1>5, <2>1
  <2>3. [Next]_vars /\ UNCHANGED <<attempt, version>> /\ "complete" \in Holding
    BY <2>1 DEF vars, leaseVars, Holding
  <2>4. /\ \A d \in l.payload.events : <<l.run, "event", d>> \in events'
        /\ attempt[l.run] = l.token => \A v \in l.payload.checkpoint : version'[l.run] = v + 1
    BY <1>2, <2>1, <2>2, <2>3 DEF Held, OnRecord
  <2> QED
    BY <1>1, <2>1, <2>2, <2>3, <2>4, StageKeeps
<1> QED
  BY <1>4, <1>6, <1>7

\* The checkpoint is the one the answer expected, or the run fails.
LEMMA CheckpointKeeps ==
  ASSUME RemoteInv, NEW w \in Runners, RecordCheckpoint(w)
  PROVE  [Next]_vars /\ ClientInv'
<1> DEFINE l == runner[w]
<1>1. /\ l.pc = "checkpoint" /\ l.pc # "idle" /\ l.pc \in Holding /\ "effects" \in Holding
      /\ UNCHANGED answers
  BY DEF RecordCheckpoint, serverVars, Holding
<1>2. Held(w) /\ l.run \in Runs /\ l.token \in Token /\ l.payload \in Payloads
  BY <1>1, RunnerIs DEF RemoteInv
<1>3. UncertainErrors \in SUBSET Errors
  BY DEF Errors
<1>4. \A d \in l.payload.events : <<l.run, "event", d>> \in events
  BY <1>1, <1>2 DEF Held, OnRecord
<1>5. \A e \in events : e = <<e[1], e[2], e[3]>>
  BY DEF RemoteInv, ClientInv, ClientTypeOK
<1>6. CASE /\ l.payload.checkpoint = {} /\ Move(w, [l EXCEPT !.pc = "effects"])
           /\ UNCHANGED <<vars, sent, outcome, events>>
  <2>1. [Next]_vars /\ UNCHANGED <<attempt, version>>
    BY <1>6 DEF vars, leaseVars
  <2>2. \A v \in l.payload.checkpoint : version'[l.run] = v + 1
    BY <1>6
  <2>3. /\ events \subseteq events' /\ \A e \in events' : e = <<e[1], e[2], e[3]>>
        /\ \A d \in l.payload.events : <<l.run, "event", d>> \in events'
    BY <1>4, <1>5, <1>6
  <2> QED
    BY <1>1, <1>6, <2>1, <2>2, <2>3, StageKeeps
<1>7. ASSUME NEW v \in l.payload.checkpoint, SaveCheckpoint(l.run, l.token, v, now),
             Move(w, [l EXCEPT !.pc = "effects"]), UNCHANGED <<sent, outcome, events>>
      PROVE  [Next]_vars /\ ClientInv'
  <2>1. /\ version' = [version EXCEPT ![l.run] = v + 1] /\ version[l.run] = v
        /\ version \in [Runs -> 0 .. MaxVersion] /\ lease[l.run] = l.token
        /\ state[l.run] = "running"
    BY <1>7 DEF SaveCheckpoint, Advance, HoldsLease, RemoteInv, IInv, TypeOK
  <2>2. v \in 0 .. MaxVersion /\ version'[l.run] = v + 1
        /\ \A r \in Runs : r # l.run => version'[r] = version[r]
    BY <1>2, <2>1
  <2>3. [Next]_vars /\ attempt' = attempt
    <3>1. WorkerCall(l.run, l.token, now)
      BY <1>7, <2>2 DEF WorkerCall
    <3> QED
      BY <1>2, <3>1, HeldToken DEF RemoteInv
  <2>4. l.token = attempt[l.run]
    BY <1>2, <2>1 DEF RemoteInv, IInv, LeaseIffRunning
  <2>5. \A u \in l.payload.checkpoint : u = v
    BY <1>2, RemoteAssumption
  <2>6. \A u \in l.payload.checkpoint : version'[l.run] = u + 1
    BY <2>2, <2>5
  <2>7. \A r \in Runs : version'[r] # version[r] => l.run = r /\ l.token = attempt[r]
    BY <2>2, <2>4
  <2>8. /\ events \subseteq events' /\ \A e \in events' : e = <<e[1], e[2], e[3]>>
        /\ \A d \in l.payload.events : <<l.run, "event", d>> \in events'
    BY <1>4, <1>5, <1>7
  <2> QED
    BY <1>1, <1>7, <2>3, <2>6, <2>7, <2>8, StageKeeps
<1>8. CASE Fail(w, UncertainErrors)
  BY <1>1, <1>3, <1>8, FailKeeps
<1> QED
  BY <1>6, <1>7, <1>8 DEF RecordCheckpoint

\* A run is completed with the answer to the claim it is completed under.
LEMMA CompleteKeeps ==
  ASSUME RemoteInv, NEW w \in Runners, Complete(w)
  PROVE  [Next]_vars /\ ClientInv'
<1> DEFINE l == runner[w]
<1>1. l.pc = "complete" /\ l.pc # "idle" /\ l.pc \in Holding /\ UNCHANGED answers
  BY DEF Complete, serverVars, Holding
<1>2. Held(w) /\ l.run \in Runs /\ l.token \in Token /\ l.payload \in Payloads
  BY <1>1, RunnerIs DEF RemoteInv
<1>3. CASE Abandon(w)
  BY <1>1, <1>3, AbandonKeeps
<1>4. CASE /\ CompleteRun(l.run, l.token, now)
           /\ outcome' = [outcome EXCEPT ![l.run] = l.payload]
           /\ Drop(w) /\ UNCHANGED <<sent, events>>
  <2>1. /\ WorkerCall(l.run, l.token, now) /\ version' = version
        /\ state[l.run] = "running" /\ lease[l.run] = l.token
        /\ state' = [state EXCEPT ![l.run] = "completed"]
    BY <1>4 DEF WorkerCall, CompleteRun, Settle, HoldsLease
  <2>2. [Next]_vars /\ attempt' = attempt
    BY <1>2, <2>1, HeldToken DEF RemoteInv
  <2>3. l.token = attempt[l.run]
    BY <1>2, <2>1 DEF RemoteInv, IInv, LeaseIffRunning
  <2>4. Idle \in RunnerState /\ Idle.pc = "idle"
    BY StoreAssumption DEF Idle, RunnerState
  <2>5. /\ runner' \in [Runners -> RunnerState] /\ runner'[w] = Idle
        /\ \A u \in Runners \ {w} : runner'[u] = runner[u]
    BY <1>4, <2>4 DEF Drop, Move, RemoteInv, ClientInv, ClientTypeOK
  <2>6. /\ outcome' \in [Runs -> Payloads \cup {NoCall}] /\ outcome'[l.run] = l.payload
        /\ \A r \in Runs : r # l.run => outcome'[r] = outcome[r]
    BY <1>2, <1>4 DEF RemoteInv, ClientInv, ClientTypeOK
  <2>7. ClientTypeOK'
    BY <1>4, <2>4, <2>5, <2>6 DEF ClientTypeOK, RemoteInv, ClientInv, Holding
  <2>8. ClaimsDistinct' /\ \A u \in Runners \ {w} : Held(u)'
    BY <1>1, <1>4, <2>1, <2>2, <2>4, <2>5, OthersKeep
  <2>9. Held(w)'
    BY <2>4, <2>5 DEF Held, Holding
  <2>10. state \in [Runs -> RunStates]
    BY DEF RemoteInv, IInv, TypeOK
  <2>11. OutcomeIsFinal'
    BY <2>1, <2>6, <2>10 DEF OutcomeIsFinal, RemoteInv, ClientInv
  <2>12. CompletedIsRecorded'
    <3> SUFFICES ASSUME NEW r \in Runs, outcome'[r] # NoCall
                 PROVE  /\ <<<<r, attempt'[r]>>, outcome'[r]>> \in answers'
                        /\ \A d \in outcome'[r].events : <<r, "event", d>> \in events'
                        /\ \A d \in outcome'[r].effects : <<r, "effect", d>> \in events'
                        /\ \A v \in outcome'[r].checkpoint : version'[r] = v + 1
      BY DEF CompletedIsRecorded
    <3>1. CASE r = l.run
      BY <1>1, <1>2, <1>4, <2>1, <2>2, <2>3, <2>6, <3>1 DEF Held, Holding, OnRecord
    <3>2. CASE r # l.run
      BY <1>1, <1>4, <2>1, <2>2, <2>6, <3>2 DEF CompletedIsRecorded, RemoteInv, ClientInv
    <3> QED
      BY <3>1, <3>2
  <2> QED
    BY <2>2, <2>7, <2>8, <2>9, <2>11, <2>12 DEF ClientInv, HeldIsRecorded
<1> QED
  BY <1>3, <1>4 DEF Complete

-----------------------------------------------------------------------------
(* The whole system *)

\* Whatever a runner does, it is a step of the store and keeps the invariant.
LEMMA RunnerKeeps ==
  ASSUME RemoteInv, NEW w \in Runners, Runner(w)
  PROVE  [Next]_vars /\ ClientInv' /\ UNCHANGED serverVars
<1>1. CASE RunnerStops(w)
  BY <1>1, AbandonKeeps DEF RunnerStops, serverVars
<1>2. CASE \E r \in Runs : RunnerClaim(w, r)
  BY <1>2, ClaimKeeps DEF RunnerClaim
<1>3. CASE SettleBeforeWork(w) \/ Post(w) \/ Beat(w)
  BY <1>3, SettleBeforeWorkKeeps, PostKeeps, BeatKeeps DEF SettleBeforeWork, Post, Beat
<1>4. CASE (\E p \in Payloads : Answered(w, p)) \/ Unanswered(w)
  BY <1>4, AnsweredKeeps, UnansweredKeeps DEF Answered, Unanswered
<1>5. CASE RecordEvents(w) \/ RecordEffects(w)
  BY <1>5, AppendKeeps DEF RecordEvents, RecordEffects, AppendAgentEvent
<1>6. CASE RecordCheckpoint(w) \/ Complete(w)
  BY <1>6, CheckpointKeeps, CompleteKeeps DEF RecordCheckpoint, Complete
<1> QED
  BY <1>1, <1>2, <1>3, <1>4, <1>5, <1>6 DEF Runner

\* The host's own calls leave the runners' claims alone.
LEMMA HostKeeps ==
  ASSUME RemoteInv, Host
  PROVE  [Next]_vars /\ ClientInv' /\ UNCHANGED serverVars
<1>1. [Next]_vars
  BY DEF Host, Next
<1>2. UNCHANGED <<attempt, version>>
  BY DEF Host, Tick, CreateTask, CreateRun, RequestCancel, CancelActive, DropLease, leaseVars
<1>3. UNCHANGED <<clientVars, serverVars, answers>>
  BY DEF Host, serverVars
<1> QED
  BY <1>1, <1>2, <1>3, QuietKeeps

LEMMA RemoteStep ==
  ASSUME RemoteInv, [RemoteNext]_remoteVars
  PROVE  [Next]_vars /\ RemoteInv'
<1>1. ASSUME [Next]_vars, ServerInv', ClientInv' PROVE RemoteInv'
  BY <1>1, NextIInv, TasksKept DEF RemoteInv
<1>2. CASE Host
  BY <1>1, <1>2, HostKeeps, ServerUnchanged DEF RemoteInv
<1>3. ASSUME NEW w \in Runners, Runner(w) PROVE [Next]_vars /\ RemoteInv'
  BY <1>1, <1>3, RunnerKeeps, ServerUnchanged DEF RemoteInv
<1>4. ASSUME NEW h \in Handlers, Server(h) PROVE [Next]_vars /\ RemoteInv'
  <2>1. sent \subseteq Request
    BY DEF RemoteInv, ClientInv, ClientTypeOK
  <2>2. ServerInv'
    BY <1>4, <2>1, ServerKeeps DEF RemoteInv
  <2>3. answers \subseteq answers' /\ UNCHANGED <<vars, clientVars>>
    BY <1>4, AnswersGrow
  <2>4. [Next]_vars /\ UNCHANGED <<attempt, version>>
    BY <2>3 DEF vars, leaseVars
  <2> QED
    BY <1>1, <2>2, <2>3, <2>4, QuietKeeps
<1>5. CASE UNCHANGED remoteVars
  <2>1. UNCHANGED <<vars, serverVars, clientVars, answers>>
    BY <1>5 DEF remoteVars, serverVars
  <2>2. [Next]_vars /\ UNCHANGED <<attempt, version>>
    BY <2>1 DEF vars, leaseVars
  <2> QED
    BY <1>1, <2>1, <2>2, QuietKeeps, ServerUnchanged DEF RemoteInv
<1> QED
  BY <1>2, <1>3, <1>4, <1>5 DEF RemoteNext

LEMMA RemoteInitInv == RemoteInit => RemoteInv
<1> SUFFICES ASSUME RemoteInit PROVE RemoteInv
  OBVIOUS
<1> USE DEF RemoteInit
<1>1. IInv
  BY InitIInv
<1>2. RunsHaveTasks
  BY DEF RunsHaveTasks, Init
<1>3. \A h \in Handlers : handler[h] = Free
  OBVIOUS
<1>4. ServerTypeOK
  <2>1. handler \in [Handlers -> HandlerState] /\ \A h \in Handlers : handler[h].pc = "free"
    BY HandlerStates
  <2>2. cache \in Seq(CacheEntry) /\ tombs \in Seq(TombEntry)
    OBVIOUS
  <2>3. answers \subseteq Ids \X Payloads /\ executed \in [Ids -> Nat]
    BY DEF Ids
  <2> QED
    BY <2>1, <2>2, <2>3 DEF ServerTypeOK
<1>5. \A h \in Handlers : handler[h].pc = "free"
  BY <1>3, HandlerStates
<1>6. OwnersInFlight /\ ExecutionsCounted
  BY <1>5 DEF OwnersInFlight, ExecutionsCounted, Owning
<1>7. ExecutedRemembered
  BY <1>5 DEF ExecutedRemembered, Ids
<1>8. ResponsesAgree
  BY <1>5 DEF ResponsesAgree, Responded
<1>9. Idle \in RunnerState /\ Idle.pc = "idle" /\ \A w \in Runners : runner[w] = Idle
  BY StoreAssumption DEF Idle, RunnerState
<1>10. ClientTypeOK /\ ClaimsDistinct /\ HeldIsRecorded
  BY <1>9 DEF ClientTypeOK, ClaimsDistinct, HeldIsRecorded, Held, Holding
<1>11. OutcomeIsFinal /\ CompletedIsRecorded
  BY DEF OutcomeIsFinal, CompletedIsRecorded
<1> QED
  BY <1>1, <1>2, <1>4, <1>6, <1>7, <1>8, <1>10, <1>11 DEF RemoteInv, ServerInv, ClientInv

\* The invariant gives the property: an answer is a response.
LEMMA HistoryFollows == RemoteInv => OneHistoryPerFence
<1> SUFFICES ASSUME RemoteInv PROVE OneHistoryPerFence
  OBVIOUS
<1>1. OneExecutionPerFence
  <2> SUFFICES ASSUME NEW id \in Runs \X Token, id \notin forgotten
               PROVE  /\ executed[id] <= 1
                      /\ \A a, b \in answers : a[1] = id /\ b[1] = id => a = b
    BY DEF OneExecutionPerFence
  <2>1. executed[id] <= 1
    BY DEF RemoteInv, ServerInv, ExecutedRemembered, Ids
  <2>2. ASSUME NEW a \in answers, NEW b \in answers, a[1] = id, b[1] = id PROVE a = b
    <3>1. /\ a = <<a[1], a[2]>> /\ b = <<b[1], b[2]>>
          /\ a[2] \in Payloads /\ b[2] \in Payloads
      BY DEF RemoteInv, ServerInv, ServerTypeOK
    <3>2. Responded(id, a[2]) /\ Responded(id, b[2])
      BY <2>2, <3>1 DEF Responded
    <3>3. b[2] = a[2]
      BY <3>1, <3>2 DEF RemoteInv, ServerInv, ResponsesAgree, Ids
    <3> QED
      BY <2>2, <3>1, <3>3
  <2> QED
    BY <2>1, <2>2
<1> QED
  BY <1>1 DEF OneHistoryPerFence, RemoteInv, ClientInv

LEMMA RemoteInvariance == RemoteSpec => []RemoteInv
  BY RemoteInitInv, RemoteStep, PTL DEF RemoteSpec

\* One history (OneHistoryPerFence): whatever is delivered again, answered late
\* or dropped from the server's memory, and whichever side stops, a fence is
\* executed once and answered with one response, and a run is completed only
\* with what is on record of its current fence.
THEOREM OneHistory == RemoteSpec => []OneHistoryPerFence
  BY RemoteInvariance, HistoryFollows, PTL

\* Remote execution uses the control store only through its methods, with the
\* tokens and versions the store knows: everything proved of the store's own
\* specification holds of the composed system.
THEOREM RemoteUsesStore == RemoteSpec => Spec
<1>1. RemoteInit => Init
  BY DEF RemoteInit
<1>2. RemoteInv /\ [RemoteNext]_remoteVars => [Next]_vars
  BY RemoteStep
<1> QED
  BY <1>1, <1>2, RemoteInvariance, PTL DEF RemoteSpec, Spec

\* Leases stay the authority (ControlCoherent, ImplementsFencedLog): no remote
\* worker, however late, leaves the control rows incoherent or writes as an
\* earlier owner after a later one.
THEOREM RemoteKeepsControl == RemoteSpec => []ControlCoherent /\ ImplementsFencedLog
  BY RemoteUsesStore, Coherence, Refinement, PTL

-----------------------------------------------------------------------------
(* Handoffs of a team *)

IsChain == strategy \in {"sequential", "round_robin", "swarm"}

RowFields == {"payload", "state", "attempt", "expired", "cancel", "result",
              "events", "calls", "cancelledAt"}
BranchFields == {"at", "payload", "token", "value", "signal", "seen"}
BeforeTask == {"preflight", "reserve"}
WithRow == {"run", "request", "inspect", "claim", "start", "working", "settle",
            "completed", "fail", "failed", "stop", "finish", "cancelled"}

Registered(o) ==
  /\ o.id \in DOMAIN row /\ row[o.id].state = "completed"
  /\ row[o.id].payload = o.payload
  /\ row[o.id].result = [request |-> o.payload, value |-> o.value]
  /\ "completed" \in row[o.id].events

\* What a step of a chain is asked is the answer of the one before it.
FollowsParent(id, payload) ==
  IsChain /\ id.parent # Nothing =>
    /\ id.parent \in DOMAIN row /\ row[id.parent].state = "completed"
    /\ payload = row[id.parent].result.value

RowFits(id, r) ==
  /\ DOMAIN r = RowFields
  /\ r.attempt \in Nat /\ \A a \in r.calls : a \in Nat /\ a <= r.attempt
  /\ strategy # "external" =>
       /\ r.calls # {} => id \in admitted
       /\ r.cancel => \A a \in r.calls : a <= r.cancelledAt
  /\ r.state = "completed" =>
       /\ r.result = [request |-> r.payload, value |-> r.result.value]
       /\ strategy = "external" => r.payload # Nothing
  /\ FollowsParent(id, r.payload)

\* What a dispatch relies on at a stage.
StageFits(id, b, at) ==
  /\ at \in BeforeTask \cup {"task"} \cup WithRow
  /\ IF strategy = "external" THEN at \notin BeforeTask /\ b.payload # Nothing
     ELSE at # "request" /\ (at \notin BeforeTask => id \in admitted)
  /\ at \in WithRow =>
       /\ id \in DOMAIN row
       /\ \/ strategy = "external" /\ at \in {"run", "request"}
          \/ row[id].payload = b.payload
  /\ at \in {"request", "inspect"} /\ b.seen.state = "completed" =>
       row[id].state = "completed" /\ row[id].result = b.seen.result
  /\ at = "start" =>
       /\ b.token \in Nat /\ b.token <= row[id].attempt
       /\ strategy # "external" /\ row[id].cancel => b.token <= row[id].cancelledAt
  /\ at = "completed" =>
       /\ row[id].state = "completed"
       /\ row[id].result = [request |-> b.payload, value |-> b.value]

BranchFits(c, id, b) ==
  /\ DOMAIN b = BranchFields
  /\ id.sequence \in Nat /\ (IsChain => id.sequence = Len(out[c]))
  /\ StageFits(id, b, b.at) /\ FollowsParent(id, b.payload)

CallersFit ==
  /\ strategy \in Strategies
  /\ DOMAIN branch = Callers /\ DOMAIN out = Callers /\ DOMAIN caller = Callers
  /\ \A c \in Callers :
       /\ DOMAIN caller[c] = {"status", "input", "stopped"}
       /\ caller[c].status = "active" => caller[c].input \in Inputs
       /\ caller[c].status # "active" => DOMAIN branch[c] = {}
       /\ IsFiniteSet(DOMAIN branch[c])
       /\ IsChain => \A i, j \in DOMAIN branch[c] : i = j
       /\ \E S : out[c] \in Seq(S)

RowsFit == \A id \in DOMAIN row : RowFits(id, row[id])
BranchesFit ==
  \A c \in Callers : \A id \in DOMAIN branch[c] : BranchFits(c, id, branch[c][id])
OutcomesFit ==
  \A c \in Callers : \A k \in DOMAIN out[c] :
    IsChain \/ out[c][k] # Nothing => Registered(out[c][k])
BudgetFits == IsFiniteSet(admitted) /\ spent = Cardinality(admitted) /\ spent <= Limit

TeamInv == CallersFit /\ RowsFit /\ BranchesFit /\ OutcomesFit /\ BudgetFits

LEMMA TeamInvInit == ASSUME TeamInit PROVE TeamInv
<1> USE DEF TeamInit
<1>1. DOMAIN row = {} /\ \A c \in Callers : DOMAIN out[c] = {} /\ DOMAIN branch[c] = {}
  OBVIOUS
<1>2. CallersFit
  <2>1. \A c \in Callers : out[c] \in Seq({})
    OBVIOUS
  <2> QED
    BY <1>1, <2>1, FS_EmptySet DEF CallersFit
<1>3. RowsFit /\ BranchesFit /\ OutcomesFit
  BY <1>1 DEF RowsFit, BranchesFit, OutcomesFit
<1>4. BudgetFits
  BY FS_EmptySet, BudgetIsNumber DEF BudgetFits
<1> QED
  BY <1>2, <1>3, <1>4 DEF TeamInv

-----------------------------------------------------------------------------
(* How a row may change *)

Later(r, s) ==
  /\ r.payload = s.payload \/ (strategy = "external" /\ r.payload = Nothing)
  /\ r.state = "completed" => s.state = "completed" /\ s.result = r.result
  /\ s.attempt \in Nat /\ r.attempt <= s.attempt
  /\ r.events \subseteq s.events
  /\ r.cancel => s.cancel /\ s.cancelledAt = r.cancelledAt
  /\ s.cancel /\ ~r.cancel => s.cancelledAt = s.attempt

RowsGrow ==
  /\ DOMAIN row \subseteq DOMAIN row'
  /\ \A id \in DOMAIN row : Later(row[id], row'[id])
  /\ strategy' = strategy /\ admitted \subseteq admitted'

LEMMA FollowsStill ==
  ASSUME TeamInv, RowsGrow, NEW id, NEW payload, FollowsParent(id, payload)
  PROVE  FollowsParent(id, payload)'
BY DEF FollowsParent, RowsGrow, Later, IsChain

LEMMA RegisteredStill ==
  ASSUME TeamInv, RowsGrow, NEW o, Registered(o)
  PROVE  Registered(o)'
<1>1. strategy = "external" => row[o.id].payload # Nothing
  BY DEF TeamInv, RowsFit, RowFits, Registered
<1> QED
  BY <1>1 DEF Registered, RowsGrow, Later

LEMMA StageStill ==
  ASSUME TeamInv, RowsGrow, NEW id, NEW b, NEW at, StageFits(id, b, at)
  PROVE  StageFits(id, b, at)'
<1>1. at \in WithRow => id \in DOMAIN row' /\ RowFits(id, row[id]) /\ Later(row[id], row'[id])
  BY DEF StageFits, TeamInv, RowsFit, RowsGrow
<1>2. at \in WithRow =>
        \/ strategy = "external" /\ at \in {"run", "request"}
        \/ row'[id].payload = b.payload
  BY <1>1 DEF StageFits, RowsGrow, Later
<1>3. at \in {"request", "inspect"} /\ b.seen.state = "completed" =>
        row'[id].state = "completed" /\ row'[id].result = b.seen.result
  BY <1>1 DEF StageFits, Later, WithRow
<1>4. at = "start" =>
        /\ b.token \in Nat /\ b.token <= row'[id].attempt
        /\ strategy # "external" /\ row'[id].cancel => b.token <= row'[id].cancelledAt
  BY <1>1 DEF StageFits, Later, WithRow, RowFits
<1>5. at = "completed" =>
        /\ row'[id].state = "completed"
        /\ row'[id].result = [request |-> b.payload, value |-> b.value]
  BY <1>1 DEF StageFits, Later, WithRow
<1> QED
  BY <1>1, <1>2, <1>3, <1>4, <1>5 DEF StageFits, RowsGrow

LEMMA BranchStill ==
  ASSUME TeamInv, RowsGrow, NEW c \in Callers, NEW id, NEW b, BranchFits(c, id, b),
         IsChain => Len(out'[c]) = Len(out[c])
  PROVE  BranchFits(c, id, b)'
<1>1. StageFits(id, b, b.at)' /\ FollowsParent(id, b.payload)'
  BY FollowsStill, StageStill DEF BranchFits
<1>2. IsChain' => id.sequence = Len(out'[c])
  BY DEF BranchFits, IsChain, RowsGrow
<1> QED
  BY <1>1, <1>2 DEF BranchFits

LEMMA RowStill ==
  ASSUME TeamInv, RowsGrow, NEW id, NEW r, RowFits(id, r)
  PROVE  RowFits(id, r)'
BY FollowsStill DEF RowFits, RowsGrow

LEMMA LaterItself ==
  ASSUME TeamInv, NEW id \in DOMAIN row PROVE Later(row[id], row[id])
<1>1. row[id].attempt \in Nat
  BY DEF TeamInv, RowsFit, RowFits
<1> QED
  BY <1>1 DEF Later

LEMMA RowsStay ==
  ASSUME TeamInv, UNCHANGED <<row, strategy>>, admitted \subseteq admitted'
  PROVE  RowsGrow /\ RowsFit'
<1>1. \A id \in DOMAIN row : Later(row[id], row[id])
  BY LaterItself
<1>2. RowsGrow
  BY <1>1 DEF RowsGrow
<1> QED
  BY <1>2, RowStill DEF TeamInv, RowsFit

LEMMA RowChanges ==
  ASSUME TeamInv, NEW id \in DOMAIN row, NEW s, row' = [row EXCEPT ![id] = s],
         UNCHANGED <<strategy, admitted>>, Later(row[id], s), RowFits(id, s)
  PROVE  RowsGrow /\ RowsFit' /\ id \in DOMAIN row' /\ row'[id] = s
<1>1. \A i \in DOMAIN row : Later(row[i], row[i]) /\ RowFits(i, row[i])
  BY LaterItself DEF TeamInv, RowsFit
<1>2. /\ DOMAIN row' = DOMAIN row /\ row'[id] = s
      /\ \A i \in DOMAIN row : i # id => row'[i] = row[i]
  OBVIOUS
<1>3. RowsGrow
  BY <1>1, <1>2 DEF RowsGrow
<1>4. \A i \in DOMAIN row : RowFits(i, row'[i])
  BY <1>1, <1>2
<1>5. RowsFit'
  <2> SUFFICES ASSUME NEW i \in DOMAIN row' PROVE RowFits(i, row[i])'
    BY DEF RowsFit
  <2>2. PICK r : r = row'[i]
    OBVIOUS
  <2>3. RowFits(i, r)
    BY <1>2, <1>4, <2>2
  <2>4. RowFits(i, r)'
    BY <1>3, <2>3, RowStill
  <2> QED
    BY <2>2, <2>4 DEF RowFits, FollowsParent
<1> QED
  BY <1>2, <1>3, <1>5

LEMMA RowAppears ==
  ASSUME TeamInv, NEW id, id \notin DOMAIN row, NEW s, row' = With(row, id, s),
         UNCHANGED <<strategy, admitted>>, RowFits(id, s)
  PROVE  RowsGrow /\ RowsFit' /\ id \in DOMAIN row' /\ row'[id] = s
<1>1. \A i \in DOMAIN row : Later(row[i], row[i]) /\ RowFits(i, row[i])
  BY LaterItself DEF TeamInv, RowsFit
<1>2. /\ DOMAIN row' = DOMAIN row \cup {id} /\ row'[id] = s
      /\ \A i \in DOMAIN row : row'[i] = row[i]
  BY DEF With
<1>3. RowsGrow
  BY <1>1, <1>2 DEF RowsGrow
<1>4. \A i \in DOMAIN row' : RowFits(i, row'[i])
  BY <1>1, <1>2
<1>5. RowsFit'
  <2> SUFFICES ASSUME NEW i \in DOMAIN row' PROVE RowFits(i, row[i])'
    BY DEF RowsFit
  <2>2. PICK r : r = row'[i]
    OBVIOUS
  <2>3. RowFits(i, r)
    BY <1>4, <2>2
  <2>4. RowFits(i, r)'
    BY <1>3, <2>3, RowStill
  <2> QED
    BY <2>2, <2>4 DEF RowFits, FollowsParent
<1> QED
  BY <1>2, <1>3, <1>5

-----------------------------------------------------------------------------
(* How a dispatch may go on *)

LEMMA OutcomesStay ==
  ASSUME TeamInv, RowsGrow, UNCHANGED out PROVE OutcomesFit'
<1> SUFFICES ASSUME NEW c \in Callers, NEW k \in DOMAIN out[c], IsChain \/ out[c][k] # Nothing
             PROVE  Registered(out[c][k])'
  BY DEF OutcomesFit, RowsGrow, IsChain
<1>1. PICK o : o = out[c][k]
  OBVIOUS
<1>2. Registered(o)
  BY <1>1 DEF TeamInv, OutcomesFit
<1>3. Registered(o)'
  BY <1>2, RegisteredStill
<1> QED
  BY <1>1, <1>3 DEF Registered

LEMMA Moves ==
  ASSUME TeamInv, RowsGrow, RowsFit', BudgetFits', UNCHANGED <<out, caller>>,
         NEW c \in Callers, NEW id \in DOMAIN branch[c], NEW b,
         branch' = [branch EXCEPT ![c] = [branch[c] EXCEPT ![id] = b]],
         BranchFits(c, id, b)'
  PROVE  TeamInv'
<1>1. /\ DOMAIN branch' = Callers /\ \A d \in Callers : DOMAIN branch'[d] = DOMAIN branch[d]
      /\ branch'[c][id] = b
      /\ \A d \in Callers : \A i \in DOMAIN branch[d] :
           <<d, i>> # <<c, id>> => branch'[d][i] = branch[d][i]
  BY DEF TeamInv, CallersFit
<1>2. CallersFit'
  BY <1>1 DEF TeamInv, CallersFit, IsChain, RowsGrow
<1>3. BranchesFit'
  <2> SUFFICES ASSUME NEW d \in Callers, NEW i \in DOMAIN branch[d]
               PROVE  BranchFits(d, i, branch[d][i])'
    BY <1>1 DEF BranchesFit
  <2>1. CASE <<d, i>> = <<c, id>>
    BY <1>1, <2>1
  <2>2. CASE <<d, i>> # <<c, id>>
    <3>1. PICK a : a = branch[d][i]
      OBVIOUS
    <3>2. BranchFits(d, i, a)'
      BY <3>1, BranchStill DEF TeamInv, BranchesFit
    <3> QED
      BY <1>1, <2>2, <3>1, <3>2
  <2> QED
    BY <2>1, <2>2
<1>4. OutcomesFit'
  BY OutcomesStay
<1> QED
  BY <1>2, <1>3, <1>4 DEF TeamInv

\* A dispatch ends: in a chain it was the only one of its caller.
LEMMA Ends ==
  ASSUME TeamInv, RowsGrow, RowsFit', BudgetFits', UNCHANGED caller,
         NEW c \in Callers, NEW id \in DOMAIN branch[c],
         branch' = [branch EXCEPT ![c] = Without(@, id)],
         DOMAIN out' = Callers, \A d \in Callers : d # c => out'[d] = out[d],
         \E S : out'[c] \in Seq(S),
         \A k \in DOMAIN out'[c] : IsChain \/ out'[c][k] # Nothing => Registered(out[c][k])'
  PROVE  TeamInv'
<1>1. /\ DOMAIN branch' = Callers /\ DOMAIN branch'[c] = DOMAIN branch[c] \ {id}
      /\ \A d \in Callers : d # c => branch'[d] = branch[d]
      /\ \A i \in DOMAIN branch[c] : i # id => branch'[c][i] = branch[c][i]
  BY DEF TeamInv, CallersFit, Without
<1>2. CallersFit'
  <2>1. DOMAIN caller' = Callers /\ strategy' \in Strategies
    BY DEF TeamInv, CallersFit, RowsGrow
  <2>2. \A d \in Callers : DOMAIN branch'[d] \subseteq DOMAIN branch[d]
    BY <1>1
  <2>3. \A d \in Callers : IsFiniteSet(DOMAIN branch'[d])
    BY <2>2, FS_Subset DEF TeamInv, CallersFit
  <2>4. \A d \in Callers :
          /\ DOMAIN caller'[d] = {"status", "input", "stopped"}
          /\ caller'[d].status = "active" => caller'[d].input \in Inputs
          /\ caller'[d].status # "active" => DOMAIN branch'[d] = {}
          /\ IsChain => \A i, j \in DOMAIN branch'[d] : i = j
    BY <2>2 DEF TeamInv, CallersFit
  <2>5. \A d \in Callers : \E S : out'[d] \in Seq(S)
    BY DEF TeamInv, CallersFit
  <2> QED
    BY <1>1, <2>1, <2>3, <2>4, <2>5 DEF CallersFit, IsChain, RowsGrow
<1>3. BranchesFit'
  <2> SUFFICES ASSUME NEW d \in Callers, NEW i \in DOMAIN branch'[d]
               PROVE  BranchFits(d, i, branch[d][i])'
    BY DEF BranchesFit
  <2>1. PICK a : a = branch[d][i]
    OBVIOUS
  <2>2. i \in DOMAIN branch[d] /\ branch'[d][i] = a /\ (d = c => i # id)
    BY <1>1, <2>1
  <2>3. IsChain => d # c
    BY <2>2 DEF TeamInv, CallersFit
  <2>4. IsChain => Len(out'[d]) = Len(out[d])
    BY <2>3
  <2>5. BranchFits(d, i, a)
    BY <2>1, <2>2 DEF TeamInv, BranchesFit
  <2>6. BranchFits(d, i, a)'
    BY <2>4, <2>5, BranchStill
  <2> QED
    BY <2>2, <2>6
<1>4. OutcomesFit'
  <2> SUFFICES ASSUME NEW d \in Callers, NEW k \in DOMAIN out'[d],
                      IsChain \/ out'[d][k] # Nothing
               PROVE  Registered(out[d][k])'
    BY DEF OutcomesFit, RowsGrow, IsChain
  <2>1. CASE d = c
    BY <2>1
  <2>2. CASE d # c
    <3>1. PICK o : o = out[d][k]
      OBVIOUS
    <3>2. out'[d] = out[d] /\ Registered(o)
      BY <2>2, <3>1 DEF TeamInv, OutcomesFit
    <3>3. Registered(o)'
      BY <3>2, RegisteredStill
    <3> QED
      BY <3>1, <3>2, <3>3 DEF Registered
  <2> QED
    BY <2>1, <2>2
<1> QED
  BY <1>2, <1>3, <1>4 DEF TeamInv

LEMMA Raises ==
  ASSUME TeamInv, RowsGrow, RowsFit', BudgetFits', UNCHANGED caller,
         NEW c \in Callers, NEW id \in DOMAIN branch[c], Raise(c, id)
  PROVE  TeamInv'
<1>1. branch' = [branch EXCEPT ![c] = Without(@, id)] /\ out' = out
  BY DEF Raise
<1>2. DOMAIN out' = Callers /\ \E S : out'[c] \in Seq(S)
  BY <1>1 DEF TeamInv, CallersFit
<1>3. \A k \in DOMAIN out'[c] : IsChain \/ out'[c][k] # Nothing => Registered(out[c][k])'
  BY <1>1, OutcomesStay DEF OutcomesFit, RowsGrow, IsChain
<1> QED
  BY <1>1, <1>2, <1>3, Ends

\* What is given is on record, and stands behind what was given before.
LEMMA Gives ==
  ASSUME TeamInv, RowsGrow, RowsFit', BudgetFits', UNCHANGED caller,
         NEW c \in Callers, NEW id \in DOMAIN branch[c], NEW value, Give(c, id, value),
         NEW o, o = [id |-> id, payload |-> branch[c][id].payload, value |-> value],
         Registered(o)'
  PROVE  TeamInv'
<1> DEFINE n == id.sequence + 1
           m == IF Len(out[c]) < n THEN n ELSE Len(out[c])
<1>1. /\ branch' = [branch EXCEPT ![c] = Without(@, id)]
      /\ out' = [out EXCEPT ![c] = [Padded(@, n) EXCEPT ![n] = o]]
  BY DEF Give
<1>2. PICK S : out[c] \in Seq(S)
  BY DEF TeamInv, CallersFit
<1>3. Len(out[c]) \in Nat /\ DOMAIN out[c] = 1 .. Len(out[c])
  BY <1>2, LenProperties
<1>4. /\ DOMAIN out' = Callers /\ \A d \in Callers : d # c => out'[d] = out[d]
      /\ out'[c] = [Padded(out[c], n) EXCEPT ![n] = o]
  BY <1>1 DEF TeamInv, CallersFit
<1>5. n \in Nat \ {0} /\ m \in Nat /\ n \in 1 .. m /\ 1 .. Len(out[c]) \subseteq 1 .. m
      /\ (IsChain => 1 .. m = 1 .. Len(out[c]) \cup {n})
  <2>1. id.sequence \in Nat /\ (IsChain => id.sequence = Len(out[c]))
    BY DEF TeamInv, BranchesFit, BranchFits
  <2> QED
    BY <1>3, <2>1
<1> HIDE DEF n, m
<1>6. out'[c] = [k \in 1 .. m |-> IF k = n THEN o
                                 ELSE IF k \in DOMAIN out[c] THEN out[c][k] ELSE Nothing]
  <2>1. Padded(out[c], n) = [k \in 1 .. m |-> IF k \in DOMAIN out[c] THEN out[c][k] ELSE Nothing]
    BY DEF Padded, m
  <2> QED
    BY <1>4, <2>1
<1>7. \E T : out'[c] \in Seq(T)
  <2> DEFINE T == S \cup {o, Nothing}
  <2>1. \A k \in DOMAIN out[c] : out[c][k] \in T
    BY <1>2, <1>3
  <2>2. out'[c] \in [1 .. m -> T]
    BY <1>6, <2>1
  <2>3. [1 .. m -> T] \subseteq Seq(T)
    BY <1>5, SeqDef
  <2> QED
    BY <2>2, <2>3
<1>8. \A k \in DOMAIN out'[c] : IsChain \/ out'[c][k] # Nothing => Registered(out[c][k])'
  <2> SUFFICES ASSUME NEW k \in DOMAIN out'[c], IsChain \/ out'[c][k] # Nothing
               PROVE  Registered(out[c][k])'
    OBVIOUS
  <2>1. k \in 1 .. m
    BY <1>6
  <2>2. CASE k = n
    <3>1. out'[c][k] = o
      BY <1>6, <2>1, <2>2
    <3> QED
      BY <3>1 DEF Registered
  <2>3. CASE k # n /\ k \in DOMAIN out[c]
    <3>1. PICK a : a = out[c][k]
      OBVIOUS
    <3>2. out'[c][k] = a
      BY <1>6, <2>1, <2>3, <3>1
    <3>3. Registered(a)
      BY <2>3, <3>1, <3>2 DEF TeamInv, OutcomesFit
    <3>4. Registered(a)'
      BY <3>3, RegisteredStill
    <3> QED
      BY <3>2, <3>4 DEF Registered
  <2>4. CASE k # n /\ k \notin DOMAIN out[c]
    <3>1. out'[c][k] = Nothing
      BY <1>6, <2>1, <2>4
    <3>2. ~IsChain
      BY <1>3, <1>5, <2>1, <2>4
    <3> QED
      BY <3>1, <3>2
  <2> QED
    BY <2>2, <2>3, <2>4
<1> QED
  BY <1>1, <1>4, <1>7, <1>8, Ends

\* A dispatch goes on with another record of the same request.
LEMMA Becomes ==
  ASSUME TeamInv, RowsGrow, RowsFit', BudgetFits', UNCHANGED <<out, caller>>,
         NEW c \in Callers, NEW id \in DOMAIN branch[c], NEW b,
         branch' = [branch EXCEPT ![c] = [branch[c] EXCEPT ![id] = b]],
         DOMAIN b = BranchFields, b.payload = branch[c][id].payload,
         StageFits(id, b, b.at)'
  PROVE  TeamInv'
<1>1. PICK a : a = branch[c][id]
  OBVIOUS
<1>2. BranchFits(c, id, a)
  BY <1>1 DEF TeamInv, BranchesFit
<1>3. FollowsParent(id, a.payload)'
  BY <1>2, FollowsStill DEF BranchFits
<1>4. BranchFits(c, id, b)'
  BY <1>1, <1>2, <1>3 DEF BranchFits, RowsGrow, IsChain
<1> QED
  BY <1>4, Moves

LEMMA GoesTo ==
  ASSUME TeamInv, RowsGrow, RowsFit', BudgetFits', UNCHANGED caller,
         NEW c \in Callers, NEW id \in DOMAIN branch[c], NEW stage, Goto(c, id, stage),
         NEW b, b = branch[c][id], StageFits(id, b, stage)'
  PROVE  TeamInv'
<1> DEFINE a == [b EXCEPT !.at = stage]
<1>1. /\ UNCHANGED out
      /\ branch' = [branch EXCEPT ![c] = [branch[c] EXCEPT ![id] = a]]
  BY DEF Goto
<1>2. DOMAIN b = BranchFields
  BY DEF TeamInv, BranchesFit, BranchFits
<1>3. /\ DOMAIN a = BranchFields /\ a.at = stage
      /\ a.payload = b.payload /\ a.seen = b.seen /\ a.token = b.token /\ a.value = b.value
  BY <1>2 DEF BranchFields
<1> HIDE DEF a
<1>4. StageFits(id, a, a.at)'
  BY <1>3 DEF StageFits
<1> QED
  BY <1>1, <1>3, <1>4, Becomes

-----------------------------------------------------------------------------
(* The steps of a dispatch *)

LEMMA BranchIs ==
  ASSUME TeamInv, NEW c \in Callers, NEW id \in DOMAIN branch[c], NEW b, b = branch[c][id]
  PROVE  /\ DOMAIN b = BranchFields /\ StageFits(id, b, b.at)
         /\ id.sequence \in Nat /\ FollowsParent(id, b.payload)
         /\ b.at \in WithRow => RowFits(id, row[id]) /\ Later(row[id], row[id])
<1>1. BranchFits(c, id, b)
  BY DEF TeamInv, BranchesFit
<1>2. b.at \in WithRow => id \in DOMAIN row
  BY <1>1 DEF BranchFits, StageFits
<1>3. b.at \in WithRow => RowFits(id, row[id]) /\ Later(row[id], row[id])
  BY <1>2, LaterItself DEF TeamInv, RowsFit
<1> QED
  BY <1>1, <1>3 DEF BranchFits

LEMMA BudgetStays ==
  ASSUME TeamInv, UNCHANGED <<admitted, spent>> PROVE BudgetFits'
BY DEF TeamInv, BudgetFits

LEMMA PreflightKeeps ==
  ASSUME TeamInv, NEW c \in Callers, NEW id \in DOMAIN branch[c], Preflight(c, id)
  PROVE  TeamInv'
<1>1. UNCHANGED <<row, strategy, admitted, spent, caller>>
  BY DEF Preflight, KeepStore, KeepCalls, KeepCaller, store
<1>2. RowsGrow /\ RowsFit' /\ BudgetFits'
  BY <1>1, RowsStay, BudgetStays
<1>3. PICK b : b = branch[c][id]
  OBVIOUS
<1>4. b.at = "preflight" /\ StageFits(id, b, b.at)
  BY <1>3, BranchIs DEF Preflight, At
<1>5. CASE Raise(c, id)
  BY <1>1, <1>2, <1>5, Raises
<1>6. CASE Goto(c, id, "reserve")
  <2>1. StageFits(id, b, "reserve")'
    BY <1>1, <1>4 DEF StageFits, BeforeTask, WithRow
  <2> QED
    BY <1>1, <1>2, <1>3, <1>6, <2>1, GoesTo
<1> QED
  BY <1>5, <1>6 DEF Preflight

\* Each handoff is counted once, within the limit.
LEMMA AdmitKeeps ==
  ASSUME TeamInv, NEW id, Admit(id), id \in admitted \/ spent + 1 <= Limit
  PROVE  BudgetFits' /\ admitted \subseteq admitted' /\ id \in admitted'
<1>1. admitted' = admitted \cup {id} /\ spent' = spent + (IF id \in admitted THEN 0 ELSE 1)
  BY DEF Admit
<1>2. /\ IsFiniteSet(admitted) /\ spent = Cardinality(admitted) /\ spent <= Limit
      /\ spent \in Nat
  BY FS_CardinalityType DEF TeamInv, BudgetFits
<1>3. /\ IsFiniteSet(admitted')
      /\ Cardinality(admitted') = IF id \in admitted THEN spent ELSE spent + 1
  BY <1>1, <1>2, FS_AddElement
<1>4. spent' <= Limit /\ spent' = Cardinality(admitted')
  BY <1>1, <1>2, <1>3
<1> QED
  BY <1>1, <1>3, <1>4 DEF BudgetFits

LEMMA ReserveKeeps ==
  ASSUME TeamInv, NEW c \in Callers, NEW id \in DOMAIN branch[c], Reserve(c, id)
  PROVE  TeamInv'
<1>1. UNCHANGED <<row, strategy, caller>>
  BY DEF Reserve, KeepCalls, KeepCaller
<1>2. PICK b : b = branch[c][id]
  OBVIOUS
<1>3. b.at = "reserve" /\ StageFits(id, b, b.at)
  BY <1>2, BranchIs DEF Reserve, At
<1>4. CASE Raise(c, id) /\ KeepBudget
  <2>1. RowsGrow /\ RowsFit' /\ BudgetFits'
    BY <1>1, <1>4, RowsStay, BudgetStays DEF KeepBudget
  <2> QED
    BY <1>1, <1>4, <2>1, Raises
<1>5. CASE Admit(id) /\ Goto(c, id, "task") /\ (id \in admitted \/ spent + 1 <= Limit)
  <2>1. BudgetFits' /\ admitted \subseteq admitted' /\ id \in admitted'
    BY <1>5, AdmitKeeps
  <2>2. RowsGrow /\ RowsFit'
    BY <1>1, <2>1, RowsStay
  <2>3. StageFits(id, b, "task")'
    BY <1>1, <1>3, <2>1 DEF StageFits, BeforeTask, WithRow
  <2> QED
    BY <1>1, <1>2, <1>5, <2>1, <2>2, <2>3, GoesTo
<1> QED
  BY <1>4, <1>5 DEF Reserve

LEMMA CreateTaskKeeps ==
  ASSUME TeamInv, NEW c \in Callers, NEW id \in DOMAIN branch[c], CreateHandoffTask(c, id)
  PROVE  TeamInv'
<1>1. UNCHANGED <<strategy, admitted, spent, caller>> /\ BudgetFits'
  BY BudgetStays DEF CreateHandoffTask, KeepBudget, KeepCalls, KeepCaller
<1>2. PICK b : b = branch[c][id]
  OBVIOUS
<1>3. b.at = "task" /\ StageFits(id, b, b.at) /\ FollowsParent(id, b.payload)
  BY <1>2, BranchIs DEF CreateHandoffTask, At
<1>4. CASE id \in DOMAIN row
  <2>1. row' = row
    BY <1>4 DEF CreateHandoffTask
  <2>2. RowsGrow /\ RowsFit'
    BY <1>1, <2>1, RowsStay
  <2>3. CASE Raise(c, id)
    BY <1>1, <2>2, <2>3, Raises
  <2>4. CASE Goto(c, id, "run") /\ (SameRequest(c, id) \/ strategy = "external")
    <3>1. StageFits(id, b, "run")'
      BY <1>1, <1>2, <1>3, <1>4, <2>1, <2>4
         DEF StageFits, BeforeTask, WithRow, SameRequest
    <3> QED
      BY <1>1, <1>2, <2>2, <2>4, <3>1, GoesTo
  <2> QED
    BY <1>4, <2>3, <2>4 DEF CreateHandoffTask
<1>5. CASE id \notin DOMAIN row
  <2>1. PICK p : p = IF strategy = "external" THEN Nothing ELSE b.payload
    OBVIOUS
  <2>2. PICK r : r = NewRow(p)
    OBVIOUS
  <2>3. row' = With(row, id, r) /\ Goto(c, id, "run")
    BY <1>2, <1>5, <2>1, <2>2 DEF CreateHandoffTask
  <2>4. /\ DOMAIN r = RowFields /\ r.attempt = 0 /\ r.calls = {} /\ r.state = "none"
        /\ r.payload = p
    BY <2>2 DEF NewRow, RowFields
  <2>5. FollowsParent(id, p)
    BY <1>3, <2>1 DEF FollowsParent, IsChain
  <2>6. RowFits(id, r)
    BY <2>4, <2>5 DEF RowFits
  <2>7. RowsGrow /\ RowsFit' /\ id \in DOMAIN row' /\ row'[id] = r
    BY <1>1, <1>5, <2>3, <2>6, RowAppears
  <2>8. StageFits(id, b, "run")'
    BY <1>1, <1>3, <2>1, <2>4, <2>7 DEF StageFits, BeforeTask, WithRow
  <2> QED
    BY <1>1, <1>2, <2>3, <2>7, <2>8, GoesTo
<1> QED
  BY <1>4, <1>5

\* The copy of the row that is read here is that of a run, or will be outrun by it.
LEMMA CreateRunKeeps ==
  ASSUME TeamInv, NEW c \in Callers, NEW id \in DOMAIN branch[c], CreateHandoffRun(c, id)
  PROVE  TeamInv'
<1>1. UNCHANGED <<strategy, admitted, spent, caller, out>> /\ BudgetFits'
  BY BudgetStays DEF CreateHandoffRun, KeepBudget, KeepCalls, KeepCaller
<1>2. PICK b : b = branch[c][id]
  OBVIOUS
<1>3. /\ b.at = "run" /\ b.at \in WithRow /\ StageFits(id, b, b.at) /\ DOMAIN b = BranchFields
      /\ RowFits(id, row[id]) /\ Later(row[id], row[id])
  BY <1>2, BranchIs DEF CreateHandoffRun, At, WithRow
<1>4. PICK r : r = row[id]
  OBVIOUS
<1>5. PICK created : created = [r EXCEPT !.state = IF @ = "none" THEN "pending" ELSE @]
  OBVIOUS
<1>6. PICK at : at = IF strategy = "external" THEN "request" ELSE "inspect"
  OBVIOUS
<1>7. PICK a : a = [b EXCEPT !.seen = created, !.at = at]
  OBVIOUS
<1>8. /\ row' = [row EXCEPT ![id] = created] /\ id \in DOMAIN row
      /\ branch' = [branch EXCEPT ![c] = [branch[c] EXCEPT ![id] = a]]
  <2>1. id \in DOMAIN row
    BY <1>3 DEF StageFits
  <2>2. row' = [row EXCEPT ![id] = created]
    BY <1>4, <1>5 DEF CreateHandoffRun
  <2>3. branch' = [branch EXCEPT ![c] = [branch[c] EXCEPT ![id] = a]]
    BY <1>2, <1>4, <1>5, <1>6, <1>7 DEF CreateHandoffRun
  <2> QED
    BY <2>1, <2>2, <2>3
<1>9. /\ DOMAIN created = RowFields /\ created.payload = r.payload
      /\ (r.state = "completed" <=> created.state = "completed")
      /\ created.result = r.result /\ created.attempt = r.attempt /\ created.calls = r.calls
      /\ created.cancel = r.cancel /\ created.cancelledAt = r.cancelledAt
      /\ created.events = r.events
  <2>1. DOMAIN r = RowFields
    BY <1>3, <1>4 DEF RowFits
  <2> QED
    BY <1>5, <2>1 DEF RowFields
<1>10. Later(row[id], created) /\ RowFits(id, created)
  BY <1>3, <1>4, <1>9 DEF Later, RowFits
<1>11. RowsGrow /\ RowsFit' /\ id \in DOMAIN row' /\ row'[id] = created
  BY <1>1, <1>8, <1>10, RowChanges
<1>12. /\ DOMAIN a = BranchFields /\ a.at = at /\ a.seen = created /\ a.payload = b.payload
  BY <1>3, <1>7 DEF BranchFields
<1>13. StageFits(id, a, a.at)'
  BY <1>1, <1>3, <1>4, <1>6, <1>9, <1>11, <1>12 DEF StageFits, BeforeTask, WithRow
<1> QED
  BY <1>1, <1>2, <1>8, <1>11, <1>12, <1>13, Becomes

\* The request of an external handoff is fixed once.
LEMMA FixRequestKeeps ==
  ASSUME TeamInv, NEW c \in Callers, NEW id \in DOMAIN branch[c], FixRequest(c, id)
  PROVE  TeamInv'
<1>1. UNCHANGED <<strategy, admitted, spent, caller>> /\ BudgetFits'
  BY BudgetStays DEF FixRequest, KeepBudget, KeepCalls, KeepCaller
<1>2. PICK b : b = branch[c][id]
  OBVIOUS
<1>3. /\ b.at = "request" /\ b.at \in WithRow /\ StageFits(id, b, b.at)
      /\ RowFits(id, row[id]) /\ Later(row[id], row[id])
  BY <1>2, BranchIs DEF FixRequest, At, WithRow
<1>4. PICK r : r = row[id]
  OBVIOUS
<1>5. id \in DOMAIN row /\ strategy = "external" /\ b.payload # Nothing
  BY <1>3 DEF StageFits
<1>6. CASE UNCHANGED row /\ Raise(c, id)
  <2>1. RowsGrow /\ RowsFit'
    BY <1>1, <1>6, RowsStay
  <2> QED
    BY <1>1, <1>6, <2>1, Raises
<1>7. CASE r.payload \in {Nothing, b.payload}
  <2>1. PICK s : s = [r EXCEPT !.payload = b.payload, !.events = @ \cup {"started"}]
    OBVIOUS
  <2>2. row' = [row EXCEPT ![id] = s] /\ Goto(c, id, "inspect")
    BY <1>2, <1>4, <1>7, <2>1 DEF FixRequest
  <2>3. /\ DOMAIN s = RowFields /\ s.payload = b.payload /\ s.events = r.events \cup {"started"}
        /\ s.state = r.state /\ s.result = r.result /\ s.attempt = r.attempt
        /\ s.calls = r.calls /\ s.cancel = r.cancel /\ s.cancelledAt = r.cancelledAt
    <3>1. DOMAIN r = RowFields
      BY <1>3, <1>4 DEF RowFits
    <3> QED
      BY <2>1, <3>1 DEF RowFields
  <2>4. r.state = "completed" => s.payload = r.payload
    BY <1>3, <1>4, <1>5, <1>7, <2>3 DEF RowFits
  <2>5. Later(row[id], s)
    BY <1>3, <1>4, <1>5, <1>7, <2>3 DEF Later
  <2>6. RowFits(id, s)
    BY <1>3, <1>4, <1>5, <2>3, <2>4 DEF RowFits, FollowsParent, IsChain
  <2>7. RowsGrow /\ RowsFit' /\ id \in DOMAIN row' /\ row'[id] = s
    BY <1>1, <1>5, <2>2, <2>5, <2>6, RowChanges
  <2>8. StageFits(id, b, "inspect")'
    BY <1>1, <1>3, <1>4, <1>5, <2>3, <2>7 DEF StageFits, BeforeTask, WithRow
  <2> QED
    BY <1>1, <1>2, <2>2, <2>7, <2>8, GoesTo
<1> QED
  BY <1>2, <1>4, <1>6, <1>7 DEF FixRequest

\* An event more changes nothing else of a row.
LEMMA EventIs ==
  ASSUME TeamInv, NEW id \in DOMAIN row, NEW kind, AddEvent(id, kind),
         UNCHANGED <<strategy, admitted>>
  PROVE  /\ RowsGrow /\ RowsFit' /\ id \in DOMAIN row'
         /\ row'[id].payload = row[id].payload /\ row'[id].state = row[id].state
         /\ row'[id].result = row[id].result /\ kind \in row'[id].events
<1>1. PICK r : r = row[id]
  OBVIOUS
<1>2. PICK s : s = [r EXCEPT !.events = @ \cup {kind}]
  OBVIOUS
<1>3. RowFits(id, r) /\ Later(r, r)
  BY <1>1, LaterItself DEF TeamInv, RowsFit
<1>4. /\ DOMAIN s = RowFields /\ s.payload = r.payload /\ s.events = r.events \cup {kind}
      /\ s.state = r.state /\ s.result = r.result /\ s.attempt = r.attempt
      /\ s.calls = r.calls /\ s.cancel = r.cancel /\ s.cancelledAt = r.cancelledAt
  <2>1. DOMAIN r = RowFields
    BY <1>3 DEF RowFits
  <2> QED
    BY <1>2, <2>1 DEF RowFields
<1>5. Later(row[id], s) /\ RowFits(id, s)
  BY <1>1, <1>3, <1>4 DEF Later, RowFits
<1>6. row' = [row EXCEPT ![id] = s]
  BY <1>1, <1>2 DEF AddEvent
<1>7. RowsGrow /\ RowsFit' /\ id \in DOMAIN row' /\ row'[id] = s
  BY <1>5, <1>6, RowChanges
<1> QED
  BY <1>1, <1>4, <1>7

\* A stored result is given only for the request it answers.
LEMMA InspectRowKeeps ==
  ASSUME TeamInv, NEW c \in Callers, NEW id \in DOMAIN branch[c], Inspect(c, id)
  PROVE  TeamInv'
<1>1. UNCHANGED <<strategy, admitted, spent, caller>> /\ BudgetFits'
  BY BudgetStays DEF Inspect, KeepBudget, KeepCalls, KeepCaller
<1>2. PICK b : b = branch[c][id]
  OBVIOUS
<1>3. /\ b.at = "inspect" /\ b.at \in WithRow /\ StageFits(id, b, b.at)
      /\ RowFits(id, row[id])
  BY <1>2, BranchIs DEF Inspect, At, WithRow
<1>4. id \in DOMAIN row /\ row[id].payload = b.payload
  BY <1>3 DEF StageFits
<1>5. CASE /\ Replayable(c, id, b.seen) /\ AddEvent(id, "completed")
           /\ Give(c, id, b.seen.result.value)
  <2>1. b.seen.state = "completed"
    BY <1>5 DEF Replayable
  <2>2. row[id].state = "completed" /\ row[id].result = b.seen.result
    BY <1>3, <2>1 DEF StageFits
  <2>3. row[id].result = [request |-> b.payload, value |-> b.seen.result.value]
    BY <1>3, <1>4, <2>2 DEF RowFits
  <2>4. /\ RowsGrow /\ RowsFit' /\ id \in DOMAIN row'
        /\ row'[id].payload = b.payload /\ row'[id].state = "completed"
        /\ row'[id].result = row[id].result /\ "completed" \in row'[id].events
    BY <1>1, <1>4, <1>5, <2>2, EventIs
  <2>5. PICK o : o = [id |-> id, payload |-> b.payload, value |-> b.seen.result.value]
    OBVIOUS
  <2>6. o.id = id /\ o.payload = b.payload /\ o.value = b.seen.result.value
    BY <2>5
  <2>7. Registered(o)'
    BY <2>3, <2>4, <2>6 DEF Registered
  <2>8. Give(c, id, b.seen.result.value)
    BY <1>5
  <2> QED
    BY <1>1, <1>2, <2>4, <2>5, <2>7, <2>8, Gives
<1>6. CASE Goto(c, id, "claim") /\ UNCHANGED row
  <2>1. RowsGrow /\ RowsFit'
    BY <1>1, <1>6, RowsStay
  <2>2. StageFits(id, b, "claim")'
    BY <1>1, <1>3, <1>4, <1>6 DEF StageFits, BeforeTask, WithRow
  <2> QED
    BY <1>1, <1>2, <1>6, <2>1, <2>2, GoesTo
<1>7. CASE Raise(c, id) /\ (AddEvent(id, "cancelled") \/ UNCHANGED row)
  <2>1. RowsGrow /\ RowsFit'
    BY <1>1, <1>4, <1>7, RowsStay, EventIs
  <2> QED
    BY <1>1, <1>7, <2>1, Raises
<1> QED
  BY <1>2, <1>5, <1>6, <1>7 DEF Inspect

\* A step of a run that does not cancel it and calls no member.
LEMMA RunMoves ==
  ASSUME TeamInv, NEW id \in DOMAIN row, NEW r, r = row[id], NEW s,
         row' = [row EXCEPT ![id] = s], UNCHANGED <<strategy, admitted>>,
         DOMAIN s = RowFields, s.payload = r.payload, s.calls = r.calls,
         s.events = r.events, s.cancel = r.cancel, s.cancelledAt = r.cancelledAt,
         s.attempt \in Nat, r.attempt <= s.attempt, r.state # "completed",
         s.state = "completed" =>
           /\ s.result = [request |-> s.payload, value |-> s.result.value]
           /\ strategy = "external" => s.payload # Nothing
  PROVE  RowsGrow /\ RowsFit' /\ id \in DOMAIN row' /\ row'[id] = s
<1>1. RowFits(id, r)
  BY DEF TeamInv, RowsFit
<1>2. Later(row[id], s)
  BY <1>1 DEF Later, RowFits
<1>3. RowFits(id, s)
  BY <1>1 DEF RowFits
<1> QED
  BY <1>2, <1>3, RowChanges

\* A claim is of the row as it is now, and starts only where none asked to cancel.
LEMMA ClaimHandoffKeeps ==
  ASSUME TeamInv, NEW c \in Callers, NEW id \in DOMAIN branch[c], Claim(c, id)
  PROVE  TeamInv'
<1>1. UNCHANGED <<strategy, admitted, spent, caller>> /\ BudgetFits'
  BY BudgetStays DEF Claim, KeepBudget, KeepCalls, KeepCaller
<1>2. PICK b : b = branch[c][id]
  OBVIOUS
<1>3. /\ b.at = "claim" /\ b.at \in WithRow /\ StageFits(id, b, b.at) /\ DOMAIN b = BranchFields
      /\ RowFits(id, row[id])
  BY <1>2, BranchIs DEF Claim, At, WithRow
<1>4. id \in DOMAIN row /\ row[id].payload = b.payload
  BY <1>3 DEF StageFits
<1>5. CASE UNCHANGED row /\ Raise(c, id)
  <2>1. RowsGrow /\ RowsFit'
    BY <1>1, <1>5, RowsStay
  <2> QED
    BY <1>1, <1>5, <2>1, Raises
<1>6. PICK r : r = row[id]
  OBVIOUS
<1>7. CASE /\ r.state \in {"pending", "running"}
           /\ row' = [row EXCEPT ![id].state = "running",
                        ![id].attempt = @ + 1, ![id].expired = FALSE]
           /\ branch' = [branch EXCEPT ![c][id].token = r.attempt + 1,
                           ![c][id].at = AfterClaim(id)]
           /\ UNCHANGED out
  <2>1. PICK s : s = [r EXCEPT !.state = "running", !.attempt = @ + 1, !.expired = FALSE]
    OBVIOUS
  <2>2. PICK at : at = AfterClaim(id)
    OBVIOUS
  <2>3. PICK a : a = [b EXCEPT !.token = r.attempt + 1, !.at = at]
    OBVIOUS
  <2>4. /\ row' = [row EXCEPT ![id] = s]
        /\ branch' = [branch EXCEPT ![c] = [branch[c] EXCEPT ![id] = a]]
    BY <1>2, <1>6, <1>7, <2>1, <2>2, <2>3
  <2>5. /\ DOMAIN s = RowFields /\ s.payload = r.payload /\ s.calls = r.calls
        /\ s.events = r.events /\ s.cancel = r.cancel /\ s.cancelledAt = r.cancelledAt
        /\ s.attempt = r.attempt + 1 /\ s.state = "running" /\ r.attempt \in Nat
    <3>1. DOMAIN r = RowFields /\ r.attempt \in Nat
      BY <1>3, <1>6 DEF RowFits
    <3> QED
      BY <2>1, <3>1 DEF RowFields
  <2>6. RowsGrow /\ RowsFit' /\ id \in DOMAIN row' /\ row'[id] = s
    <3>1. s.attempt \in Nat /\ r.attempt <= s.attempt /\ s.state # "completed"
      BY <2>5
    <3> QED
      BY <1>1, <1>4, <1>6, <1>7, <2>4, <2>5, <3>1, RunMoves
  <2>7. DOMAIN a = BranchFields /\ a.at = at /\ a.token = r.attempt + 1 /\ a.payload = b.payload
    BY <1>3, <2>3 DEF BranchFields
  <2>8. at \in {"start", "stop"} /\ (at = "start" => ~r.cancel \/ strategy = "external")
    BY <1>6, <2>2 DEF AfterClaim
  <2>9. StageFits(id, a, a.at)'
    <3>1. row'[id].payload = a.payload /\ a.token \in Nat /\ a.token <= row'[id].attempt
      BY <1>4, <1>6, <2>5, <2>6, <2>7
    <3>2. at = "start" => ~row'[id].cancel \/ strategy = "external"
      BY <2>5, <2>6, <2>8
    <3> QED
      BY <1>1, <1>3, <2>6, <2>7, <2>8, <3>1, <3>2 DEF StageFits, BeforeTask, WithRow
  <2> QED
    BY <1>1, <1>2, <1>7, <2>4, <2>6, <2>7, <2>9, Becomes
<1> QED
  BY <1>2, <1>5, <1>6, <1>7 DEF Claim

\* A member is called for an admitted handoff, by a claim no later than a request
\* to cancel it.
LEMMA StartHandoffKeeps ==
  ASSUME TeamInv, NEW c \in Callers, NEW id \in DOMAIN branch[c], Start(c, id)
  PROVE  TeamInv'
<1>1. UNCHANGED <<strategy, admitted, spent, caller>> /\ BudgetFits'
  BY BudgetStays DEF Start, KeepBudget, KeepCalls, KeepCaller
<1>2. PICK b : b = branch[c][id]
  OBVIOUS
<1>3. /\ b.at = "start" /\ b.at \in WithRow /\ StageFits(id, b, b.at)
      /\ RowFits(id, row[id]) /\ Later(row[id], row[id])
  BY <1>2, BranchIs DEF Start, At, WithRow
<1>4. PICK r : r = row[id]
  OBVIOUS
<1>5. /\ id \in DOMAIN row /\ r.payload = b.payload /\ b.token \in Nat /\ b.token <= r.attempt
      /\ strategy # "external" => id \in admitted
      /\ strategy # "external" /\ r.cancel => b.token <= r.cancelledAt
  BY <1>3, <1>4 DEF StageFits, BeforeTask
<1>6. PICK s : s = [r EXCEPT !.events = @ \cup {"started"}, !.calls = @ \cup {b.token}]
  OBVIOUS
<1>7. row' = [row EXCEPT ![id] = s] /\ Goto(c, id, "working")
  BY <1>2, <1>4, <1>6 DEF Start
<1>8. /\ DOMAIN s = RowFields /\ s.payload = r.payload /\ s.calls = r.calls \cup {b.token}
      /\ s.events = r.events \cup {"started"} /\ s.cancel = r.cancel
      /\ s.cancelledAt = r.cancelledAt /\ s.attempt = r.attempt /\ s.state = r.state
      /\ s.result = r.result
  <2>1. DOMAIN r = RowFields
    BY <1>3, <1>4 DEF RowFits
  <2> QED
    BY <1>6, <2>1 DEF RowFields
<1>9. Later(row[id], s)
  BY <1>3, <1>4, <1>8 DEF Later
<1>10. RowFits(id, s)
  BY <1>3, <1>4, <1>5, <1>8 DEF RowFits
<1>11. RowsGrow /\ RowsFit' /\ id \in DOMAIN row' /\ row'[id] = s
  BY <1>1, <1>5, <1>7, <1>9, <1>10, RowChanges
<1>12. StageFits(id, b, "working")'
  BY <1>1, <1>3, <1>5, <1>8, <1>11 DEF StageFits, BeforeTask, WithRow
<1> QED
  BY <1>1, <1>2, <1>7, <1>11, <1>12, GoesTo

\* A heartbeat, an interruption and an answer are between caller and member.
LEMMA WorkingKeeps ==
  ASSUME TeamInv, NEW c \in Callers, NEW id \in DOMAIN branch[c],
         \/ Heartbeat(c, id) \/ Interrupt(c, id) \/ MemberRaises(c, id)
         \/ \E v \in Values : MemberAnswers(c, id, v)
  PROVE  TeamInv'
<1>1. UNCHANGED <<row, strategy, admitted, spent, caller>>
  BY DEF Heartbeat, Interrupt, MemberRaises, MemberAnswers, KeepStore, KeepCalls, KeepCaller,
         store
<1>2. RowsGrow /\ RowsFit' /\ BudgetFits'
  BY <1>1, RowsStay, BudgetStays
<1>3. PICK b : b = branch[c][id]
  OBVIOUS
<1>4. /\ b.at = "working" /\ StageFits(id, b, b.at) /\ DOMAIN b = BranchFields
  BY <1>3, BranchIs DEF Heartbeat, Interrupt, MemberRaises, MemberAnswers, At
<1>5. id \in DOMAIN row /\ row[id].payload = b.payload
  BY <1>4 DEF StageFits, WithRow
<1>6. CASE Raise(c, id)
  BY <1>1, <1>2, <1>6, Raises
<1>7. ASSUME NEW stage \in {"stop", "fail"}, Goto(c, id, stage) PROVE TeamInv'
  <2>1. StageFits(id, b, stage)'
    BY <1>1, <1>4, <1>5, <1>7 DEF StageFits, BeforeTask, WithRow
  <2> QED
    BY <1>1, <1>2, <1>3, <1>7, <2>1, GoesTo
<1>8. ASSUME NEW a, DOMAIN a = BranchFields, a.payload = b.payload,
             a.at \in {"working", "settle"}, UNCHANGED out,
             branch' = [branch EXCEPT ![c] = [branch[c] EXCEPT ![id] = a]]
      PROVE  TeamInv'
  <2>1. StageFits(id, a, a.at)'
    BY <1>1, <1>4, <1>5, <1>8 DEF StageFits, BeforeTask, WithRow
  <2> QED
    BY <1>1, <1>2, <1>3, <1>8, <2>1, Becomes
<1>9. CASE Heartbeat(c, id)
  <2>1. PICK signal \in {"lost", "cancel"} :
          branch' = [branch EXCEPT ![c][id].signal = signal] /\ UNCHANGED out
    BY <1>9 DEF Heartbeat
  <2>2. PICK a : a = [b EXCEPT !.signal = signal]
    OBVIOUS
  <2>3. branch' = [branch EXCEPT ![c] = [branch[c] EXCEPT ![id] = a]]
    BY <1>3, <2>1, <2>2
  <2>4. DOMAIN a = BranchFields /\ a.payload = b.payload /\ a.at = "working"
    BY <1>4, <2>2 DEF BranchFields
  <2> QED
    BY <1>8, <2>1, <2>3, <2>4
<1>10. ASSUME NEW v \in Values, MemberAnswers(c, id, v) PROVE TeamInv'
  <2>1. PICK a : a = [b EXCEPT !.at = "settle", !.value = v]
    OBVIOUS
  <2>2. branch' = [branch EXCEPT ![c] = [branch[c] EXCEPT ![id] = a]] /\ UNCHANGED out
    <3>1. branch' = [branch EXCEPT ![c][id].at = "settle", ![c][id].value = v] /\ UNCHANGED out
      BY <1>10 DEF MemberAnswers
    <3>2. DOMAIN branch = Callers
      BY DEF TeamInv, CallersFit
    <3> QED
      BY <1>3, <2>1, <3>1, <3>2
  <2>3. DOMAIN a = BranchFields /\ a.payload = b.payload /\ a.at = "settle"
    BY <1>4, <2>1 DEF BranchFields
  <2> QED
    BY <1>8, <2>2, <2>3
<1> QED
  BY <1>6, <1>7, <1>9, <1>10 DEF Interrupt, MemberRaises

\* The three settlements under the lease, and a suspension.
LEMMA SettlementsKeep ==
  ASSUME TeamInv, NEW c \in Callers, NEW id \in DOMAIN branch[c],
         \/ MemberSuspends(c, id) \/ CompleteHandoff(c, id)
         \/ FailHandoff(c, id) \/ Finish(c, id)
  PROVE  TeamInv'
<1>1. UNCHANGED <<strategy, admitted, spent, caller>> /\ BudgetFits'
  BY BudgetStays DEF MemberSuspends, CompleteHandoff, FailHandoff, Finish, KeepBudget, KeepCalls,
     KeepCaller
<1>2. PICK b : b = branch[c][id]
  OBVIOUS
<1>3. /\ b.at \in {"working", "settle", "fail", "finish"} /\ StageFits(id, b, b.at)
      /\ b.at \in WithRow /\ RowFits(id, row[id])
  <2>1. b.at \in {"working", "settle", "fail", "finish"}
    BY <1>2 DEF MemberSuspends, CompleteHandoff, FailHandoff, Finish, At
  <2> QED
    BY <1>2, <2>1, BranchIs DEF WithRow
<1>4. PICK r : r = row[id]
  OBVIOUS
<1>5. /\ id \in DOMAIN row /\ r.payload = b.payload /\ DOMAIN r = RowFields /\ r.attempt \in Nat
      /\ strategy = "external" => b.payload # Nothing
      /\ strategy # "external" => id \in admitted
  BY <1>3, <1>4 DEF StageFits, BeforeTask, RowFits
<1>6. CASE UNCHANGED row /\ Raise(c, id)
  <2>1. RowsGrow /\ RowsFit'
    BY <1>1, <1>6, RowsStay
  <2> QED
    BY <1>1, <1>6, <2>1, Raises
<1>7. ASSUME NEW stage \in {"fail", "stop"}, UNCHANGED row, Goto(c, id, stage) PROVE TeamInv'
  <2>1. RowsGrow /\ RowsFit'
    BY <1>1, <1>7, RowsStay
  <2>2. StageFits(id, b, stage)'
    BY <1>1, <1>4, <1>5, <1>7 DEF StageFits, BeforeTask, WithRow
  <2> QED
    BY <1>1, <1>2, <1>7, <2>1, <2>2, GoesTo
<1>8. ASSUME NEW to \in {"waiting", "failed", "cancelled"}, r.state = "running",
             row' = [row EXCEPT ![id].state = to]
      PROVE  RowsGrow /\ RowsFit' /\ id \in DOMAIN row' /\ row'[id].payload = b.payload
  <2>1. PICK s : s = [r EXCEPT !.state = to]
    OBVIOUS
  <2>2. row' = [row EXCEPT ![id] = s]
    BY <1>4, <1>8, <2>1
  <2>3. /\ DOMAIN s = RowFields /\ s.payload = r.payload /\ s.calls = r.calls
        /\ s.events = r.events /\ s.cancel = r.cancel /\ s.cancelledAt = r.cancelledAt
        /\ s.attempt = r.attempt /\ s.state = to
    BY <1>5, <2>1 DEF RowFields
  <2>4. s.attempt \in Nat /\ r.attempt <= s.attempt /\ s.state # "completed"
        /\ r.state # "completed"
    BY <1>5, <1>8, <2>3
  <2>5. RowsGrow /\ RowsFit' /\ id \in DOMAIN row' /\ row'[id] = s
    BY <1>1, <1>4, <1>5, <2>2, <2>3, <2>4, RunMoves
  <2> QED
    BY <1>5, <2>3, <2>5
<1>9. HoldsHandoff(c, id) => r.state = "running"
  BY <1>4 DEF HoldsHandoff, Live
<1>10. CASE MemberSuspends(c, id)
  <2>1. r.state = "running" /\ row' = [row EXCEPT ![id].state = "waiting"] /\ Raise(c, id)
    BY <1>9, <1>10 DEF MemberSuspends
  <2> QED
    BY <1>1, <1>8, <2>1, Raises
<1>11. ASSUME NEW stage \in {"failed", "cancelled"}, HoldsHandoff(c, id),
              row' = [row EXCEPT ![id].state = stage], Goto(c, id, stage)
       PROVE  TeamInv'
  <2>1. RowsGrow /\ RowsFit' /\ id \in DOMAIN row' /\ row'[id].payload = b.payload
    BY <1>8, <1>9, <1>11
  <2>2. StageFits(id, b, stage)'
    BY <1>1, <1>5, <2>1 DEF StageFits, BeforeTask, WithRow
  <2> QED
    BY <1>1, <1>2, <1>11, <2>1, <2>2, GoesTo
<1>12. ASSUME HoldsHandoff(c, id), Goto(c, id, "completed"),
              row' = [row EXCEPT ![id].state = "completed", ![id].result =
                       [request |-> branch[c][id].payload, value |-> branch[c][id].value]]
       PROVE  TeamInv'
  <2>1. PICK result : result = [request |-> b.payload, value |-> b.value]
    OBVIOUS
  <2>2. PICK s : s = [r EXCEPT !.state = "completed", !.result = result]
    OBVIOUS
  <2>3. row' = [row EXCEPT ![id] = s]
    BY <1>2, <1>4, <1>12, <2>1, <2>2
  <2>4. /\ DOMAIN s = RowFields /\ s.payload = r.payload /\ s.calls = r.calls
        /\ s.events = r.events /\ s.cancel = r.cancel /\ s.cancelledAt = r.cancelledAt
        /\ s.attempt = r.attempt /\ s.state = "completed" /\ s.result = result
    BY <1>5, <2>2 DEF RowFields
  <2>5. result.value = b.value
    BY <2>1
  <2>6. /\ s.attempt \in Nat /\ r.attempt <= s.attempt /\ r.state # "completed"
        /\ s.result = [request |-> s.payload, value |-> s.result.value]
        /\ strategy = "external" => s.payload # Nothing
    BY <1>5, <1>9, <1>12, <2>1, <2>4, <2>5
  <2>7. RowsGrow /\ RowsFit' /\ id \in DOMAIN row' /\ row'[id] = s
    BY <1>1, <1>4, <1>5, <2>3, <2>4, <2>6, RunMoves
  <2>8. StageFits(id, b, "completed")'
    BY <1>1, <1>5, <2>1, <2>4, <2>7 DEF StageFits, BeforeTask, WithRow
  <2> QED
    BY <1>1, <1>2, <1>12, <2>7, <2>8, GoesTo
<1>13. CASE CompleteHandoff(c, id)
  BY <1>6, <1>7, <1>12, <1>13 DEF CompleteHandoff
<1>14. CASE FailHandoff(c, id)
  BY <1>6, <1>11, <1>14 DEF FailHandoff
<1>15. CASE Finish(c, id)
  BY <1>6, <1>11, <1>15 DEF Finish
<1> QED
  BY <1>10, <1>13, <1>14, <1>15

\* A request to cancel is remembered with the attempt it found.
LEMMA RequestedIs ==
  ASSUME TeamInv, NEW id \in DOMAIN row, NEW s, s = Requested(row[id]),
         row' = [row EXCEPT ![id] = s], UNCHANGED <<strategy, admitted>>
  PROVE  RowsGrow /\ RowsFit' /\ id \in DOMAIN row' /\ row'[id].payload = row[id].payload
<1>1. PICK r : r = row[id]
  OBVIOUS
<1>2. RowFits(id, r) /\ Later(r, r) /\ DOMAIN r = RowFields
  BY <1>1, LaterItself DEF TeamInv, RowsFit, RowFits
<1>3. CASE s = r
  BY <1>1, <1>2, <1>3, RowChanges
<1>4. CASE r.state \in Unsettled
  <2>1. s = [r EXCEPT !.state = IF @ = "running" THEN @ ELSE "cancelled", !.cancel = TRUE,
                      !.cancelledAt = IF r.cancel THEN @ ELSE r.attempt]
    BY <1>1, <1>4 DEF Requested
  <2>2. /\ DOMAIN s = RowFields /\ s.payload = r.payload /\ s.calls = r.calls
        /\ s.events = r.events /\ s.cancel = TRUE /\ s.attempt = r.attempt
        /\ s.cancelledAt = (IF r.cancel THEN r.cancelledAt ELSE r.attempt)
        /\ s.state \in {"running", "cancelled"}
    BY <1>2, <2>1 DEF RowFields
  <2>3. Later(r, s)
    BY <1>2, <1>4, <2>2 DEF Later, Unsettled, RowFits
  <2>4. RowFits(id, s)
    BY <1>2, <2>2 DEF RowFits
  <2>5. RowsGrow /\ RowsFit' /\ id \in DOMAIN row' /\ row'[id] = s
    BY <1>1, <2>3, <2>4, RowChanges
  <2> QED
    BY <1>1, <2>2, <2>5
<1> QED
  BY <1>1, <1>3, <1>4 DEF Requested

LEMMA StopHandoffKeeps ==
  ASSUME TeamInv, NEW c \in Callers, NEW id \in DOMAIN branch[c], Stop(c, id)
  PROVE  TeamInv'
<1>1. UNCHANGED <<strategy, admitted, spent, caller>> /\ BudgetFits'
  BY BudgetStays DEF Stop, KeepBudget, KeepCalls, KeepCaller
<1>2. PICK b : b = branch[c][id]
  OBVIOUS
<1>3. b.at = "stop" /\ b.at \in WithRow /\ StageFits(id, b, b.at)
  BY <1>2, BranchIs DEF Stop, At, WithRow
<1>4. id \in DOMAIN row /\ row[id].payload = b.payload
  BY <1>3 DEF StageFits
<1>5. PICK s : s = Requested(row[id])
  OBVIOUS
<1>6. row' = [row EXCEPT ![id] = s]
  BY <1>5 DEF Stop
<1>7. RowsGrow /\ RowsFit' /\ id \in DOMAIN row' /\ row'[id].payload = b.payload
  BY <1>1, <1>4, <1>5, <1>6, RequestedIs
<1>8. CASE Raise(c, id)
  BY <1>1, <1>7, <1>8, Raises
<1>9. ASSUME NEW stage \in {"finish", "cancelled"}, Goto(c, id, stage) PROVE TeamInv'
  <2>1. StageFits(id, b, stage)'
    BY <1>1, <1>3, <1>7 DEF StageFits, BeforeTask, WithRow
  <2> QED
    BY <1>1, <1>2, <1>7, <1>9, <2>1, GoesTo
<1> QED
  BY <1>8, <1>9 DEF Stop

LEMMA PublishHandoffKeeps ==
  ASSUME TeamInv, NEW c \in Callers, NEW id \in DOMAIN branch[c], PublishHandoff(c, id)
  PROVE  TeamInv'
<1>1. PICK kind \in {"completed", "failed", "cancelled"} :
        /\ At(c, id, kind) /\ AddEvent(id, kind) /\ KeepBudget /\ KeepCalls
        /\ IF kind = "completed" THEN Give(c, id, branch[c][id].value) ELSE Raise(c, id)
  BY DEF PublishHandoff
<1>2. UNCHANGED <<strategy, admitted, spent, caller>> /\ BudgetFits'
  BY <1>1, BudgetStays DEF KeepBudget, KeepCalls, KeepCaller
<1>3. PICK b : b = branch[c][id]
  OBVIOUS
<1>4. b.at = kind /\ StageFits(id, b, b.at)
  BY <1>1, <1>3, BranchIs DEF At
<1>5. id \in DOMAIN row /\ row[id].payload = b.payload
  BY <1>4 DEF StageFits, WithRow
<1>6. /\ RowsGrow /\ RowsFit' /\ id \in DOMAIN row'
      /\ row'[id].payload = b.payload /\ row'[id].state = row[id].state
      /\ row'[id].result = row[id].result /\ kind \in row'[id].events
  BY <1>1, <1>2, <1>5, EventIs
<1>7. CASE kind = "completed"
  <2>1. PICK o : o = [id |-> id, payload |-> b.payload, value |-> b.value]
    OBVIOUS
  <2>2. o.id = id /\ o.payload = b.payload /\ o.value = b.value
    BY <2>1
  <2>3. Registered(o)'
    BY <1>4, <1>6, <1>7, <2>2 DEF Registered, StageFits
  <2>4. PICK value : value = b.value
    OBVIOUS
  <2>5. Give(c, id, value) /\ o = [id |-> id, payload |-> branch[c][id].payload, value |-> value]
    BY <1>1, <1>3, <1>7, <2>1, <2>4
  <2> QED
    BY <1>2, <1>6, <2>3, <2>5, Gives
<1>8. CASE kind # "completed"
  BY <1>1, <1>2, <1>6, <1>8, Raises
<1> QED
  BY <1>7, <1>8

-----------------------------------------------------------------------------
(* The steps of a caller, and of the surroundings *)

\* What a strategy dispatches next follows what the caller has been given.
LEMMA OfferedIs ==
  ASSUME TeamInv, NEW c \in Callers, caller[c].status = "active", NEW e \in Offered(c)
  PROVE  /\ e.id.sequence \in Nat /\ (IsChain => e.id.sequence = Len(out[c]))
         /\ FollowsParent(e.id, e.payload)
         /\ strategy = "external" => e.payload # Nothing
<1>1. PICK n : n = Len(out[c])
  OBVIOUS
<1>2. PICK S : out[c] \in Seq(S)
  BY DEF TeamInv, CallersFit
<1>3. n \in Nat /\ DOMAIN out[c] = 1 .. n
  BY <1>1, <1>2, LenProperties
<1>4. caller[c].input # Nothing
  BY RequestsExist DEF TeamInv, CallersFit
<1>5. Len(Chain) \in Nat /\ DOMAIN Chain = 1 .. Len(Chain)
  BY ChainIsSequence, LenProperties
<1>6. strategy \in {"sequential", "round_robin", "parallel", "map_reduce", "select", "swarm",
                    "external"}
  BY StrategiesKnown DEF TeamInv, CallersFit
<1>7. ASSUME NEW s, NEW f, NEW to, NEW p, NEW q
      PROVE  LET v == Envelope(s, f, to, p, q)
             IN  v.id.sequence = s /\ v.id.parent = p /\ v.payload = q
  BY DEF Envelope
<1>8. CASE e = First(c) /\ n = 0
  BY <1>1, <1>4, <1>7, <1>8 DEF First, FollowsParent
<1>9. ASSUME n # 0, NEW to, NEW q, e = After(c, n, to, q), IsChain => q = Last(c),
             strategy # "external"
      PROVE  /\ e.id.sequence = n /\ FollowsParent(e.id, e.payload)
  <2>1. PICK o : o = out[c][n]
    OBVIOUS
  <2>2. n \in DOMAIN out[c]
    BY <1>3, <1>9
  <2>3. IsChain => Registered(o)
    BY <2>1, <2>2 DEF TeamInv, OutcomesFit
  <2>4. e.id.sequence = n /\ e.id.parent = o.id /\ e.payload = q
    BY <1>7, <1>9, <2>1 DEF After
  <2>5. IsChain => q = o.value
    BY <1>1, <1>9, <2>1 DEF Last
  <2> QED
    BY <2>3, <2>4, <2>5 DEF FollowsParent, Registered
<1>10. CASE strategy \in {"sequential", "round_robin"}
  <2>1. Offered(c) = IF bad[c] # {} \/ n = Len(Rounds) THEN {}
                     ELSE IF n = 0 THEN {First(c)}
                     ELSE {After(c, n, Rounds[n + 1], Last(c))}
    BY <1>1, <1>10 DEF Offered
  <2>2. (n = 0 /\ e = First(c)) \/ (n # 0 /\ e = After(c, n, Rounds[n + 1], Last(c)))
    BY <2>1
  <2> QED
    BY <1>1, <1>3, <1>8, <1>9, <1>10, <2>2 DEF IsChain
<1>11. CASE strategy \in {"parallel", "map_reduce"}
  <2>1. \/ e \in Branches(c)
        \/ e = Envelope(Len(Chain), "coordinator", Chain[1], Nothing,
                        [k \in 1 .. Len(Chain) |-> out[c][k].value])
    BY <1>11 DEF Offered
  <2>2. e.id.sequence \in Nat
    <3>1. CASE e \in Branches(c)
      <4>1. PICK i \in DOMAIN Chain :
              e = Envelope(i - 1, "user", Chain[i], Nothing, caller[c].input)
        BY <3>1 DEF Branches
      <4>2. e.id.sequence = i - 1 /\ i \in Nat /\ i >= 1
        BY <1>5, <1>7, <4>1
      <4> QED
        BY <4>2
    <3> QED
      BY <1>5, <1>7, <2>1, <3>1
  <2> QED
    BY <1>11, <2>2 DEF IsChain, FollowsParent
<1>12. CASE strategy = "select"
  <2>1. Offered(c) = IF n = 0 /\ bad[c] = {} THEN {First(c)}
                     ELSE IF n = 1 /\ bad[c] = {} /\ Last(c) \in Members
                     THEN {After(c, 1, Last(c), caller[c].input)} ELSE {}
    BY <1>1, <1>12 DEF Offered
  <2>2. (n = 0 /\ e = First(c)) \/ (n = 1 /\ e = After(c, 1, Last(c), caller[c].input))
    BY <2>1
  <2> QED
    BY <1>3, <1>8, <1>9, <1>12, <2>2 DEF IsChain
<1>13. CASE strategy = "swarm"
  <2>1. Offered(c) = IF n = 0 /\ bad[c] = {} THEN {First(c)}
                     ELSE IF bad[c] = {} /\ n < MaxHops /\ Last(c) \in Members
                     THEN {After(c, n, Last(c), Last(c))} ELSE {}
    BY <1>1, <1>13 DEF Offered
  <2>2. (n = 0 /\ e = First(c)) \/ (n # 0 /\ e = After(c, n, Last(c), Last(c)))
    BY <2>1
  <2> QED
    BY <1>1, <1>3, <1>8, <1>9, <1>13, <2>2 DEF IsChain
<1>14. CASE strategy = "external"
  <2>1. Offered(c) = IF n = 0 THEN {First(c)} ELSE {}
    BY <1>1, <1>14 DEF Offered
  <2> QED
    BY <1>8, <2>1
<1> QED
  BY <1>6, <1>10, <1>11, <1>12, <1>13, <1>14

\* A chain has one dispatch under way, for what comes after its outcomes.
LEMMA DispatchKeeps ==
  ASSUME TeamInv, NEW c \in Callers, Dispatch(c)
  PROVE  TeamInv'
<1>1. UNCHANGED <<row, admitted, spent, strategy, caller, out>>
  BY DEF Dispatch, KeepStore, KeepCalls, KeepCaller, store
<1>2. RowsGrow /\ RowsFit' /\ BudgetFits'
  BY <1>1, RowsStay, BudgetStays
<1>3. PICK e \in Wanted(c) :
        /\ e.id \notin DOMAIN branch[c]
        /\ branch' = [branch EXCEPT ![c] = With(@, e.id,
             [at |-> IF strategy = "external" THEN "task" ELSE "preflight",
              payload |-> e.payload, token |-> 0, value |-> Nothing,
              signal |-> "none", seen |-> Nothing])]
  BY DEF Dispatch
<1>4. PICK b : b = [at |-> IF strategy = "external" THEN "task" ELSE "preflight",
                    payload |-> e.payload, token |-> 0, value |-> Nothing,
                    signal |-> "none", seen |-> Nothing]
  OBVIOUS
<1>5. /\ DOMAIN branch' = Callers /\ branch'[c] = With(branch[c], e.id, b)
      /\ \A d \in Callers : d # c => branch'[d] = branch[d]
  BY <1>3, <1>4 DEF TeamInv, CallersFit
<1>6. /\ DOMAIN branch'[c] = DOMAIN branch[c] \cup {e.id} /\ branch'[c][e.id] = b
      /\ \A i \in DOMAIN branch[c] : branch'[c][i] = branch[c][i]
  BY <1>3, <1>5 DEF With
<1>7. /\ e.id.sequence \in Nat /\ (IsChain => e.id.sequence = Len(out[c]))
      /\ FollowsParent(e.id, e.payload)
      /\ strategy = "external" => e.payload # Nothing
  BY OfferedIs DEF Wanted, Dispatch
<1>8. IsChain => DOMAIN branch[c] = {}
  <2>1. IsFiniteSet(DOMAIN branch[c])
    BY DEF TeamInv, CallersFit
  <2>2. IsChain => Cardinality(DOMAIN branch[c]) < 1
    BY DEF Dispatch, IsChain
  <2> QED
    BY <2>1, <2>2, FS_CardinalityType, FS_EmptySet
<1>9. CallersFit'
  <2>1. \A d \in Callers : IsFiniteSet(DOMAIN branch'[d])
    <3>1. \A d \in Callers : IsFiniteSet(DOMAIN branch[d])
      BY DEF TeamInv, CallersFit
    <3>2. IsFiniteSet(DOMAIN branch[c] \cup {e.id})
      BY <3>1, FS_AddElement
    <3> QED
      BY <1>5, <1>6, <3>1, <3>2
  <2>2. \A d \in Callers :
          /\ DOMAIN caller'[d] = {"status", "input", "stopped"}
          /\ caller'[d].status = "active" => caller'[d].input \in Inputs
          /\ \E S : out'[d] \in Seq(S)
    BY <1>1 DEF TeamInv, CallersFit
  <2>3. \A d \in Callers : caller'[d].status # "active" => DOMAIN branch'[d] = {}
    BY <1>1, <1>5 DEF TeamInv, CallersFit, Dispatch
  <2>4. \A d \in Callers : IsChain => \A i, j \in DOMAIN branch'[d] : i = j
    BY <1>5, <1>6, <1>8 DEF TeamInv, CallersFit
  <2>5. strategy' \in Strategies /\ DOMAIN out' = Callers /\ DOMAIN caller' = Callers
    BY <1>1 DEF TeamInv, CallersFit
  <2> QED
    BY <1>1, <1>5, <2>1, <2>2, <2>3, <2>4, <2>5 DEF CallersFit, IsChain
<1>10. BranchesFit'
  <2> SUFFICES ASSUME NEW d \in Callers, NEW i \in DOMAIN branch'[d]
               PROVE  BranchFits(d, i, branch[d][i])'
    BY DEF BranchesFit
  <2>1. CASE d = c /\ i = e.id
    <3>1. /\ DOMAIN b = BranchFields /\ b.payload = e.payload
          /\ b.at = IF strategy = "external" THEN "task" ELSE "preflight"
      BY <1>4 DEF BranchFields
    <3>2. StageFits(i, b, b.at)
      BY <1>7, <3>1 DEF StageFits, BeforeTask, WithRow
    <3>3. FollowsParent(i, b.payload)
      BY <1>7, <2>1, <3>1
    <3>4. BranchFits(d, i, b)
      BY <1>7, <2>1, <3>1, <3>2, <3>3 DEF BranchFits
    <3>5. BranchFits(d, i, b)'
      BY <1>1, <1>2, <3>4, BranchStill
    <3> QED
      BY <1>6, <2>1, <3>5
  <2>2. CASE ~(d = c /\ i = e.id)
    <3>1. i \in DOMAIN branch[d] /\ branch'[d][i] = branch[d][i]
      BY <1>5, <1>6, <2>2
    <3>2. PICK a : a = branch[d][i]
      OBVIOUS
    <3>3. BranchFits(d, i, a)
      BY <3>1, <3>2 DEF TeamInv, BranchesFit
    <3>4. BranchFits(d, i, a)'
      BY <1>1, <1>2, <3>3, BranchStill
    <3> QED
      BY <3>1, <3>2, <3>4
  <2> QED
    BY <2>1, <2>2
<1> QED
  BY <1>1, <1>2, <1>9, <1>10, OutcomesStay DEF TeamInv

\* A caller whose dispatches are over starts anew, returns or is gone.
LEMMA CallersChange ==
  ASSUME TeamInv, UNCHANGED <<row, admitted, spent, strategy>>, NEW c \in Callers,
         NEW k, DOMAIN k = {"status", "input", "stopped"}, k.status = "active" => k.input \in Inputs,
         caller' = [caller EXCEPT ![c] = k],
         branch' = branch \/ branch' = [branch EXCEPT ![c] = <<>>],
         out' = out \/ out' = [out EXCEPT ![c] = <<>>],
         out' # out \/ k.status # "active" => DOMAIN branch'[c] = {}
  PROVE  TeamInv'
<1>1. RowsGrow /\ RowsFit' /\ BudgetFits'
  BY RowsStay, BudgetStays
<1>2. /\ DOMAIN branch = Callers /\ DOMAIN out = Callers /\ DOMAIN caller = Callers
  BY DEF TeamInv, CallersFit
<1>3. DOMAIN branch' = Callers /\ DOMAIN out' = Callers /\ DOMAIN caller' = Callers
  BY <1>2
<1>4. caller'[c] = k /\ \A d \in Callers : d # c => caller'[d] = caller[d]
  BY <1>2
<1>5. \A d \in Callers : d # c => out'[d] = out[d] /\ branch'[d] = branch[d]
  BY <1>2
<1>6. DOMAIN <<>> = {} /\ <<>> \in Seq({})
  OBVIOUS
<1>7. branch'[c] = branch[c] \/ DOMAIN branch'[c] = {}
  BY <1>2, <1>6
<1>8. (out'[c] = out[c] \/ out'[c] = <<>>) /\ (DOMAIN branch'[c] # {} => out' = out)
  BY <1>2
<1>9. CallersFit'
  <2>1. \A d \in Callers :
          /\ DOMAIN caller'[d] = {"status", "input", "stopped"}
          /\ caller'[d].status = "active" => caller'[d].input \in Inputs
    BY <1>4 DEF TeamInv, CallersFit
  <2>2. \A d \in Callers : caller'[d].status # "active" => DOMAIN branch'[d] = {}
    BY <1>4, <1>5 DEF TeamInv, CallersFit
  <2>3. \A d \in Callers : IsFiniteSet(DOMAIN branch'[d])
    BY <1>5, <1>7, FS_EmptySet DEF TeamInv, CallersFit
  <2>4. \A d \in Callers : IsChain => \A i, j \in DOMAIN branch'[d] : i = j
    BY <1>5, <1>7 DEF TeamInv, CallersFit
  <2>5. \A d \in Callers : \E S : out'[d] \in Seq(S)
    <3> SUFFICES ASSUME NEW d \in Callers PROVE \E S : out'[d] \in Seq(S)
      OBVIOUS
    <3>1. PICK S : out[d] \in Seq(S)
      BY DEF TeamInv, CallersFit
    <3>2. out'[d] = out[d] \/ out'[d] = <<>>
      BY <1>5, <1>8
    <3> QED
      BY <1>6, <3>1, <3>2
  <2>6. strategy' \in Strategies
    BY DEF TeamInv, CallersFit
  <2> QED
    BY <1>3, <2>1, <2>2, <2>3, <2>4, <2>5, <2>6 DEF CallersFit, IsChain
<1>10. BranchesFit'
  <2> SUFFICES ASSUME NEW d \in Callers, NEW i \in DOMAIN branch'[d]
               PROVE  BranchFits(d, i, branch[d][i])'
    BY DEF BranchesFit
  <2>1. branch'[d] = branch[d] /\ out'[d] = out[d]
    BY <1>5, <1>7, <1>8
  <2>2. PICK a : a = branch[d][i]
    OBVIOUS
  <2>3. BranchFits(d, i, a)
    BY <2>1, <2>2 DEF TeamInv, BranchesFit
  <2>4. BranchFits(d, i, a)'
    BY <1>1, <2>1, <2>3, BranchStill
  <2> QED
    BY <2>1, <2>2, <2>4
<1>11. OutcomesFit'
  <2> SUFFICES ASSUME NEW d \in Callers, NEW i \in DOMAIN out'[d],
                      IsChain \/ out'[d][i] # Nothing
               PROVE  Registered(out[d][i])'
    BY <1>1 DEF OutcomesFit, RowsGrow, IsChain
  <2>1. out'[d] = out[d]
    BY <1>5, <1>6, <1>8
  <2>2. PICK o : o = out[d][i]
    OBVIOUS
  <2>3. Registered(o)
    BY <2>1, <2>2 DEF TeamInv, OutcomesFit
  <2>4. Registered(o)'
    BY <1>1, <2>3, RegisteredStill
  <2> QED
    BY <2>1, <2>2, <2>4 DEF Registered
<1> QED
  BY <1>1, <1>9, <1>10, <1>11 DEF TeamInv

LEMMA CallKeeps ==
  ASSUME TeamInv, NEW c \in Callers, NEW input \in Inputs, Call(c, input)
  PROVE  TeamInv'
<1>1. UNCHANGED <<row, admitted, spent, strategy>> /\ branch' = branch
  BY DEF Call, store
<1>2. PICK k : k = [status |-> "active", input |-> input, stopped |-> FALSE]
  OBVIOUS
<1>3. DOMAIN k = {"status", "input", "stopped"} /\ k.input \in Inputs
  BY <1>2
<1>4. caller' = [caller EXCEPT ![c] = k] /\ out' = [out EXCEPT ![c] = <<>>]
  BY <1>2 DEF Call
<1>5. DOMAIN branch'[c] = {}
  BY <1>1 DEF Call, TeamInv, CallersFit
<1> QED
  BY <1>1, <1>3, <1>4, <1>5, CallersChange

LEMMA StopParentKeeps ==
  ASSUME TeamInv, NEW c \in Callers, StopParent(c)
  PROVE  TeamInv'
<1>1. UNCHANGED <<row, admitted, spent, strategy>> /\ branch' = branch /\ out' = out
  BY DEF StopParent, store
<1>2. PICK k : k = [caller[c] EXCEPT !.stopped = TRUE]
  OBVIOUS
<1>3. /\ DOMAIN k = {"status", "input", "stopped"} /\ k.status = "active" /\ k.input \in Inputs
  BY <1>2 DEF StopParent, TeamInv, CallersFit
<1>4. caller' = [caller EXCEPT ![c] = k]
  BY <1>2 DEF StopParent
<1> QED
  BY <1>1, <1>3, <1>4, CallersChange

LEMMA ReturnKeeps ==
  ASSUME TeamInv, NEW c \in Callers, Return(c)
  PROVE  TeamInv'
<1>1. UNCHANGED <<row, admitted, spent, strategy>> /\ branch' = branch /\ out' = out
  BY DEF Return, store
<1>2. PICK status : status = IF Wanted(c) = {} /\ Succeeded(c) THEN "done" ELSE "failed"
  OBVIOUS
<1>3. PICK k : k = [caller[c] EXCEPT !.status = status]
  OBVIOUS
<1>4. DOMAIN k = {"status", "input", "stopped"} /\ k.status # "active"
  BY <1>2, <1>3 DEF TeamInv, CallersFit
<1>5. caller' = [caller EXCEPT ![c] = k]
  BY <1>2, <1>3 DEF Return
<1>6. DOMAIN branch'[c] = {}
  BY <1>1 DEF Return
<1> QED
  BY <1>1, <1>4, <1>5, <1>6, CallersChange

LEMMA CrashKeeps ==
  ASSUME TeamInv, NEW c \in Callers, Crash(c)
  PROVE  TeamInv'
<1>1. /\ UNCHANGED <<row, admitted, spent, strategy>>
      /\ branch' = [branch EXCEPT ![c] = <<>>] /\ out' = [out EXCEPT ![c] = <<>>]
  BY DEF Crash, store
<1>2. PICK k : k = [caller[c] EXCEPT !.status = "off"]
  OBVIOUS
<1>3. DOMAIN k = {"status", "input", "stopped"} /\ k.status # "active"
  BY <1>2 DEF TeamInv, CallersFit
<1>4. caller' = [caller EXCEPT ![c] = k]
  BY <1>2 DEF Crash
<1>5. branch'[c] = <<>>
  BY <1>1 DEF TeamInv, CallersFit
<1>6. DOMAIN branch'[c] = {}
  BY <1>5
<1> QED
  BY <1>1, <1>3, <1>4, <1>6, CallersChange

\* What only the rows are about leaves the callers be.
LEMMA OnlyRows ==
  ASSUME TeamInv, RowsGrow, RowsFit', UNCHANGED <<admitted, spent, caller, out, branch>>
  PROVE  TeamInv'
<1>1. CallersFit'
  BY DEF TeamInv, CallersFit, RowsGrow, IsChain
<1>2. BranchesFit'
  <2> SUFFICES ASSUME NEW d \in Callers, NEW i \in DOMAIN branch[d]
               PROVE  BranchFits(d, i, branch[d][i])'
    BY DEF BranchesFit
  <2>1. PICK a : a = branch[d][i]
    OBVIOUS
  <2>2. BranchFits(d, i, a)
    BY <2>1 DEF TeamInv, BranchesFit
  <2>3. BranchFits(d, i, a)'
    BY <2>2, BranchStill
  <2> QED
    BY <2>1, <2>3
<1>3. OutcomesFit' /\ BudgetFits'
  BY OutcomesStay, BudgetStays
<1> QED
  BY <1>1, <1>2, <1>3 DEF TeamInv

LEMMA SurroundingsKeep ==
  ASSUME TeamInv, NEW id \in DOMAIN row,
         Expire(id) \/ CancelHandoff(id) \/ \E allow \in BOOLEAN : Resolve(id, allow)
  PROVE  TeamInv'
<1>1. UNCHANGED <<strategy, admitted, spent, caller, out, branch>>
  BY DEF Expire, CancelHandoff, Resolve, KeepBudget, KeepCalls, KeepCaller
<1>2. PICK r : r = row[id]
  OBVIOUS
<1>3. RowFits(id, r) /\ Later(row[id], row[id]) /\ DOMAIN r = RowFields
  BY <1>2, LaterItself DEF TeamInv, RowsFit, RowFits
<1>4. CASE CancelHandoff(id)
  <2>1. PICK s : s = Requested(row[id])
    OBVIOUS
  <2>2. row' = [row EXCEPT ![id] = s]
    BY <1>4, <2>1 DEF CancelHandoff
  <2> QED
    BY <1>1, <2>1, <2>2, RequestedIs, OnlyRows
<1>5. ASSUME NEW s, row' = [row EXCEPT ![id] = s], DOMAIN s = RowFields,
             s.payload = r.payload, s.result = r.result, s.attempt = r.attempt,
             s.calls = r.calls, s.cancel = r.cancel, s.cancelledAt = r.cancelledAt,
             s.events = r.events,
             s.state = r.state \/ (r.state # "completed" /\ s.state # "completed")
      PROVE  TeamInv'
  <2>1. Later(row[id], s)
    BY <1>2, <1>3, <1>5 DEF Later
  <2>2. RowFits(id, s)
    BY <1>3, <1>5 DEF RowFits
  <2>3. RowsGrow /\ RowsFit'
    BY <1>1, <1>5, <2>1, <2>2, RowChanges
  <2> QED
    BY <1>1, <2>3, OnlyRows
<1>6. CASE Expire(id)
  <2>1. PICK s : s = [r EXCEPT !.expired = TRUE]
    OBVIOUS
  <2>2. row' = [row EXCEPT ![id] = s]
    BY <1>2, <1>6, <2>1 DEF Expire
  <2>3. /\ DOMAIN s = RowFields /\ s.payload = r.payload /\ s.result = r.result
        /\ s.attempt = r.attempt /\ s.calls = r.calls /\ s.cancel = r.cancel
        /\ s.cancelledAt = r.cancelledAt /\ s.events = r.events /\ s.state = r.state
    BY <1>3, <2>1 DEF RowFields
  <2> QED
    BY <1>5, <2>2, <2>3
<1>7. ASSUME NEW allow \in BOOLEAN, Resolve(id, allow) PROVE TeamInv'
  <2>1. PICK to : to = IF allow THEN "pending" ELSE "cancelled"
    OBVIOUS
  <2>2. PICK s : s = [r EXCEPT !.state = to]
    OBVIOUS
  <2>3. row' = [row EXCEPT ![id] = s] /\ r.state = "waiting"
    BY <1>2, <1>7, <2>1, <2>2 DEF Resolve
  <2>4. /\ DOMAIN s = RowFields /\ s.payload = r.payload /\ s.result = r.result
        /\ s.attempt = r.attempt /\ s.calls = r.calls /\ s.cancel = r.cancel
        /\ s.cancelledAt = r.cancelledAt /\ s.events = r.events /\ s.state # "completed"
    BY <1>3, <2>1, <2>2 DEF RowFields
  <2> QED
    BY <1>5, <2>3, <2>4
<1> QED
  BY <1>4, <1>6, <1>7

-----------------------------------------------------------------------------
(* The invariant, and what follows from it *)

LEMMA DispatchStepKeeps ==
  ASSUME TeamInv, NEW c \in Callers, NEW id \in DOMAIN branch[c], DispatchStep(c, id)
  PROVE  TeamInv'
BY PreflightKeeps, ReserveKeeps, CreateTaskKeeps, CreateRunKeeps, FixRequestKeeps,
   InspectRowKeeps, ClaimHandoffKeeps, StartHandoffKeeps, WorkingKeeps, SettlementsKeep,
   StopHandoffKeeps, PublishHandoffKeeps DEF DispatchStep

LEMMA TeamInvNext ==
  ASSUME TeamInv, [TeamNext]_teamVars PROVE TeamInv'
<1>1. ASSUME NEW c \in Callers, NEW i \in Inputs, Call(c, i) PROVE TeamInv'
  BY <1>1, CallKeeps
<1>2. ASSUME NEW c \in Callers, StopParent(c) \/ Return(c) \/ Crash(c) \/ Dispatch(c)
      PROVE  TeamInv'
  BY <1>2, StopParentKeeps, ReturnKeeps, CrashKeeps, DispatchKeeps
<1>3. ASSUME NEW c \in Callers, NEW id \in DOMAIN branch[c], DispatchStep(c, id)
      PROVE  TeamInv'
  BY <1>3, DispatchStepKeeps
<1>4. ASSUME NEW id \in DOMAIN row,
             Expire(id) \/ CancelHandoff(id) \/ \E allow \in BOOLEAN : Resolve(id, allow)
      PROVE  TeamInv'
  BY <1>4, SurroundingsKeep
<1>5. CASE UNCHANGED teamVars
  <2>1. UNCHANGED <<strategy, row, admitted, spent, caller, out, branch>>
    BY <1>5 DEF teamVars, store
  <2>2. RowsGrow /\ RowsFit'
    BY <2>1, RowsStay
  <2> QED
    BY <2>1, <2>2, OnlyRows
<1> QED
  BY <1>1, <1>2, <1>3, <1>4, <1>5 DEF TeamNext

\* The inductive invariant gives the properties of a team.
LEMMA TeamInvIsSound ==
  ASSUME TeamInv PROVE TeamSound
<1>1. OutcomesRecorded
  <2> SUFFICES ASSUME NEW c \in Callers, NEW o \in Given(c)
               PROVE  Registered(o)
    BY DEF OutcomesRecorded, Registered
  <2>1. PICK k \in DOMAIN out[c] : o = out[c][k] /\ o # Nothing
    BY DEF Given, AnsweredBy
  <2> QED
    BY <2>1 DEF TeamInv, OutcomesFit
<1>2. ChainFollowsRecord
  <2> SUFFICES ASSUME IsChain, NEW id \in DOMAIN row, id.parent # Nothing
               PROVE  /\ row[id.parent].state = "completed"
                      /\ row[id].payload = row[id.parent].result.value
    BY DEF ChainFollowsRecord, IsChain
  <2>1. FollowsParent(id, row[id].payload)
    BY DEF TeamInv, RowsFit, RowFits
  <2> QED
    BY <2>1 DEF FollowsParent
<1>3. BudgetCoversWork
  BY DEF TeamInv, RowsFit, RowFits, BudgetFits, BudgetCoversWork
<1>4. CancelledNotCalledAgain
  BY DEF TeamInv, RowsFit, RowFits, CancelledNotCalledAgain, SettledOnly
<1> QED
  BY <1>1, <1>2, <1>3, <1>4 DEF TeamSound, AgreedOutcomes

\* Whatever callers race, crash and call again with other inputs, and whatever leases
\* run out and handoffs are cancelled under them, the outcomes a caller holds are those of
\* the store, a step of a chain was asked what the one before it answered, the budget
\* holds and covers the work, and no attempt after a cancellation calls a member.
THEOREM TeamIsSound == TeamSpec => []TeamSound
<1>1. TeamInit => TeamInv
  BY TeamInvInit
<1>2. TeamInv /\ [TeamNext]_teamVars => TeamInv'
  BY TeamInvNext
<1>3. TeamInv => TeamSound
  BY TeamInvIsSound
<1> QED
  BY <1>1, <1>2, <1>3, PTL DEF TeamSpec
=============================================================================
