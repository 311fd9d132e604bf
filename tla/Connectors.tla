----------------------------- MODULE Connectors -----------------------------
(***************************************************************************)
(* The first-party connectors that write to providers over one             *)
(* OperationJournal: HttpClient (lipas/http_client.py), MCPClient with its *)
(* MCPHttpClient (lipas/integrations/mcp.py) and EmailConnector            *)
(* (lipas/email.py).  Each prepares a row, sends, and turns what came back *)
(* into an outcome of the row, and each decides differently what an answer *)
(* proves.  The journal's own races are OperationJournal's; here is what   *)
(* the connectors make of them.                                            *)
(*                                                                         *)
(* As there, a provider applies a write while the call is in progress or   *)
(* never, and tells the truth when it is asked.                            *)
(***************************************************************************)
EXTENDS Naturals

CONSTANTS
  Clients,         \* processes, each with a client of every channel
  WriteKeys,       \* idempotency keys
  Bodies,          \* what a write asks for
  MaxRequests,     \* RateLimitPolicy.max_requests of an HttpClient
  MaxId,           \* bound on the JSON-RPC ids a client uses
  MaxWriteFaults,  \* bound on crashes
  Nothing

\* What a caller is told that is no result.
Verdicts == {"other operation", "reconcile first", "throttled", "uncertain",
             "failed", "settled by another"}

ASSUME BodiesAreResults ==
  /\ Bodies \cap (Verdicts \cup {"rpc error"}) = {}
  /\ Nothing \notin Bodies \cup Verdicts \cup {"rpc error"}
ASSUME RequestsAreCounted == {MaxRequests, MaxId, MaxWriteFaults} \subseteq Nat

VARIABLES
  writeRow,       \* operations.state of each key, "none" before the insert
  request,        \* its kind and request_json
  result,         \* its result_json
  writing,        \* idle, owner (its row is inserted), sent, back (it has answer)
  call,           \* the call a client is in, or was in last
  answer,         \* what came back from the provider
  told,           \* what the caller was told of its last call
  nextId,         \* MCPClient._next_id
  window,         \* requests in the window of the client's RateLimitPolicy
  inquiry,        \* a reconciler: idle, asking, found, missing, raised
  inquired,
  askedEarly,     \* history: keys looked up while their submission was running
  sends,          \* history: submissions of each key
  appliedWrites,  \* external: the keys whose write the provider applied
  writeFaults

rowVars == <<writeRow, request, result>>
client == <<writing, call, answer, told, nextId, window>>
reconciler == <<inquiry, inquired, askedEarly>>
world == <<sends, appliedWrites>>
writesVars == <<rowVars, client, reconciler, world, writeFaults>>

Channels == {"http", "mcp", "email"}

\* What a provider can answer: the write's result, a refusal (HTTP 4xx, not
\* accepted), a server error (5xx), a JSON-RPC error in a good response; an
\* answer that fails the connector's checks (redirect, other origin, status
\* or body that is none, no reference); or the call raises.
Answers == {"ok", "refused", "server_error", "rpc_error", "malformed", "raised"}

AnswersOf(channel) ==
  CASE channel = "http" -> Answers \ {"rpc_error"}
    [] channel = "mcp" -> Answers
    [] channel = "email" -> {"ok", "refused", "malformed", "raised"}

-----------------------------------------------------------------------------
WritesInit ==
  /\ writeRow = [k \in WriteKeys |-> "none"]
  /\ request = [k \in WriteKeys |-> Nothing]
  /\ result = [k \in WriteKeys |-> Nothing]
  /\ writing = [c \in Clients |-> "idle"]
  /\ call = [c \in Clients |-> Nothing]
  /\ answer = [c \in Clients |-> Nothing]
  /\ told = [c \in Clients |-> Nothing]
  /\ nextId = [c \in Clients |-> 0]
  /\ window = [c \in Clients |-> 0]
  /\ inquiry = "idle" /\ inquired = Nothing /\ askedEarly = {}
  /\ sends = [k \in WriteKeys |-> 0]
  /\ appliedWrites = {}
  /\ writeFaults = 0

-----------------------------------------------------------------------------
(* The row of an operation *)

\* The digest in an MCP row covers the whole JSON-RPC message, its id too.
RequestOf(channel, p, id) ==
  [kind |-> channel, payload |-> p, id |-> IF channel = "mcp" THEN id ELSE 0]

SameRequest(k, r) == request[k] = r

\* _prepare and what each connector does when it does not own the row: a row
\* of another request raises, a success is answered from the row, and anything
\* else must be reconciled first.
CallConnector(c, k, channel, p) ==
  /\ writing[c] = "idle"
  /\ channel = "mcp" => nextId[c] < MaxId
  /\ LET r == RequestOf(channel, p, nextId[c] + 1)
         owns == writeRow[k] = "none"
     IN
     /\ nextId' = [nextId EXCEPT ![c] = IF channel = "mcp" THEN @ + 1 ELSE @]
     /\ call' = [call EXCEPT ![c] = [key |-> k, channel |-> channel, payload |-> p]]
     /\ writing' = [writing EXCEPT ![c] = IF owns THEN "owner" ELSE "idle"]
     /\ writeRow' = [writeRow EXCEPT ![k] = IF owns THEN "pending" ELSE @]
     /\ request' = [request EXCEPT ![k] = IF owns THEN r ELSE @]
     /\ told' = [told EXCEPT ![c] =
          IF owns THEN Nothing
          ELSE IF ~SameRequest(k, r) THEN "other operation"
          ELSE IF writeRow[k] = "succeeded" THEN result[k]
          ELSE "reconcile first"]
  /\ UNCHANGED <<result, answer, window, reconciler, world, writeFaults>>

-----------------------------------------------------------------------------
(* Sending *)

\* RateLimitPolicy.acquire runs after the row is inserted and outside the try:
\* a throttled write raises and its row stays pending, with nothing sent.
Throttled(c) == call[c].channel = "http" /\ window[c] = MaxRequests

Send(c) ==
  /\ writing[c] = "owner"
  /\ IF Throttled(c)
     THEN /\ told' = [told EXCEPT ![c] = "throttled"]
          /\ writing' = [writing EXCEPT ![c] = "idle"]
          /\ UNCHANGED <<window, sends>>
     ELSE /\ writing' = [writing EXCEPT ![c] = "sent"]
          /\ window' = [window EXCEPT ![c] =
               IF call[c].channel = "http" THEN @ + 1 ELSE @]
          /\ sends' = [sends EXCEPT ![call[c].key] = @ + 1]
          /\ UNCHANGED told
  /\ UNCHANGED <<rowVars, call, answer, nextId, reconciler, appliedWrites, writeFaults>>

\* window_s passes for the oldest request of the window.
WindowMoves(c) ==
  /\ window[c] > 0
  /\ window' = [window EXCEPT ![c] = @ - 1]
  /\ UNCHANGED <<rowVars, writing, call, answer, told, nextId, reconciler, world,
                 writeFaults>>

\* External: the provider applies a write it has received.
ProviderWrites(k) ==
  /\ \E c \in Clients : writing[c] = "sent" /\ call[c].key = k
  /\ appliedWrites' = appliedWrites \cup {k}
  /\ UNCHANGED <<rowVars, client, reconciler, sends, writeFaults>>

\* External: it answers.  Only a result says that the write was applied, and
\* only a refusal that it was not.
ProviderAnswers(c) ==
  /\ writing[c] = "sent"
  /\ \E a \in AnswersOf(call[c].channel) :
       /\ a = "ok" => call[c].key \in appliedWrites
       /\ a = "refused" => call[c].key \notin appliedWrites
       /\ answer' = [answer EXCEPT ![c] = a]
  /\ writing' = [writing EXCEPT ![c] = "back"]
  /\ UNCHANGED <<rowVars, call, told, nextId, window, reconciler, world, writeFaults>>

-----------------------------------------------------------------------------
(* What an answer proves *)

\* Mutant: HttpClient takes a server error for a refusal, as MCPHttpClient does.
OutcomeOf_ServerErrorFails(channel, a) ==
  CASE a \in {"ok", "rpc_error"} -> "succeeded"
    [] a \in {"refused", "server_error"} -> "failed"
    [] OTHER -> "uncertain"

\* _send raises on a 5xx, MCPHttpClient.send fails the row on any status from
\* 400 on, and settles whatever JSON-RPC object answers the request's id.
OutcomeOf(channel, a) ==
  CASE a \in {"ok", "rpc_error"} -> "succeeded"
    [] a = "refused" \/ (a = "server_error" /\ channel = "mcp") -> "failed"
    [] OTHER -> "uncertain"

SettlesFrom(outcome) ==
  IF outcome = "uncertain" THEN {"pending"} ELSE {"pending", "uncertain"}

\* The result that is written on the row with a success.
ResultOf(c) == IF answer[c] = "ok" THEN call[c].payload ELSE "rpc error"

\* settle, fail or mark_uncertain, and what the caller is told.  A reconciler
\* may have settled the row meanwhile: its outcome stays, and the caller gets
\* an error even if its own answer was the same success, unless the two wrote
\* the same result.
Record(c) ==
  /\ writing[c] = "back"
  /\ LET k == call[c].key
         outcome == OutcomeOf(call[c].channel, answer[c])
         accepted == writeRow[k] \in SettlesFrom(outcome)
         same == writeRow[k] = outcome /\ outcome = "succeeded" /\ result[k] = ResultOf(c)
     IN
     /\ writeRow' = [writeRow EXCEPT ![k] = IF accepted THEN outcome ELSE @]
     /\ result' = [result EXCEPT ![k] =
          IF accepted /\ outcome = "succeeded" THEN ResultOf(c) ELSE @]
     /\ \E t \in IF outcome = "uncertain" THEN {"uncertain"}
                 ELSE IF accepted
                 THEN {IF outcome = "failed" THEN "failed" ELSE ResultOf(c)}
                 ELSE {"settled by another"} \cup (IF same THEN {ResultOf(c)} ELSE {}) :
          told' = [told EXCEPT ![c] = t]
  /\ writing' = [writing EXCEPT ![c] = "idle"]
  /\ answer' = [answer EXCEPT ![c] = Nothing]
  /\ UNCHANGED <<request, call, nextId, window, reconciler, world, writeFaults>>

\* The process dies; it starts again with clients that know nothing.
ClientDies(c) ==
  /\ writeFaults < MaxWriteFaults
  /\ writeFaults' = writeFaults + 1
  /\ writing' = [writing EXCEPT ![c] = "idle"]
  /\ call' = [call EXCEPT ![c] = Nothing]
  /\ answer' = [answer EXCEPT ![c] = Nothing]
  /\ told' = [told EXCEPT ![c] = Nothing]
  /\ nextId' = [nextId EXCEPT ![c] = 0]
  /\ window' = [window EXCEPT ![c] = 0]
  /\ UNCHANGED <<rowVars, reconciler, world>>

-----------------------------------------------------------------------------
(* reconcile *)

InFlight(k) == \E c \in Clients : writing[c] \in {"owner", "sent"} /\ call[c].key = k

StartLookup(k) ==
  /\ inquiry = "idle"
  /\ writeRow[k] \in {"pending", "uncertain"}
  /\ inquiry' = "asking" /\ inquired' = k
  /\ askedEarly' = IF InFlight(k) THEN askedEarly \cup {k} ELSE askedEarly
  /\ UNCHANGED <<rowVars, client, world, writeFaults>>

\* The provider's answer, or an exception: the lookup fails, or an email was
\* found without a provider reference.
LookUpWrite ==
  /\ inquiry = "asking"
  /\ \E a \in {"raised", IF inquired \in appliedWrites THEN "found" ELSE "missing"} :
       inquiry' = a
  /\ UNCHANGED <<rowVars, client, inquired, askedEarly, world, writeFaults>>

RecordAnswer ==
  /\ inquiry \in {"found", "missing", "raised"}
  /\ LET outcome == CASE inquiry = "found" -> "succeeded"
                      [] inquiry = "missing" -> "failed"
                      [] inquiry = "raised" -> "uncertain"
         accepted == writeRow[inquired] \in SettlesFrom(outcome)
     IN
     /\ writeRow' = [writeRow EXCEPT ![inquired] = IF accepted THEN outcome ELSE @]
     /\ result' = [result EXCEPT ![inquired] =
          IF accepted /\ inquiry = "found" THEN request[inquired].payload ELSE @]
  /\ inquiry' = "idle" /\ inquired' = Nothing
  /\ UNCHANGED <<request, client, askedEarly, world, writeFaults>>

-----------------------------------------------------------------------------
WritesNext ==
  \/ \E c \in Clients :
       \/ \E k \in WriteKeys, channel \in Channels, p \in Bodies : CallConnector(c, k, channel, p)
       \/ Send(c) \/ WindowMoves(c) \/ ProviderAnswers(c) \/ Record(c) \/ ClientDies(c)
  \/ \E k \in WriteKeys : ProviderWrites(k) \/ StartLookup(k)
  \/ LookUpWrite \/ RecordAnswer

WritesSpec == WritesInit /\ [][WritesNext]_writesVars

-----------------------------------------------------------------------------
(* Properties *)

WritesTypeOK ==
  /\ writeRow \in [WriteKeys -> {"none", "pending", "uncertain", "succeeded", "failed"}]
  /\ request \in [WriteKeys -> {Nothing} \cup
       [kind : Channels, payload : Bodies, id : 0 .. MaxId]]
  /\ result \in [WriteKeys -> {Nothing, "rpc error"} \cup Bodies]
  /\ writing \in [Clients -> {"idle", "owner", "sent", "back"}]
  /\ call \in [Clients -> {Nothing} \cup
       [key : WriteKeys, channel : Channels, payload : Bodies]]
  /\ answer \in [Clients -> Answers \cup {Nothing}]
  /\ told \in [Clients -> Bodies \cup Verdicts \cup {"rpc error", Nothing}]
  /\ nextId \in [Clients -> 0 .. MaxId] /\ window \in [Clients -> 0 .. MaxRequests]
  /\ inquiry \in {"idle", "asking", "found", "missing", "raised"}
  /\ inquired \in WriteKeys \cup {Nothing} /\ askedEarly \subseteq WriteKeys
  /\ sends \in [WriteKeys -> Nat] /\ appliedWrites \subseteq WriteKeys
  /\ writeFaults \in 0 .. MaxWriteFaults

\* Whatever channel, client, crash or reconciler a key meets, one write is
\* submitted for it.
OneSubmission == \A k \in WriteKeys : sends[k] <= 1

\* A row says what the provider did.  Two things it does not say: an MCP row may
\* be failed on a server error, or succeeded on a JSON-RPC error, over a write
\* that was applied or was not; and a lookup during the submission may have
\* failed the row too early.
RowsTellTheWorld ==
  \A k \in WriteKeys :
    /\ writeRow[k] = "succeeded" /\ result[k] # "rpc error" => k \in appliedWrites
    /\ writeRow[k] = "failed" /\ request[k].kind # "mcp" /\ k \notin askedEarly =>
         k \notin appliedWrites

\* A caller that is told a result is told that of the write it asked for: it
\* was applied, with this payload, and is on the row.
ToldTheTruth ==
  \A c \in Clients :
    told[c] \in Bodies =>
      /\ told[c] = call[c].payload /\ call[c].key \in appliedWrites
      /\ writeRow[call[c].key] = "succeeded" /\ result[call[c].key] = told[c]

\* The connectors keep the promise of the journal under them: one submission of
\* a key, rows that tell what the provider did, and callers that are told what
\* became of their own write.
ConnectorsSound == WritesTypeOK /\ OneSubmission /\ RowsTellTheWorld /\ ToldTheTruth
=============================================================================
