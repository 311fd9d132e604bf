------------------------------ MODULE Session ------------------------------
(***************************************************************************)
(* Sessions over one stored conversation state: the handles of             *)
(* lipas/conversation.py (Session, RunHandle), in one process or several,  *)
(* and the versioned snapshot of SQLiteSessionStore they load and save     *)
(* with a compare-and-swap.  There is no suspension point between the end  *)
(* of an agent's run and the result of its RunHandle.                      *)
(***************************************************************************)
EXTENDS Naturals, Sequences, FiniteSets

CONSTANTS
  Handles,    \* Session objects with the same session_id
  Prompts,    \* what is asked, each prompt once
  MaxVersion  \* bound on the versions saved

VARIABLES
  saved,   \* lipas_conversations: [version, state], version 0 without a row
  state,   \* Session._state, the turns of the conversation, per handle
  version, \* Session._version
  active,  \* the RunHandle: [phase, prompt, base, cancelled]
  result,  \* how the run of a prompt ended
  history  \* history: every state that was ever saved, by version

sessionVars == <<saved, state, version, active, result, history>>

NoRun == [phase |-> "none"]

SessionInit ==
  /\ saved = [version |-> 0, state |-> <<>>]
  /\ state = [h \in Handles |-> <<>>] /\ version = [h \in Handles |-> 0]
  /\ active = [h \in Handles |-> NoRun]
  /\ result = [p \in Prompts |-> "none"]
  /\ history = <<>>

Running(h) == active[h].phase = "running"

\* A new Session object for the id: load().
Open(h) ==
  /\ ~Running(h)
  /\ state' = [state EXCEPT ![h] = saved.state]
  /\ version' = [version EXCEPT ![h] = saved.version]
  /\ active' = [active EXCEPT ![h] = NoRun]
  /\ UNCHANGED <<saved, result, history>>

\* Mutant: the snapshot is replaced whatever its version is.
Current_Any(h) == TRUE

\* save(): INSERT OR IGNORE for version 0, else UPDATE ... WHERE version=?.
Current(h) == saved.version = version[h]

\* _commit_state, when the swap succeeds.
Commit(h, s) ==
  /\ saved' = [version |-> version[h] + 1, state |-> s]
  /\ history' = Append(history, s)
  /\ version' = [version EXCEPT ![h] = @ + 1]
  /\ state' = [state EXCEPT ![h] = s]

Reset(h) ==
  /\ ~Running(h) /\ saved.version < MaxVersion
  /\ Current(h) /\ Commit(h, <<>>)
  /\ UNCHANGED <<active, result>>

\* start() refuses a second run; a run works on the state of its start.
Start(h, p) ==
  /\ ~Running(h) /\ result[p] = "none"
  /\ \A g \in Handles : Running(g) => active[g].prompt # p
  /\ active' = [active EXCEPT ![h] =
       [phase |-> "running", prompt |-> p, base |-> state[h], cancelled |-> FALSE]]
  /\ UNCHANGED <<saved, state, version, result, history>>

\* RunHandle.cancel(), or the consumer of stream() going away.
CancelRun(h) ==
  /\ Running(h)
  /\ active' = [active EXCEPT ![h].cancelled = TRUE]
  /\ UNCHANGED <<saved, state, version, result, history>>

Finish(h, how) ==
  /\ active' = [active EXCEPT ![h] = [phase |-> "done", prompt |-> @.prompt]]
  /\ result' = [result EXCEPT ![active[h].prompt] = how]

\* The agent returns a result, whatever its stop reason: the turn is committed
\* or, if another handle has saved meanwhile, the run fails.  A cancellation
\* may have come too late for the agent to see it.
AgentEnds(h) ==
  /\ Running(h) /\ saved.version < MaxVersion
  /\ IF Current(h)
     THEN Commit(h, Append(active[h].base, active[h].prompt)) /\ Finish(h, "completed")
     ELSE Finish(h, "failed") /\ UNCHANGED <<saved, state, version, history>>

\* The agent raises, or its task is cancelled from outside.
AgentBreaks(h) ==
  /\ Running(h)
  /\ \E how \in {"failed", "cancelled"} : Finish(h, how)
  /\ UNCHANGED <<saved, state, version, history>>

\* The agent sees the cancellation: the turn is withdrawn.
Withdrawn(h) ==
  /\ Running(h) /\ active[h].cancelled
  /\ Finish(h, "cancelled")
  /\ UNCHANGED <<saved, state, version, history>>

SessionNext ==
  \E h \in Handles :
    \/ Open(h) \/ Reset(h) \/ CancelRun(h)
    \/ AgentEnds(h) \/ AgentBreaks(h) \/ Withdrawn(h)
    \/ \E p \in Prompts : Start(h, p)

SessionSpec == SessionInit /\ [][SessionNext]_sessionVars

-----------------------------------------------------------------------------
(* Properties *)

\* No turn is lost or committed twice, whichever handles race on a session id:
\* every saved version extends the one before it by one completed turn, or
\* starts afresh, and the turns told to be completed are the ones saved.
TurnsAreChained ==
  /\ Len(history) = saved.version
  /\ \A i \in DOMAIN history :
       LET before == IF i = 1 THEN <<>> ELSE history[i - 1] IN
       \/ history[i] = <<>>
       \/ \E p \in Prompts : history[i] = Append(before, p) /\ result[p] = "completed"
  /\ \A p \in Prompts :
       result[p] = "completed" <=>
         Cardinality({i \in DOMAIN history :
                        history[i] # <<>> /\ history[i][Len(history[i])] = p}) = 1
============================================================================
