------------------------------- MODULE MCTalk -------------------------------
(***************************************************************************)
(* What is said and what it sets in motion: the chats that follow runs      *)
(* (Conversation), the turns of a Session, the Mailbox between hosts, the   *)
(* identities behind them (PolicyStore); the calls of a model (ModelCall),  *)
(* the stream of its answer (ModelStream) and the loop that executes the    *)
(* tools it asks for (AgentLoop); the tool calls of other frameworks        *)
(* (Gateway) and of replays (ToolReplay), and the steps of a workflow       *)
(* (Workflow).  A behaviour is about the one that is `checked`.             *)
(***************************************************************************)
EXTENDS Conversation, Gateway, Session, PolicyStore, Mailbox, ToolReplay,
  ModelStream, ModelCall, AgentLoop, Workflow, TLC

CONSTANTS
  a, b,            \* conversations, handles, hosts, callers, workers
  i, j,            \* clients of a conversation, identities, effects, payloads
  m1, m2, m3,      \* messages and prompts
  goal, r1, r2

VARIABLES
  checked  \* the component a behaviour is about

\* A wildcard, and a scope under it with the scope of everything.
ScopeSets == {{"a:*"}, {"a:x", "*"}}

\* What a model may answer: nothing to do, reads, writes among them, and blocks
\* that are no calls.
SomeReplies ==
  {<<>>, <<"malformed">>, <<"read", "read">>, <<"read", "write", "read">>,
   <<"malformed", "read">>, <<"write", "read">>}

ASSUME ActionsRequestsNamed == RequestsNamed

InitTalk ==
  /\ checked \in {"chat", "turns", "mail", "policy", "model", "stream",
                 "loop", "actions", "replay", "workflow"}
  /\ Init /\ SessionInit /\ MailInit /\ PolicyInit /\ ModelInit
  /\ GatewayInit
  /\ StreamInit
  /\ checked # "stream" => adapter = "chat" /\ \A n \in Indexes : plan[n] = Missing
  /\ LoopInit /\ (checked # "loop" => ~budgeted)
  /\ ReplayInit
  /\ checked # "replay" =>
       source = <<>> /\ tool = [class |-> ExternalWrite, observability |-> FALSE]
       /\ setup = [mode |-> "strict", external |-> FALSE, downgrade |-> FALSE]
  /\ FlowInit /\ (checked # "workflow" => depends = [s \in Steps |-> {}])

NextTalk ==
  /\ UNCHANGED checked
  /\ \/ checked = "chat" /\ Next
        /\ UNCHANGED <<sessionVars, mailVars, policyVars, modelVars, streamVars,
                       loopVars, gatewayVars, replayVars, flowVars>>
     \/ checked = "turns" /\ SessionNext
        /\ UNCHANGED <<vars, mailVars, policyVars, modelVars, streamVars,
                       loopVars, gatewayVars, replayVars, flowVars>>
     \/ checked = "mail" /\ MailNext
        /\ UNCHANGED <<vars, sessionVars, policyVars, modelVars, streamVars,
                       loopVars, gatewayVars, replayVars, flowVars>>
     \/ checked = "policy" /\ PolicyNext
        /\ UNCHANGED <<vars, sessionVars, mailVars, modelVars, streamVars,
                       loopVars, gatewayVars, replayVars, flowVars>>
     \/ checked = "model" /\ ModelNext
        /\ UNCHANGED <<vars, sessionVars, mailVars, policyVars, streamVars,
                       loopVars, gatewayVars, replayVars, flowVars>>
     \/ checked = "stream" /\ StreamNext
        /\ UNCHANGED <<vars, sessionVars, mailVars, policyVars, modelVars,
                       loopVars, gatewayVars, replayVars, flowVars>>
     \/ checked = "loop" /\ LoopNext
        /\ UNCHANGED <<vars, sessionVars, mailVars, policyVars, modelVars,
                       streamVars, gatewayVars, replayVars, flowVars>>
     \/ checked = "actions" /\ GatewayNext
        /\ UNCHANGED <<vars, sessionVars, mailVars, policyVars, modelVars,
                       streamVars, loopVars, replayVars, flowVars>>
     \/ checked = "replay" /\ ReplayNext
        /\ UNCHANGED <<vars, sessionVars, mailVars, policyVars, modelVars,
                       streamVars, loopVars, gatewayVars, flowVars>>
     \/ checked = "workflow" /\ FlowNext
        /\ UNCHANGED <<vars, sessionVars, mailVars, policyVars, modelVars,
                       streamVars, loopVars, gatewayVars, replayVars>>

SpecTalk ==
  /\ InitTalk
  /\ [][NextTalk]_<<checked, vars, sessionVars, mailVars, policyVars, modelVars,
        streamVars, loopVars, gatewayVars, replayVars, flowVars>>

-----------------------------------------------------------------------------
OwnRun == (m1 :> r1) @@ (m2 :> r2)
OneGoal == {<<m1, goal>>}

Interchangeable == Permutations({a, b}) \cup Permutations({i, j})
==============================================================================
