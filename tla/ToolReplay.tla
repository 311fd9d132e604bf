----------------------------- MODULE ToolReplay -----------------------------
(***************************************************************************)
(* Replaying a recorded session's tool calls: session.replay opens the     *)
(* source tape and a target, ToolReplayer (lipas/replay_tools.py) decides  *)
(* each call by the mode, the side-effect class and the recording, and     *)
(* ToolHarness (lipas/tool_harness.py) writes the decision to the target   *)
(* tape before it acts on it.  A target that is a file can be reopened     *)
(* after a stop and its calls made again under their effect ids.           *)
(*                                                                         *)
(* The calls are of one tool with the same arguments, the case in which    *)
(* they compete for recordings; the source also holds other calls.  The    *)
(* window frozen_max_seq is the whole source, as session.replay sets it.   *)
(***************************************************************************)
EXTENDS Naturals, FiniteSets, Sequences

CONSTANTS
  ReplayCalls,  \* effect ids of the target's calls
  MaxSource,    \* recorded calls, at most
  Ends,         \* how a recorded call may have ended
  MaxStops      \* crashes and reopenings, at most

VARIABLES
  source,      \* the recorded tool nodes in fold order
  tool,        \* the tool as it is now: its class and observability_only
  setup,       \* mode and options of the replayer
  decisions,   \* call -> its replay_decision claims, in fold order
  intents,     \* the calls with an effect_intent in the target
  ended,       \* call -> its terminal claim in the target
  consumed,    \* _consumed_replay_effect_ids
  running,     \* call -> where the harness is with it
  live,        \* the executions of the tool now, and the stops before each (history)
  stops

tape == <<decisions, intents, ended>>
replayVars == <<source, tool, setup, tape, consumed, running, live, stops>>

\* The lattice of side-effect classes; a pure tool replays like read-only.
Classes == 1 .. 3
ReadOnly == 1
IdempotentWrite == 2
ExternalWrite == 3

Stricter(a, b) == IF a >= b THEN a ELSE b

Nodes == [same : BOOLEAN, class : Classes, end : Ends]

ReplayInit ==
  /\ source \in UNION {[1 .. n -> Nodes] : n \in 0 .. MaxSource}
  /\ tool \in [class : Classes, observability : BOOLEAN]
  /\ setup \in [mode : {"strict", "best effort", "reroute"},
                external : BOOLEAN, downgrade : BOOLEAN]
  /\ decisions = [c \in ReplayCalls |-> <<>>]
  /\ intents = {}
  /\ ended = [c \in ReplayCalls |-> "open"]
  /\ consumed = {}
  /\ running = [c \in ReplayCalls |-> "idle"]
  /\ live = {}
  /\ stops = 0

-----------------------------------------------------------------------------
(* ToolReplayer.decide *)

\* lookup: the first recording of these arguments that is not consumed.
\* Whether it has a result is not asked.
Matches(used) == {n \in DOMAIN source : source[n].same /\ n \notin used}

NoNode == 0
Lookup(used) ==
  IF Matches(used) = {} THEN NoNode
  ELSE CHOOSE n \in Matches(used) : \A k \in Matches(used) : n <= k

\* A recording of a stricter class than the tool has now.
Downgraded(n) == n # NoNode /\ source[n].class > tool.class

DowngradeRefused(n) ==
  Downgraded(n) /\ (setup.mode = "strict" \/ ~setup.downgrade)

\* Mutant: an allowed downgrade takes the looser class.
Effective_Looser(n) ==
  IF tool.observability /\ tool.class > ReadOnly THEN ReadOnly ELSE tool.class

\* The stricter of the two classes; observability_only lowers it to read-only.
Effective(n) ==
  LET resolved == IF n = NoNode THEN tool.class
                  ELSE Stricter(source[n].class, tool.class)
  IN IF tool.observability /\ resolved > ReadOnly THEN ReadOnly ELSE resolved

PresentOperation(class) ==
  CASE setup.mode \in {"strict", "best effort"} -> "substitute"
    [] setup.mode = "reroute" /\ class = ExternalWrite /\ ~setup.external -> "refuse"
    [] setup.mode = "reroute" /\ class = IdempotentWrite -> "substitute"
    [] OTHER -> "re-execute"

AbsentOperation(class) ==
  CASE setup.mode = "strict" -> "fail"
    [] setup.mode # "strict" /\ class = ExternalWrite /\ ~setup.external -> "refuse"
    [] OTHER -> "re-execute"

Operation(n) ==
  IF n = NoNode THEN AbsentOperation(Effective(n)) ELSE PresentOperation(Effective(n))

-----------------------------------------------------------------------------
(* ToolHarness.call *)

Goto(c, where) == running' = [running EXCEPT ![c] = where]

\* _restore_consumed_replay_effect_ids
Restored == consumed \cup
  {d.node : d \in UNION {{decisions[c][k] : k \in DOMAIN decisions[c]} : c \in ReplayCalls}}

\* The call finds nothing of its own on the target tape; the decision is
\* made and written.  A refused downgrade raises before anything is written.
Decide(c) ==
  LET n == Lookup(Restored) IN
  /\ running[c] = "idle"
  /\ c \notin intents
  /\ Len(decisions[c]) <= stops
  /\ IF DowngradeRefused(n)
     THEN /\ consumed' = Restored
          /\ UNCHANGED <<decisions, running>>
     ELSE /\ consumed' = Restored \cup ({n} \ {NoNode})
          /\ decisions' = [decisions EXCEPT
                             ![c] = Append(@, [node |-> n, op |-> Operation(n)])]
          /\ Goto(c, IF Operation(n) = "fail" THEN "idle" ELSE Operation(n))
  /\ UNCHANGED <<source, tool, setup, intents, ended, live, stops>>

Decision(c) == decisions[c][Len(decisions[c])]

\* _do_replay_substitute and _do_replay_refuse write their intent first; a
\* recording without a result raises before it.  A live call's intent comes
\* after its guards.
Intend(c) ==
  LET bare == running[c] = "substitute" /\ source[Decision(c).node].end # "result" IN
  /\ running[c] \in {"substitute", "refuse", "re-execute"}
  /\ IF bare THEN Goto(c, "idle") /\ UNCHANGED intents
     ELSE /\ intents' = intents \cup {c}
          /\ Goto(c, CASE running[c] = "substitute" -> "mirror"
                       [] running[c] = "refuse" -> "reject"
                       [] OTHER -> "execute")
  /\ UNCHANGED <<source, tool, setup, decisions, ended, consumed, live, stops>>

ExecuteLive(c) ==
  /\ running[c] = "execute"
  /\ live' = live \cup {[call |-> c, class |-> Effective(Decision(c).node),
                             after |-> stops]}
  /\ Goto(c, "executed")
  /\ UNCHANGED <<source, tool, setup, tape, consumed, stops>>

Conclude(c) ==
  /\ running[c] \in {"mirror", "reject", "executed"}
  /\ ended' = [ended EXCEPT ![c] =
                 CASE running[c] = "mirror" -> "substituted"
                   [] running[c] = "reject" -> "refused"
                   [] OTHER -> "executed"]
  /\ Goto(c, "idle")
  /\ UNCHANGED <<source, tool, setup, decisions, intents, consumed, live, stops>>

\* The process stops; the target is reopened with a new harness.
StopReplay ==
  /\ stops < MaxStops
  /\ stops' = stops + 1
  /\ running' = [c \in ReplayCalls |-> "idle"]
  /\ consumed' = {}
  /\ UNCHANGED <<source, tool, setup, tape, live>>

ReplayNext ==
  \/ \E c \in ReplayCalls : Decide(c) \/ Intend(c) \/ ExecuteLive(c) \/ Conclude(c)
  \/ StopReplay

ReplaySpec == ReplayInit /\ [][ReplayNext]_replayVars

-----------------------------------------------------------------------------
AllDecisions == UNION {{<<c, k>> : k \in DOMAIN decisions[c]} : c \in ReplayCalls}
NodeOf(d) == decisions[d[1]][d[2]].node

\* Replay touches the live world only as it was allowed to: never from a
\* strict tape, never an external write without the opt-in, whichever of the
\* recorded and the present class is the external one (observability_only
\* tools excepted), and each call at most once, stops included.
ReplayTouchesOnlyAllowed ==
  /\ setup.mode = "strict" => live = {}
  /\ \A e \in live :
       LET n == Decision(e.call).node
           external == \/ tool.class = ExternalWrite
                       \/ n # NoNode /\ source[n].class = ExternalWrite IN
       external => setup.external \/ tool.observability
  /\ \A e, f \in live : e.call = f.call => e = f

\* Identical calls consume the matching recordings in fold order, each one
\* once, also when the target was reopened in between, and what a call
\* mirrors is a recorded result.
ConsumedOnceInOrder ==
  LET used == {NodeOf(d) : d \in AllDecisions} \ {NoNode} IN
  /\ \A d, e \in AllDecisions : d # e /\ NodeOf(d) # NoNode => NodeOf(d) # NodeOf(e)
  /\ \A n \in used : \A m \in Matches({}) : m < n => m \in used
  /\ \A c \in ReplayCalls : ended[c] = "substituted" =>
       source[Decision(c).node].end = "result"

\* A replay consumes its recordings and the live world only as it may.
ReplaySound == ReplayTouchesOnlyAllowed /\ ConsumedOnceInOrder

\* A substitution is only decided for a recording that has a result.
SubstitutesHaveResults ==
  \A d \in AllDecisions :
    decisions[d[1]][d[2]].op = "substitute" => source[NodeOf(d)].end = "result"
=============================================================================
