----------------------------- MODULE MCRecovery -----------------------------
(***************************************************************************)
(* The effects of a run whose workers stop and lose their leases: those of *)
(* an agent between its checkpoints (DurableRun), and one that a host      *)
(* executes for the run (RunEffects).  A behaviour is about the one that   *)
(* is `checked`.                                                           *)
(***************************************************************************)
EXTENDS DurableRun, RunEffects, TLC

VARIABLES
  checked  \* the component a behaviour is about

\* No boundary, or an input for the first tool and an approval for the second.
Boundaries == {[approvals |-> {}, inputs |-> {}],
               [approvals |-> {<<0, 2>>}, inputs |-> {<<0, 1>>}]}

\* What a tool of a run returns: an object, which the event stream does not show.
Objects == {[status |-> "succeeded", value |-> "object"]}

InitRecovery ==
  /\ checked \in {"agent", "host"}
  /\ Init /\ (checked # "agent" => policy = [approvals |-> {}, inputs |-> {}])
  /\ HostInit

NextRecovery ==
  /\ UNCHANGED checked
  /\ \/ checked = "agent" /\ Next
        /\ UNCHANGED hostVars
     \/ checked = "host" /\ HostNext
        /\ UNCHANGED vars

SpecRecovery ==
  /\ InitRecovery
  /\ [][NextRecovery]_<<checked, vars, hostVars>>

-----------------------------------------------------------------------------
Interchangeable == Permutations(Workers)
=============================================================================
