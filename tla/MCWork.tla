------------------------------- MODULE MCWork -------------------------------
(***************************************************************************)
(* Work that others do: a run executed by a worker server behind a network *)
(* (RemoteWorker over ExecutionStore), and the handoffs of a team          *)
(* (Coordination).  A behaviour is about the one that is `checked`.        *)
(***************************************************************************)
EXTENDS RemoteWorker, Coordination, TLC

CONSTANTS
  w1, w2,  \* runners, callers of a team
  h1, h2,  \* threads of a worker server, inputs of a team
  d1, d2,  \* data of an answer
  m1, m2,  \* members: one called directly, one durable
  x, y     \* what members answer

VARIABLES
  checked  \* the component a behaviour is about

TeamOrder == <<m1, m2>>

\* Two faults, or one where the branches of a call multiply the interleavings.
MaxTeamFaults == IF strategy = "map_reduce" THEN 1 ELSE 2

InitWork ==
  /\ checked \in {"remote", "team"}
  /\ RemoteInit /\ TeamInit
  /\ checked # "team" => strategy = "external"

NextWork ==
  /\ UNCHANGED checked
  /\ \/ checked = "remote" /\ RemoteNext
        /\ UNCHANGED teamVars
     \/ checked = "team" /\ TeamNext /\ faults' <= MaxTeamFaults
        /\ UNCHANGED remoteVars

SpecWork ==
  /\ InitWork /\ [][NextWork]_<<checked, remoteVars, teamVars>>

-----------------------------------------------------------------------------
\* A structured result with a checkpoint and an effect, and one whose event
\* contradicts it.
TwoPayloads ==
  {[events |-> {d1}, checkpoint |-> {0}, effects |-> {d1}],
   [events |-> {d2}, checkpoint |-> {}, effects |-> {}]}

Interchangeable ==
  Permutations({w1, w2}) \cup Permutations({h1, h2}) \cup Permutations({x, y})
=============================================================================
