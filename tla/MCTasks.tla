------------------------------ MODULE MCTasks ------------------------------
(***************************************************************************)
(* The tasks of a workspace: their control rows (ExecutionStore), the       *)
(* ChangeSet through which the stage of a run reaches the user's files      *)
(* (ChangeSet), and the Supervisor that stops and retries runs             *)
(* (Supervision).  A behaviour is about the one that is `checked`.          *)
(***************************************************************************)
EXTENDS ExecutionStore, ChangeSet, Supervision, TLC

CONSTANTS
  r1, r2,     \* runs, Workbench handles
  i1, i2,     \* interrupts
  f, g, v, w  \* files of a workspace and their contents

VARIABLE checked  \* the component a behaviour is about

\* The user's workspace when the task is created: one file.
Original == (f :> v) @@ (g :> NoTask)

InitTasks ==
  /\ checked \in {"control", "changes", "supervisor"}
  /\ Init /\ ChangesInit /\ SupervisorInit
  /\ checked # "supervisor" => together

NextTasks ==
  /\ UNCHANGED checked
  /\ \/ checked = "control" /\ Next
        /\ UNCHANGED <<changesVars, supervisorVars>>
     \/ checked = "changes" /\ ChangesNext
        /\ UNCHANGED <<vars, supervisorVars>>
     \/ checked = "supervisor" /\ SupervisorNext
        /\ UNCHANGED <<vars, changesVars>>

SpecTasks ==
  /\ InitTasks
  /\ [][NextTasks]_<<checked, vars, changesVars, supervisorVars>>

-----------------------------------------------------------------------------
Interchangeable == Permutations({r1, r2}) \cup Permutations({i1, i2})
==============================================================================
