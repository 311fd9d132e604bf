------------------------------ MODULE ChangeSet ------------------------------
(***************************************************************************)
(* The staged ChangeSet of one workbench task (lipas/workbench.py): a copy *)
(* of the workspace a run writes to, the report that makes it ready, and   *)
(* the decision to apply it to the workspace file by file, or to discard   *)
(* it.  Files are not in the database: every operation below interleaves   *)
(* with those of other processes and with the user's own edits, and may be *)
(* cut off between any two of its steps.                                   *)
(***************************************************************************)
EXTENDS Naturals, FiniteSets

CONSTANTS
  Workbenches, \* processes with a Workbench handle
  Files,
  Contents,
  Absent,      \* no such file
  Initial,     \* the workspace when the task is created
  MaxAccidents \* the user's edits and the crashes, at most

ASSUME InitialIsWorkspace == Initial \in [Files -> Contents \cup {Absent}]

VARIABLES
  run,       \* "active" (pending, running, waiting), "completed", "failed"
  source,    \* the user's workspace
  stage,     \* [exists, file]: the stage and what is in it
  cs,        \* [state, baseline]: the row of workbench_change_sets
  events,    \* workbench_events: <<kind, data>>
  report,    \* [status, delivery] of the stored report
  op,        \* what each operator is doing
  edited,    \* files the user changed after the snapshot
  accidents

disk == <<source, stage>>
tables == <<cs, events, report>>
changesVars == <<run, disk, tables, op, edited, accidents>>

Value == Contents \cup {Absent}
Idle == [at |-> "idle"]
NoStage == [exists |-> FALSE, file |-> [f \in Files |-> Absent]]
NoReport == [status |-> "none", delivery |-> "none"]

ChangesInit ==
  /\ run = "active"
  /\ source = Initial
  /\ stage = NoStage
  /\ cs = [state |-> "none", baseline |-> [f \in Files |-> Absent]]
  /\ events = {}
  /\ report = NoReport
  /\ op = [o \in Workbenches |-> Idle]
  /\ edited = {} /\ accidents = 0

At(o, stop) == op[o].at = stop
Do(o, next) == op' = [op EXCEPT ![o] = next]
Goto(o, stop) == op' = [op EXCEPT ![o].at = stop]
End(o) == Do(o, Idle)
KeepOthers == UNCHANGED <<run, edited, accidents>>

\* _stage_manifest: a stage that is gone has no files.
Manifest == stage.file

\* change_set_paths
Changed == {f \in Files : cs.baseline[f] # Manifest[f]}

\* add_event: an id that is on record with other data is refused.
Fits(kind, data) == \A e \in events : e[1] = kind => e[2] = data
AddEvent(kind, data) ==
  events' = IF Fits(kind, data) THEN events \cup {<<kind, data>>} ELSE events

-----------------------------------------------------------------------------
(* create_change_set *)

\* The directory is made exclusively: a peer that finds it uses the row, or
\* gives up if there is none (yet).
Create(o) ==
  /\ At(o, "idle") /\ cs.state = "none" /\ ~stage.exists
  /\ stage' = [NoStage EXCEPT !.exists = TRUE]
  /\ Do(o, [at |-> "copy", todo |-> {f \in Files : source[f] # Absent},
            baseline |-> [f \in Files |-> Absent]])
  /\ UNCHANGED <<source, tables>> /\ KeepOthers

CopyFile(o, f) ==
  /\ At(o, "copy") /\ f \in op[o].todo
  /\ source[f] # Absent
  /\ stage' = [stage EXCEPT !.file[f] = source[f]]
  /\ op' = [op EXCEPT ![o].todo = @ \ {f}, ![o].baseline[f] = source[f]]
  /\ UNCHANGED <<source, tables>> /\ KeepOthers

\* A file that vanished or that changes under the copy: the stage is removed.
CopyFails(o, f) ==
  /\ At(o, "copy") /\ f \in op[o].todo
  /\ stage' = NoStage
  /\ End(o)
  /\ UNCHANGED <<source, tables>> /\ KeepOthers

InsertRow(o) ==
  /\ At(o, "copy") /\ op[o].todo = {}
  /\ cs' = IF cs.state = "none"
           THEN [state |-> "open", baseline |-> op[o].baseline] ELSE cs
  /\ End(o)
  /\ UNCHANGED <<disk, events, report>> /\ KeepOthers

-----------------------------------------------------------------------------
(* build_report, with prepare_change_set *)

\* The run is read first of all.
Report(o) ==
  /\ At(o, "idle") /\ cs.state # "none"
  /\ Do(o, [at |-> "prepare", status |-> run])
  /\ UNCHANGED <<disk, tables>> /\ KeepOthers

Prepare(o) ==
  /\ At(o, "prepare")
  /\ cs' = [cs EXCEPT !.state = IF @ = "open" THEN "ready" ELSE @]
  /\ Do(o, [at |-> "compose", status |-> op[o].status,
            opened |-> cs.state = "open"])
  /\ UNCHANGED <<disk, events, report>> /\ KeepOthers

\* The event of the transition, and the row as it is now.
Compose(o) ==
  /\ At(o, "compose")
  /\ IF op[o].opened THEN AddEvent("ready", Changed) ELSE UNCHANGED events
  /\ Do(o, IF op[o].opened /\ ~Fits("ready", Changed) THEN Idle
           ELSE [at |-> "write", status |-> op[o].status,
                 delivery |-> cs.state])
  /\ UNCHANGED <<disk, cs, report>> /\ KeepOthers

WriteReport(o) ==
  /\ At(o, "write")
  /\ report' = [status |-> op[o].status, delivery |-> op[o].delivery]
  /\ Do(o, [at |-> "reported", status |-> op[o].status])
  /\ UNCHANGED <<disk, cs, events>> /\ KeepOthers

\* Its event has one identity for the run, whatever the status it names.
Reported(o) ==
  /\ At(o, "reported")
  /\ AddEvent("report", op[o].status)
  /\ End(o)
  /\ UNCHANGED <<disk, cs, report>> /\ KeepOthers

-----------------------------------------------------------------------------
(* apply_change_set *)

Applicable == cs.state \in {"ready", "applied"} /\ run = "completed"

Apply(o) ==
  /\ At(o, "idle") /\ Applicable
  /\ Goto(o, "preflight")
  /\ UNCHANGED <<disk, tables>> /\ KeepOthers

\* Every destination holds its baseline or its staged content already.
NoDrift == \A f \in Changed : source[f] \in {cs.baseline[f], Manifest[f]}

Preflight(o) ==
  /\ At(o, "preflight")
  /\ Do(o, IF NoDrift THEN [at |-> "files", todo |-> Changed,
                            paths |-> Changed, desired |-> Manifest]
           ELSE Idle)
  /\ UNCHANGED <<disk, tables>> /\ KeepOthers

\* The next path: done already, drifted, or to be replaced.
Compare(o, f) ==
  /\ At(o, "files") /\ f \in op[o].todo
  /\ \/ /\ source[f] = op[o].desired[f]
        /\ op' = [op EXCEPT ![o].todo = @ \ {f}]
     \/ /\ source[f] \notin {op[o].desired[f], cs.baseline[f]}
        /\ End(o)
     \/ /\ source[f] # op[o].desired[f] /\ source[f] = cs.baseline[f]
        /\ op' = [op EXCEPT ![o] = [at |-> "replace", next |-> f,
             todo |-> @.todo, paths |-> @.paths, desired |-> @.desired]]
  /\ UNCHANGED <<disk, tables>> /\ KeepOthers

\* unlink or os.replace; the staged bytes are hashed once more.
Replace(o) ==
  LET file == op[o].next IN
  /\ At(o, "replace")
  /\ IF op[o].desired[file] \in {Absent, Manifest[file]}
     THEN /\ source' = [source EXCEPT ![file] = op[o].desired[file]]
          /\ Do(o, [at |-> "files", todo |-> op[o].todo \ {file},
                    paths |-> op[o].paths, desired |-> op[o].desired])
     ELSE End(o) /\ UNCHANGED source
  /\ UNCHANGED <<stage, tables>> /\ KeepOthers

\* Mutant: UPDATE ... SET state='applied' whatever the state is.
Decide_Always(state) == cs' = [cs EXCEPT !.state = state]

\* The UPDATE leaves out the row whose other fate is decided.
Decide(state) ==
  cs' = [cs EXCEPT !.state =
          IF @ \in {"applied", "discarded"} THEN @ ELSE state]

\* Mutant: the row is marked before the last file is replaced.
AllDone_ButOne(o) == Cardinality(op[o].todo) <= 1

AllDone(o) == op[o].todo = {}

MarkApplied(o) ==
  /\ At(o, "files") /\ AllDone(o)
  /\ Decide("applied")
  /\ Do(o, [at |-> "event", kind |-> "applied", data |-> op[o].paths])
  /\ UNCHANGED <<disk, events, report>> /\ KeepOthers

-----------------------------------------------------------------------------
(* discard_change_set *)

Discard(o) ==
  /\ At(o, "idle")
  /\ cs.state \in {"open", "ready", "discarded"}
  /\ run # "active"
  /\ Goto(o, "remove")
  /\ UNCHANGED <<disk, tables>> /\ KeepOthers

RemoveStage(o) ==
  /\ At(o, "remove")
  /\ stage' = NoStage
  /\ Goto(o, "mark")
  /\ UNCHANGED <<source, tables>> /\ KeepOthers

MarkDiscarded(o) ==
  /\ At(o, "mark")
  /\ Decide("discarded")
  /\ Do(o, [at |-> "event", kind |-> "discarded", data |-> {}])
  /\ UNCHANGED <<disk, events, report>> /\ KeepOthers

\* Both decisions end with an event and the delivery state of the report.
RecordEvent(o) ==
  /\ At(o, "event")
  /\ AddEvent(op[o].kind, op[o].data)
  /\ Do(o, IF Fits(op[o].kind, op[o].data)
           THEN [at |-> "patch", kind |-> op[o].kind] ELSE Idle)
  /\ UNCHANGED <<disk, cs, report>> /\ KeepOthers

ReadReport(o) ==
  /\ At(o, "patch")
  /\ Do(o, IF report = NoReport THEN Idle
           ELSE [at |-> "patched",
                 report |-> [report EXCEPT !.delivery = op[o].kind]])
  /\ UNCHANGED <<disk, tables>> /\ KeepOthers

PatchReport(o) ==
  /\ At(o, "patched")
  /\ report' = op[o].report
  /\ End(o)
  /\ UNCHANGED <<disk, cs, events>> /\ KeepOthers

-----------------------------------------------------------------------------
(* The run, the user, the operating system *)

EndRun ==
  /\ run = "active" /\ cs.state # "none"
  /\ run' \in {"completed", "failed"}
  /\ UNCHANGED <<disk, tables, op, edited, accidents>>

\* A staged write of the run.
WriteStage(f, v) ==
  /\ run = "active" /\ stage.exists /\ cs.state # "none"
  /\ stage' = [stage EXCEPT !.file[f] = v]
  /\ UNCHANGED <<run, source, tables, op, edited, accidents>>

EditSource(f, v) ==
  /\ accidents < MaxAccidents /\ source[f] # v
  /\ accidents' = accidents + 1
  /\ source' = [source EXCEPT ![f] = v]
  /\ edited' = edited \cup {f}
  /\ UNCHANGED <<run, stage, tables, op>>

Crash(o) ==
  /\ ~At(o, "idle") /\ accidents < MaxAccidents
  /\ accidents' = accidents + 1
  /\ End(o)
  /\ UNCHANGED <<run, disk, tables, edited>>

Operate(o) ==
  \/ Create(o) \/ InsertRow(o)
  \/ \E f \in Files : CopyFile(o, f) \/ CopyFails(o, f) \/ Compare(o, f)
  \/ Report(o) \/ Prepare(o) \/ Compose(o) \/ WriteReport(o) \/ Reported(o)
  \/ Apply(o) \/ Preflight(o) \/ Replace(o) \/ MarkApplied(o)
  \/ Discard(o) \/ RemoveStage(o) \/ MarkDiscarded(o)
  \/ RecordEvent(o) \/ ReadReport(o) \/ PatchReport(o)

ChangesNext ==
  \/ \E o \in Workbenches : Operate(o) \/ Crash(o)
  \/ EndRun
  \/ \E f \in Files, v \in Value : WriteStage(f, v) \/ EditSource(f, v)

ChangesSpec == ChangesInit /\ [][ChangesNext]_changesVars

-----------------------------------------------------------------------------
(* Properties *)

Untouched == Files \ edited

\* As long as nobody has removed the stage: a file the user has left alone
\* holds its baseline or what the run staged, before the run is completed its
\* baseline, and after the decision to apply exactly what was staged; the
\* application may have been cut off and repeated by others.
DeliveredWhole ==
  stage.exists /\ cs.state # "none" =>
    \A f \in Untouched :
      /\ source[f] \in {cs.baseline[f], stage.file[f]}
      /\ run # "completed" => source[f] = cs.baseline[f]
      /\ cs.state = "applied" => source[f] = stage.file[f]

\* An applied ChangeSet is never discarded afterwards, a discarded one never
\* applied, whatever was read before (docs/execution-model.md:249).
DecisionFinal ==
  [][cs.state \in {"applied", "discarded"} => cs'.state = cs.state]_changesVars
=============================================================================
