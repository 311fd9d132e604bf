---------------------------- MODULE AuditMirror ----------------------------
(***************************************************************************)
(* The mirror of a transactional outbox into a Claim tape: repair_audit of *)
(* ExecutionStore (lipas/execution.py); OperationJournal.repair_audit is   *)
(* the same loop without a run filter.                                     *)
(*                                                                         *)
(* The outbox and the tape are two databases.  Any process may commit      *)
(* events at any time; a handle copies them to its tape one by one behind  *)
(* a cursor that lives in memory only, and may raise or die between any    *)
(* two steps.                                                              *)
(***************************************************************************)
EXTENDS Integers, Sequences, FiniteSets, SequencesExt

CONSTANTS
  Events,    \* the events that can be committed (a claim id names each)
  EventRuns, \* the runs they belong to
  RunOf,     \* fields_json.run_id of each event
  Handles,   \* open stores, each with a rowset
  Filter,    \* audit_run_id of each handle, AnyRun for None
  AnyRun,
  BatchSize, \* DEFAULT_AUDIT_REPAIR_BATCH_SIZE
  MaxFaults  \* bound on crashes and exceptions

ASSUME MirrorAssumption ==
  /\ RunOf \in [Events -> EventRuns]
  /\ AnyRun \notin EventRuns
  /\ Filter \in [Handles -> EventRuns \cup {AnyRun}]
  /\ BatchSize \in Nat \ {0}
  /\ MaxFaults \in Nat

VARIABLES
  auditLog,  \* execution_audit_events in rowid order
  tape,    \* the claim ids each handle's session has got from it (folding one
           \* again is a no-op)
  phase,   \* where each handle is in repair_audit
  cursor,  \* its _audit_cursor
  batch,   \* the rowids its SELECT still has to deliver
  faults   \* crashes and exceptions so far

mirrorVars == <<auditLog, tape, phase, cursor, batch, faults>>

Phases == {"closed", "idle", "called", "empty", "folding"}

Matches(h, e) == Filter[h] = AnyRun \/ RunOf[e] = Filter[h]

\* Mutant: the first row after the cursor is taken for one already seen.
Pending_OffByOne(h) ==
  {i \in 1 .. Len(auditLog) : i > cursor[h] + 1 /\ Matches(h, auditLog[i])}

\* The rows after the cursor that the SELECT of handle h looks for.
Pending(h) ==
  {i \in 1 .. Len(auditLog) : i > cursor[h] /\ Matches(h, auditLog[i])}

\* ORDER BY rowid LIMIT: the first rows among them.
FirstOf(rows) == {i \in rows : Cardinality({j \in rows : j < i}) < BatchSize}

\* The row of its batch that handle h folds next.
Turn(h, i) == i \in batch[h] /\ \A j \in batch[h] : i <= j

MirrorInit ==
  /\ auditLog = <<>>
  /\ tape = [h \in Handles |-> {}]
  /\ phase = [h \in Handles |-> "closed"]
  /\ cursor = [h \in Handles |-> 0]
  /\ batch = [h \in Handles |-> {}]
  /\ faults = 0

\* Some process's transaction commits with this event (INSERT OR IGNORE).
Commit(e) ==
  /\ e \notin ToSet(auditLog)
  /\ auditLog' = Append(auditLog, e)
  /\ UNCHANGED <<tape, phase, cursor, batch, faults>>

\* The constructor starts from cursor 0 and runs a repair at once.
Open(h) ==
  /\ phase[h] = "closed"
  /\ phase' = [phase EXCEPT ![h] = "called"]
  /\ cursor' = [cursor EXCEPT ![h] = 0]
  /\ UNCHANGED <<auditLog, tape, batch, faults>>

\* Every public transition and every idempotent retry ends with a repair.
Call(h) ==
  /\ phase[h] = "idle"
  /\ phase' = [phase EXCEPT ![h] = "called"]
  /\ UNCHANGED <<auditLog, tape, cursor, batch, faults>>

\* The SELECT: one snapshot of the outbox, bounded for a transition's own
\* repair (full = FALSE), complete for an explicit repair_audit().
Select(h, full) ==
  LET rows == Pending(h) IN
  /\ phase[h] = "called"
  /\ IF rows = {}
     THEN /\ phase' = [phase EXCEPT ![h] = IF Filter[h] = AnyRun THEN "idle"
                                           ELSE "empty"]
          /\ UNCHANGED batch
     ELSE /\ phase' = [phase EXCEPT ![h] = "folding"]
          /\ batch' = [batch EXCEPT ![h] =
                         IF full THEN rows ELSE FirstOf(rows)]
  /\ UNCHANGED <<auditLog, tape, cursor, faults>>

SkipTarget(h) == IF cursor[h] > Len(auditLog) THEN cursor[h] ELSE Len(auditLog)

\* A filtered handle that found nothing asks for MAX(rowid), in a second
\* query, and skips to it.
SkipToEnd(h) ==
  /\ phase[h] = "empty"
  /\ cursor' = [cursor EXCEPT ![h] = SkipTarget(h)]
  /\ phase' = [phase EXCEPT ![h] = "idle"]
  /\ UNCHANGED <<auditLog, tape, batch, faults>>

\* rowset.fold of the next row; the cursor follows it.
Fold(h) ==
  /\ phase[h] = "folding"
  /\ \E i \in batch[h] :
       /\ Turn(h, i)
       /\ tape' = [tape EXCEPT ![h] = @ \cup {auditLog[i]}]
       /\ cursor' = [cursor EXCEPT ![h] = i]
       /\ batch' = [batch EXCEPT ![h] = @ \ {i}]
       /\ phase' = [phase EXCEPT ![h] = IF batch[h] = {i} THEN "idle" ELSE "folding"]
  /\ UNCHANGED <<auditLog, faults>>

\* Mutant: the cursor moves although the fold failed.
CursorAfterFailure_Moved(h, i) == i

\* A failed fold leaves the cursor before the row.
CursorAfterFailure(h, i) == cursor[h]

\* rowset.fold raises, before or after the tape's own commit.
FoldRaises(h) ==
  /\ phase[h] = "folding"
  /\ faults < MaxFaults
  /\ faults' = faults + 1
  /\ \E i \in batch[h] :
       /\ Turn(h, i)
       /\ \/ UNCHANGED tape
          \/ tape' = [tape EXCEPT ![h] = @ \cup {auditLog[i]}]
       /\ cursor' = [cursor EXCEPT ![h] = CursorAfterFailure(h, i)]
  /\ phase' = [phase EXCEPT ![h] = "idle"]
  /\ batch' = [batch EXCEPT ![h] = {}]
  /\ UNCHANGED auditLog

\* The process stops: the handle, its cursor and its batch are gone.
Crash(h) ==
  /\ phase[h] # "closed"
  /\ faults < MaxFaults
  /\ faults' = faults + 1
  /\ phase' = [phase EXCEPT ![h] = "closed"]
  /\ batch' = [batch EXCEPT ![h] = {}]
  /\ UNCHANGED <<auditLog, tape, cursor>>

Repair(h) == (\E full \in BOOLEAN : Select(h, full)) \/ SkipToEnd(h) \/ Fold(h)

MirrorNext ==
  \/ \E e \in Events : Commit(e)
  \/ \E h \in Handles : Open(h) \/ Call(h) \/ Repair(h) \/ FoldRaises(h) \/ Crash(h)

MirrorSpec == MirrorInit /\ [][MirrorNext]_mirrorVars

\* The database is opened again after a crash, and an open handle goes on
\* being used: every public method ends with a repair, which then runs.
Fairness ==
  \A h \in Handles :
    WF_mirrorVars(Open(h)) /\ WF_mirrorVars(Call(h)) /\ WF_mirrorVars(Repair(h))

FairMirrorSpec == MirrorSpec /\ Fairness

-----------------------------------------------------------------------------
(* Properties *)

\* Every variable of the mirror has its type.
MirrorTypeOK ==
  /\ auditLog \in Seq(Events)
  /\ tape \in [Handles -> SUBSET Events]
  /\ phase \in [Handles -> Phases]
  /\ cursor \in [Handles -> Nat]
  /\ batch \in [Handles -> SUBSET Nat]
  /\ faults \in 0 .. MaxFaults

\* The rows behind its cursor that handle h is to mirror are on its tape.
Covered(h) ==
  \A i \in 1 .. Len(auditLog) :
    i <= cursor[h] /\ Matches(h, auditLog[i]) => auditLog[i] \in tape[h]

\* Whatever raised or was interrupted, a handle that mirrors every run never
\* leaves an event behind its cursor; the session of a handle limited to one run
\* gets that run's events only, and no session one that was not committed.
MirrorFaithful ==
  /\ MirrorTypeOK
  /\ \A h \in Handles :
       /\ phase[h] # "closed" /\ Filter[h] = AnyRun => Covered(h)
       /\ \A e \in tape[h] : e \in ToSet(auditLog) /\ Matches(h, e)

\* docs/execution-model.md: a process stop can make the audit lag but cannot
\* permanently lose the mirrored event.  Every committed event gets to the tape
\* of such a handle, through exceptions and crashes.
EventuallyMirrored ==
  \A e \in Events, h \in Handles :
    e \in ToSet(auditLog) /\ Filter[h] = AnyRun ~> e \in tape[h]
=============================================================================
