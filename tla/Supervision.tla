----------------------------- MODULE Supervision -----------------------------
(***************************************************************************)
(* The Supervisor of durable runs that share a Claim store                 *)
(* (lipas/supervisor.py tick; react.py _maybe_supervisor_tick).  After each *)
(* iteration the rules are evaluated over one snapshot of the tape and     *)
(* their recommendations are folded one by one, a terminate or escalate    *)
(* followed by its goal_blocked.  A run that crashes before its checkpoint *)
(* ticks again, with the same claim ids over a tape that has grown.        *)
(*                                                                         *)
(* The tick is synchronous: runs of one process do not interleave with it, *)
(* those of other processes do.  The rules are two that never cease to     *)
(* apply: retry an effect that failed, escalate when failures repeat.      *)
(***************************************************************************)
EXTENDS Integers, Sequences, FiniteSets

CONSTANTS
  DurableRuns,
  MaxAttempts,    \* RetryAction.max_attempts
  MaxIterations,
  MaxFailures, MaxCrashes   \* bounds

VARIABLES
  together,   \* whether the runs are of one process
  tape,       \* ClaimStore.log
  iteration, pc,
  pending,    \* what the tick in progress has still to fold
  crashes

supervisorVars == <<together, tape, iteration, pc, pending, crashes>>

SupervisorInit ==
  /\ together \in BOOLEAN
  /\ tape = <<>>
  /\ iteration = [r \in DurableRuns |-> 1] /\ pc = [r \in DurableRuns |-> "work"]
  /\ pending = [r \in DurableRuns |-> <<>>]
  /\ crashes = 0

Ticking(r) == pc[r] \in {"fold", "pair", "checkpoint"}
MayStep(r) == together => \A s \in DurableRuns \ {r} : ~Ticking(s)

Tagged(tag) == {n \in 1 .. Len(tape) : tape[n].tag = tag}

\* Effects fail while an iteration works.
Fail(r) ==
  /\ pc[r] = "work" /\ MayStep(r) /\ Cardinality(Tagged("failure")) < MaxFailures
  /\ tape' = Append(tape, [tag |-> "failure"])
  /\ UNCHANGED <<together, iteration, pc, pending, crashes>>

-----------------------------------------------------------------------------
(* tick *)

\* Mutant: attempts are counted from one in every tick.
PriorRetries_None(r) == 0

\* _tally_prior_retries: the claims of the tick itself, folded before a crash,
\* do not count.
PriorRetries(r) ==
  Cardinality({n \in Tagged("retry") : tape[n].id[1] # r \/ tape[n].id[2] # iteration[r]})

\* The rules over one snapshot, in their order; a retry beyond the cap is
\* dropped.
Recommended(r) ==
  LET failures == Cardinality(Tagged("failure"))
      attempt == PriorRetries(r) + 1 IN
  (IF failures >= 1 /\ attempt <= MaxAttempts
   THEN <<[tag |-> "retry", attempt |-> attempt]>> ELSE <<>>)
  \o (IF failures >= 2 THEN <<[tag |-> "escalate", attempt |-> 0]>> ELSE <<>>)

\* Claim ids are made of the run, the iteration and the index of the action.
SupervisorTick(r) ==
  /\ pc[r] = "work" /\ MayStep(r)
  /\ LET actions == Recommended(r) IN
     /\ pending' = [pending EXCEPT ![r] =
          [k \in 1 .. Len(actions) |->
             [tag |-> actions[k].tag, attempt |-> actions[k].attempt,
              id |-> <<r, iteration[r], k>>]]]
     /\ pc' = [pc EXCEPT ![r] = IF actions = <<>> THEN "checkpoint" ELSE "fold"]
  /\ UNCHANGED <<together, tape, iteration, crashes>>

Recorded(id) == {n \in 1 .. Len(tape) : tape[n].tag # "failure" /\ tape[n].id = id}

\* RowSet.fold: once per id; another claim under the same id raises.
Folds(claim) ==
  /\ \A n \in Recorded(claim.id) : tape[n] = claim
  /\ tape' = IF Recorded(claim.id) = {} THEN Append(tape, claim) ELSE tape

Folded(r) ==
  LET claim == Head(pending[r]) IN
  /\ pc[r] = "fold" /\ MayStep(r)
  /\ Folds(claim)
  /\ IF claim.tag = "escalate"
     THEN pc' = [pc EXCEPT ![r] = "pair"] /\ UNCHANGED pending
     ELSE /\ pending' = [pending EXCEPT ![r] = Tail(@)]
          /\ pc' = [pc EXCEPT ![r] = IF Len(pending[r]) = 1 THEN "checkpoint" ELSE "fold"]
  /\ UNCHANGED <<together, iteration, crashes>>

\* ClaimIdConflict ends the run.
Conflict(r) ==
  /\ pc[r] = "fold" /\ MayStep(r)
  /\ LET claim == Head(pending[r]) IN \E n \in Recorded(claim.id) : tape[n] # claim
  /\ pc' = [pc EXCEPT ![r] = "failed"] /\ pending' = [pending EXCEPT ![r] = <<>>]
  /\ UNCHANGED <<together, tape, iteration, crashes>>

\* _build_goal_blocked, with the seq its trigger has on the tape.
Pair(r) ==
  LET trigger == Head(pending[r]) IN
  /\ pc[r] = "pair" /\ MayStep(r)
  /\ \E n \in Recorded(trigger.id) :
       Folds([tag |-> "goal_blocked", id |-> <<trigger.id, "goal-blocked">>, source |-> n])
  /\ pc' = [pc EXCEPT ![r] = "checkpoint"]
  /\ UNCHANGED <<together, iteration, pending, crashes>>

\* The first terminate or escalate of what was folded ends the loop.
EndIteration(r) ==
  /\ pc[r] = "checkpoint" /\ MayStep(r)
  /\ IF pending[r] # <<>> THEN pc' = [pc EXCEPT ![r] = "stopped"] /\ UNCHANGED iteration
     ELSE IF iteration[r] = MaxIterations
     THEN pc' = [pc EXCEPT ![r] = "completed"] /\ UNCHANGED iteration
     ELSE /\ iteration' = [iteration EXCEPT ![r] = @ + 1]
          /\ pc' = [pc EXCEPT ![r] = "work"]
  /\ pending' = [pending EXCEPT ![r] = <<>>]
  /\ UNCHANGED <<together, tape, crashes>>

\* The process dies in the middle of a tick and the run is resumed from the
\* checkpoint of its last iteration.
DieInTick(r) ==
  /\ Ticking(r) /\ crashes < MaxCrashes
  /\ crashes' = crashes + 1
  /\ pc' = [pc EXCEPT ![r] = "work"] /\ pending' = [pending EXCEPT ![r] = <<>>]
  /\ UNCHANGED <<together, tape, iteration>>

SupervisorNext ==
  \E r \in DurableRuns :
    Fail(r) \/ SupervisorTick(r) \/ Folded(r) \/ Conflict(r) \/ Pair(r) \/ EndIteration(r) \/ DieInTick(r)

SupervisorSpec == SupervisorInit /\ [][SupervisorNext]_supervisorVars

-----------------------------------------------------------------------------
(* Properties *)

\* In one process an effect is never recommended for more attempts than its
\* rule allows, and no two recommendations are the same attempt.
CapKept ==
  together =>
    \A m, n \in Tagged("retry") :
      /\ tape[n].attempt <= MaxAttempts
      /\ tape[m].attempt = tape[n].attempt => m = n

IsPaired(n) == \E g \in n + 1 .. Len(tape) : tape[g].tag = "goal_blocked" /\ tape[g].source = n

\* A run that stops has recorded why and what it blocks; a run that goes on
\* has recorded nothing of the kind.
StopsAsRecorded ==
  \A r \in DurableRuns :
    LET escalations == {n \in Tagged("escalate") : tape[n].id[1] = r} IN
    /\ pc[r] = "stopped" => \E n \in escalations : tape[n].id[2] = iteration[r] /\ IsPaired(n)
    /\ \A n \in escalations : tape[n].id[2] = iteration[r] /\ pc[r] # "completed"

\* Whoever crashes in the middle of a tick, and whatever other runs record
\* (supervisor.py tick, _emit_batch).
RecommendationsSound == CapKept /\ StopsAsRecorded
=============================================================================
