----------------------------- MODULE RunEffects -----------------------------
(***************************************************************************)
(* LIPASRuntime.execute_effect_for_run (lipas/runtime.py): one effect of a *)
(* run, from the proposal to the observation.  The call reads the run, and *)
(* claims it if nobody has; it checks the lease on what it read; the       *)
(* harness recovers, refuses or executes the effect on the run's tape; the *)
(* observation is appended to the run's event stream under the effect's    *)
(* identity; and the lease is checked once more before it is returned.     *)
(* Workers, operators, the clock and reconciliation go on in between.      *)
(*                                                                         *)
(* Of the control store and the harness only what the call meets is kept:  *)
(* ExecutionStore and EffectTape have the rest.  The callers are of one    *)
(* process, where nothing comes between the check of an intent and its     *)
(* commit; the workers that claim the run are of any.                      *)
(***************************************************************************)
EXTENDS Naturals, Sequences

CONSTANTS
  Callers, HostEffects,
  Risky,        \* the effects whose risk needs an approval
  Outcomes,     \* status and value of what a tool may return
  Opaque,       \* the values that the event stream cannot show
  Nothing,
  MaxClaims     \* bound

VARIABLES
  run,        \* state, attempt and cancel_requested; a token is an attempt's number
  over,       \* the tokens whose lease has run out
  effectTape, \* effect -> what its claims tell
  stream,     \* effect -> the data of its effect_observed event
  caller,
  \* history
  executed,   \* per effect, the calls that executed it: were they approved?
  answered    \* the observations that were returned

control == <<run, over>>
hostVars == <<control, effectTape, stream, caller, executed, answered>>

NoEffect == [status |-> "none", value |-> Nothing]
Open == [status |-> "uncertain", value |-> Nothing]
Rejected == [status |-> "rejected", value |-> Nothing]

\* _event_safe: of a value that JSON cannot hold, only the type is shown.
Shown(o) == [o EXCEPT !.value = IF @ \in Opaque THEN "opaque" ELSE @]

\* What a tool or a reconciliation may end with is an outcome, and null is a
\* value that can be shown.
ASSUME OutcomesAssumption ==
  /\ \A o \in Outcomes : o.status \notin {"none", "uncertain", "rejected"}
  /\ \A o \in Outcomes \cup {Open, Rejected} : Shown(o) # Nothing
  /\ Nothing \notin Opaque

Idle == [pc |-> "idle", effect |-> Nothing, approved |-> FALSE, token |-> 0,
         leased |-> FALSE, observed |-> Nothing]

HostInit ==
  /\ run = [state |-> "pending", attempt |-> 0, cancel |-> FALSE]
  /\ over = {}
  /\ effectTape = [e \in HostEffects |-> NoEffect]
  /\ stream = [e \in HostEffects |-> Nothing]
  /\ caller = [c \in Callers |-> Idle]
  /\ executed = [e \in HostEffects |-> <<>>]
  /\ answered = {}

MoveTo(c, pc) == caller' = [caller EXCEPT ![c].pc = pc]
Refused(c) == caller' = [caller EXCEPT ![c] = Idle]

-----------------------------------------------------------------------------
(* The run: what its workers and operators do to it *)

HoldsLease(token) ==
  run.state = "running" /\ run.attempt = token /\ token \notin over

Claimable ==
  /\ run.attempt < MaxClaims
  /\ \/ run.state = "pending" /\ ~run.cancel
     \/ run.state = "running" /\ run.attempt \in over

Claimed == run' = [run EXCEPT !.state = "running", !.attempt = @ + 1]

WorkerClaims ==
  /\ Claimable /\ Claimed
  /\ UNCHANGED <<over, effectTape, stream, caller, executed, answered>>

Expire ==
  /\ run.attempt > 0 /\ run.attempt \notin over
  /\ over' = over \cup {run.attempt}
  /\ UNCHANGED <<run, effectTape, stream, caller, executed, answered>>

\* suspend and resolve_interrupt; complete_run, fail_run and finish_cancelled,
\* which are all the same to a call: the run is settled.
RunSettles(s) ==
  /\ \/ s = "waiting" /\ HoldsLease(run.attempt) /\ ~run.cancel
     \/ s = "settled" /\ HoldsLease(run.attempt)
     \/ s = "pending" /\ run.state = "waiting"
  /\ run' = [run EXCEPT !.state = s]
  /\ UNCHANGED <<over, effectTape, stream, caller, executed, answered>>

\* A run that nobody works on is cancelled at once.
RequestCancel ==
  /\ run.state # "settled" /\ ~run.cancel
  /\ run' = [run EXCEPT !.cancel = TRUE,
                        !.state = IF @ = "running" THEN @ ELSE "settled"]
  /\ UNCHANGED <<over, effectTape, stream, caller, executed, answered>>

-----------------------------------------------------------------------------
(* The call: run and lease *)

\* The checks on the row as the call has read it.
Admits(token) ==
  /\ run.state \in {"pending", "running"} /\ ~run.cancel
  /\ run.state = "running" => token = run.attempt

\* A pending run is called without a token.  A call that is refused for what it
\* has read has changed nothing.
Start(c, e, ok, token) ==
  /\ caller[c] = Idle
  /\ Admits(token) /\ (run.state = "pending" => token = 0)
  /\ caller' = [caller EXCEPT ![c] =
       [Idle EXCEPT !.pc = IF run.state = "pending" THEN "claim" ELSE "check",
                    !.effect = e, !.approved = ok, !.token = token,
                    !.leased = run.state = "running"]]
  /\ UNCHANGED <<control, effectTape, stream, executed, answered>>

ClaimForCall(c) ==
  /\ caller[c].pc = "claim"
  /\ IF Claimable THEN Claimed /\ MoveTo(c, "read back")
     ELSE run.attempt < MaxClaims /\ Refused(c) /\ UNCHANGED run
  /\ UNCHANGED <<over, effectTape, stream, executed, answered>>

\* claim_run commits, and reads the row again for what it returns.
ReadBack(c) ==
  /\ caller[c].pc = "read back"
  /\ LET token == IF run.state = "running" THEN run.attempt ELSE 0 IN
     IF Admits(token)
     THEN caller' = [caller EXCEPT ![c].pc = "check", ![c].token = token,
                                   ![c].leased = run.state = "running"]
     ELSE Refused(c)
  /\ UNCHANGED <<control, effectTape, stream, executed, answered>>

\* The lease of the row as it was read, against the clock as it is.
Check(c) ==
  /\ caller[c].pc = "check"
  /\ IF caller[c].leased /\ caller[c].token \in over
     THEN Refused(c)
     ELSE caller' = [caller EXCEPT ![c].pc = "recover", ![c].leased = FALSE]
  /\ UNCHANGED <<control, effectTape, stream, executed, answered>>

-----------------------------------------------------------------------------
(* The harness *)

\* An effect that is on the tape is observed as it is, an orphan too.
RecoverEffect(c) ==
  /\ caller[c].pc = "recover"
  /\ MoveTo(c, IF effectTape[caller[c].effect] = NoEffect THEN "admit" ELSE "observe")
  /\ UNCHANGED <<control, effectTape, stream, executed, answered>>

\* decide_effect: high risk needs an approval.  A proposal may be refused all
\* the same, for its capabilities, its budget, a risk nobody knows or one below
\* that of the tool.
Allows(e, ok) == e \in Risky => ok

\* The approval is of no use any more.
Decided(c, pc) == caller' = [caller EXCEPT ![c].pc = pc, ![c].approved = FALSE]

\* A second intent of an effect raises.
Admit(c) ==
  LET e == caller[c].effect IN
  /\ caller[c].pc = "admit"
  /\ IF effectTape[e] # NoEffect
     THEN Refused(c) /\ UNCHANGED <<effectTape, executed>>
     ELSE /\ effectTape' = [effectTape EXCEPT ![e] = Open]
          /\ \/ Decided(c, "refuse") /\ UNCHANGED executed
             \/ /\ Allows(e, caller[c].approved)
                /\ Decided(c, "live")
                /\ executed' = [executed EXCEPT ![e] = Append(@, caller[c].approved)]
  /\ UNCHANGED <<control, stream, answered>>

\* A second outcome of an effect raises.
Fold(c, outcome) ==
  IF effectTape[caller[c].effect] = Open
  THEN /\ effectTape' = [effectTape EXCEPT ![caller[c].effect] = outcome]
       /\ MoveTo(c, "observe")
  ELSE Refused(c) /\ UNCHANGED effectTape

Refuse(c) ==
  /\ caller[c].pc = "refuse"
  /\ Fold(c, Rejected)
  /\ UNCHANGED <<control, stream, executed, answered>>

ToolReturns(c, outcome) ==
  /\ caller[c].pc = "live"
  /\ Fold(c, outcome)
  /\ UNCHANGED <<control, stream, executed, answered>>

\* reconcile_orphan tells the tape, and nothing else.
ReconcileOrphan(e, outcome) ==
  /\ effectTape[e] = Open
  /\ effectTape' = [effectTape EXCEPT ![e] = outcome]
  /\ UNCHANGED <<control, stream, caller, executed, answered>>

-----------------------------------------------------------------------------
(* The observation *)

Observe(c) ==
  /\ caller[c].pc = "observe"
  /\ caller' = [caller EXCEPT ![c].pc = "append",
                              ![c].observed = effectTape[caller[c].effect]]
  /\ UNCHANGED <<control, effectTape, stream, executed, answered>>

\* Mutant: the event of an effect is replaced by a later observation of it.
Appendable_Later(e, o) == TRUE

\* An event of the same identity with the same data is the event.
Appendable(e, o) == stream[e] \in {Nothing, Shown(o)}

\* append_agent_event knows no lease.
AppendEvent(c) ==
  LET e == caller[c].effect IN
  /\ caller[c].pc = "append"
  /\ IF Appendable(e, caller[c].observed)
     THEN /\ stream' = [stream EXCEPT ![e] = Shown(caller[c].observed)]
          /\ MoveTo(c, "return")
     ELSE Refused(c) /\ UNCHANGED stream
  /\ UNCHANGED <<control, effectTape, executed, answered>>

\* An effect that outlived its lease is done and told, and its caller is not.
Return(c) ==
  /\ caller[c].pc = "return"
  /\ answered' = IF caller[c].token = 0 \/ HoldsLease(caller[c].token)
                 THEN answered \cup {[effect |-> caller[c].effect,
                                      observed |-> caller[c].observed]}
                 ELSE answered
  /\ Refused(c)
  /\ UNCHANGED <<control, effectTape, stream, executed>>

\* The call is cancelled, or its process stops.
Stop(c) ==
  /\ caller[c] # Idle
  /\ Refused(c)
  /\ UNCHANGED <<control, effectTape, stream, executed, answered>>

-----------------------------------------------------------------------------
HostNext ==
  \/ WorkerClaims \/ Expire \/ RequestCancel
  \/ \E s \in {"waiting", "pending", "settled"} : RunSettles(s)
  \/ \E c \in Callers :
       \/ \E e \in HostEffects, ok \in BOOLEAN, token \in 0 .. MaxClaims :
            Start(c, e, ok, token)
       \/ ClaimForCall(c) \/ ReadBack(c) \/ Check(c)
       \/ RecoverEffect(c) \/ Admit(c) \/ Refuse(c)
       \/ \E o \in Outcomes : ToolReturns(c, o)
       \/ Observe(c) \/ AppendEvent(c) \/ Return(c) \/ Stop(c)
  \/ \E e \in HostEffects, o \in Outcomes : ReconcileOrphan(e, o)

HostSpec == HostInit /\ [][HostNext]_hostVars

-----------------------------------------------------------------------------
(* Properties *)

\* An effect is executed once, whoever takes the run over, approved if its risk
\* needs it, and never if its tape says it was refused.
ExecutedAsApproved ==
  \A e \in HostEffects :
    /\ Len(executed[e]) <= 1
    /\ e \in Risky => \A n \in DOMAIN executed[e] : executed[e][n]
    /\ executed[e] # <<>> => effectTape[e] # Rejected

\* The stream tells of an effect what its tape told when it was observed, and
\* every caller that was answered was told what the stream tells, whether the
\* run has been taken over, settled or cancelled since.
StreamTold ==
  /\ \A e \in HostEffects :
       stream[e] # Nothing =>
         \/ stream[e] = Shown(effectTape[e])
         \/ stream[e] = Open /\ effectTape[e] # NoEffect
  /\ \A a \in answered : stream[a.effect] = Shown(a.observed)

\* The effects of a run, as tape, stream and callers tell of them
\* (runtime.py execute_effect_for_run, decide_effect).
RunEffectsSound == ExecutedAsApproved /\ StreamTold

\* docs/runtime-contracts.md:239-242: a repeated proposal recovers a terminal
\* result: its event can be appended.
RepeatRecovers ==
  \A c \in Callers :
    caller[c].pc = "append" /\ caller[c].observed # Open =>
      Appendable(caller[c].effect, caller[c].observed)
=============================================================================
