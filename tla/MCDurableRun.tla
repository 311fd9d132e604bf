---------------------------- MODULE MCDurableRun ----------------------------
(* DurableRun for TLC: a run without approvals and inputs. *)
EXTENDS DurableRun

NoBoundary == {[approvals |-> {}, inputs |-> {}]}
=============================================================================
