---------------------------- MODULE MCRunEffects ----------------------------
(* RunEffects for TLC: a tool that returns an object. *)
EXTENDS RunEffects

Objects == {[status |-> "succeeded", value |-> "object"]}
=============================================================================
