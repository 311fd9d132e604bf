----------------------------- MODULE FencedLog -----------------------------
(***************************************************************************)
(* What a fenced lease promises, without clocks, states or tables: every   *)
(* object has an epoch, at most one owner (the holder of the newest epoch) *)
(* and a log of the epochs under which it was written.  Only the owner     *)
(* writes; it may give the object up with a write, and loses it otherwise  *)
(* only to the holder of a newer epoch.                                    *)
(***************************************************************************)
EXTENDS Naturals, Sequences

CONSTANT Objects

VARIABLES
  epoch,  \* the number of acquisitions so far
  owner,  \* the epoch that owns the object, 0 for nobody
  log     \* the epochs of the committed writes, in commit order

vars == <<epoch, owner, log>>

Init ==
  /\ epoch = [x \in Objects |-> 0]
  /\ owner = [x \in Objects |-> 0]
  /\ log = [x \in Objects |-> <<>>]

Acquire(x) ==
  /\ epoch' = [epoch EXCEPT ![x] = @ + 1]
  /\ owner' = [owner EXCEPT ![x] = epoch[x] + 1]
  /\ UNCHANGED log

Write(x) ==
  /\ owner[x] # 0
  /\ log' = [log EXCEPT ![x] = Append(@, owner[x])]
  /\ \/ UNCHANGED owner
     \/ owner' = [owner EXCEPT ![x] = 0]
  /\ UNCHANGED epoch

Next == \E x \in Objects : Acquire(x) \/ Write(x)

Spec == Init /\ [][Next]_vars

=============================================================================
