----------------------------- MODULE ClaimTape -----------------------------
(***************************************************************************)
(* What a Claim store promises to those who fold into it: the tape only    *)
(* grows, at its end, a claim id is on it once and names one payload for   *)
(* ever, and delivering a claim again changes nothing.                     *)
(***************************************************************************)
EXTENDS Sequences

CONSTANTS Ids, Payloads

VARIABLE tape  \* the admitted claims in order

Claim == [id : Ids, payload : Payloads]

Init == tape = <<>>

Admit(c) ==
  /\ \A i \in DOMAIN tape : tape[i].id # c.id
  /\ tape' = Append(tape, c)

Next == \E c \in Claim : Admit(c)

Spec == Init /\ [][Next]_tape
=============================================================================
