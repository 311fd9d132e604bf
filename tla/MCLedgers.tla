----------------------------- MODULE MCLedgers -----------------------------
(***************************************************************************)
(* The ledgers that a side effect leaves its trace in: the claim tape of a  *)
(* ToolHarness (EffectTape), the journal of provider writes                *)
(* (OperationJournal), what the connectors make of it (Connectors), and the *)
(* Claim store (ClaimStore).  A behaviour is about the one that is          *)
(* `checked` and leaves the others as they began.                           *)
(***************************************************************************)
EXTENDS EffectTape, OperationJournal, ClaimStore, Connectors, TLC

CONSTANTS
  p1, p2,         \* processes of a tape, reconcilers of the journal, handles, callers
  c1, c2, c3, r1, \* calls of a tape; c1, c2: callers, payloads
  e1, e2,         \* effects of a tape, keys of the journal, claim ids
  n1, n2          \* provider identities

VARIABLE checked  \* the component a behaviour is about

ASSUME StoreBoundsAreNaturals == BoundsAreNaturals

InitLedgers ==
  /\ checked \in {"tape", "journal", "store", "writes"}
  /\ Init /\ (checked # "tape" => \A c, d \in AllCalls : home[c] = home[d])
  /\ JournalInit /\ StoreInit /\ WritesInit

NextLedgers ==
  /\ UNCHANGED checked
  /\ \/ checked = "tape" /\ Next
        /\ UNCHANGED <<journalVars, storeVars, writesVars>>
     \/ checked = "journal" /\ JournalNext
        /\ UNCHANGED <<vars, storeVars, writesVars>>
     \/ checked = "store" /\ StoreNext
        /\ UNCHANGED <<vars, journalVars, writesVars>>
     \/ checked = "writes" /\ WritesNext
        /\ UNCHANGED <<vars, journalVars, storeVars>>

SpecLedgers ==
  /\ InitLedgers
  /\ [][NextLedgers]_<<checked, vars, journalVars, storeVars, writesVars>>

-----------------------------------------------------------------------------
\* c1 and c2 are calls of one effect, c3 of another one under the same budget.
SharedEffect == [c \in AllCalls |-> IF c = c3 THEN e2 ELSE e1]

Unit == [e \in Effects |-> 1]

\* Processes are interchangeable, and so are the calls of e1.
Interchangeable == Permutations({p1, p2}) \cup Permutations({c1, c2})

=============================================================================
