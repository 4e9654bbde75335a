------------------------- MODULE LedgerContract -------------------------
(***************************************************************************)
(* What the version ledger promises the release runs, whatever calls they  *)
(* make to get it: a run is given one build number, once, above every      *)
(* number given before, and a number is used up in rising order, at most   *)
(* once, before anything is published under it.                            *)
(***************************************************************************)
EXTENDS Naturals

CONSTANT Runs   \* the workflow runs

VARIABLES
  allocated,   \* the number of each run, 0 before it has one
  consumed     \* the number last used up

vars == <<allocated, consumed>>

Init == allocated = [r \in Runs |-> 0] /\ consumed = 0

Allocate(r) ==
  /\ allocated[r] = 0
  /\ \A q \in Runs : allocated[q] < allocated'[r]
  /\ consumed < allocated'[r]
  /\ allocated' = [allocated EXCEPT ![r] = allocated'[r]]
  /\ UNCHANGED consumed

Consume(r) ==
  /\ consumed < allocated[r]
  /\ consumed' = allocated[r]
  /\ UNCHANGED allocated

Next == \E r \in Runs : Allocate(r) \/ Consume(r)

Spec == Init /\ [][Next]_vars

=============================================================================
