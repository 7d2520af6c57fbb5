---------------------------- MODULE BulkContract ----------------------------
(***************************************************************************)
(* What a bulk metrics call promises its caller, without groups, workers,  *)
(* locks or a concurrency limit: every input item gets one outcome, chosen *)
(* once and for that item alone, and the call returns when all items have  *)
(* one.                                                                    *)
(***************************************************************************)
CONSTANTS
  Outcomes(_, _),  \* outcomes an item may end with: its descriptor, its index
  Unresolved       \* the outcome of an item that has none yet

VARIABLES
  request,      \* descriptor of each input item
  outcome,      \* outcome of each input item
  returned      \* whether the caller has its response

contractVars == <<request, outcome, returned>>

Init ==
  /\ outcome = [i \in DOMAIN request |-> Unresolved]
  /\ returned = FALSE

\* Items without an outcome may get one of their own; the others keep theirs.
Resolve ==
  /\ DOMAIN outcome' = DOMAIN request
  /\ \A i \in DOMAIN request :
       \/ outcome'[i] = outcome[i]
       \/ outcome[i] = Unresolved /\ outcome'[i] \in Outcomes(request[i], i)

\* The response goes out once, with every item resolved.
Answer ==
  /\ returned' \in BOOLEAN
  /\ returned' => \A i \in DOMAIN request : outcome'[i] # Unresolved

Next == ~returned /\ Resolve /\ Answer /\ UNCHANGED request

Spec == Init /\ [][Next]_contractVars /\ <>returned
=============================================================================
