-------------------------------- MODULE Dish ---------------------------------
(***************************************************************************)
(* What a dish guarded by a mutex promises to the processes that share it: *)
(* one visitor at a time; a visit puts in or takes out at most one meal,   *)
(* once; and between visits nothing happens to the meals.  Kitchen         *)
(* implements it for the Vegan dish, and the bounded buffer of             *)
(* ThreadLessons with things for meals.                                    *)
(***************************************************************************)
CONSTANTS Visitors, Slots, None   \* None is not a visitor

VARIABLES
  visitor,   \* who is at the dish, None if nobody
  served,    \* TRUE once the visitor had its turn at the slots
  meals      \* the occupied slots

vars == <<visitor, served, meals>>

Init == visitor = None /\ served = FALSE /\ meals = {}

Arrive ==
  /\ visitor = None
  /\ visitor' \in Visitors
  /\ UNCHANGED <<served, meals>>

\* The visitor fills one free slot, clears one filled slot, or finds none.
Serve ==
  /\ visitor # None
  /\ ~served
  /\ served' = TRUE
  /\ \/ \E i \in Slots \ meals : meals' = meals \cup {i}
     \/ \E i \in meals : meals' = meals \ {i}
     \/ meals' = meals
  /\ UNCHANGED visitor

\* The visitor leaves; it may be killed before it was served.
Leave ==
  /\ visitor # None
  /\ visitor' = None
  /\ served' = FALSE
  /\ UNCHANGED meals

Next == Arrive \/ Serve \/ Leave

Spec == Init /\ [][Next]_vars
=============================================================================
