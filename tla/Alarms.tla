------------------------------- MODULE Alarms -------------------------------
(***************************************************************************)
(* What the timers of the event loop promise to those who use them: each   *)
(* user has one alarm, which goes off only while it is set, and once for   *)
(* each time it has been set.                                              *)
(***************************************************************************)
CONSTANT Users

VARIABLES
  set,   \* the users whose alarm is set
  rings  \* the user whose alarm goes off in this step, if any

vars == << set, rings >>

Silent == "none"

Init == set = {} /\ rings = Silent

(* Users set and cancel their alarms, one at a time, or do nothing.        *)
Set(u) == set' = set \union {u} /\ rings' = Silent
Cancel(u) == set' = set \ {u} /\ rings' = Silent
Wait == set' = set /\ rings' = Silent

(* An alarm that goes off is no longer set, unless its user sets it again. *)
GoOff(u) ==
  /\ u \in set
  /\ set' \in {set, set \ {u}}
  /\ rings' = u

Next == Wait \/ \E u \in Users : Set(u) \/ Cancel(u) \/ GoOff(u)

Spec == Init /\ [][Next]_vars
=============================================================================
