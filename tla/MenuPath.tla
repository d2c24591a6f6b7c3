------------------------------ MODULE MenuPath ------------------------------
(***************************************************************************)
(* What the menu promises a patient user, with nothing said of hover       *)
(* timers, hit tests or keys: the screen shows a path of menus that starts *)
(* at the root, each opened by an item of the one before it; the           *)
(* highlighted item, once there is one, is on that path; and the program   *)
(* ends by itself or by running the highlighted item.                      *)
(***************************************************************************)
EXTENDS Naturals, Sequences

CONSTANTS
  Item,    \* the items that can be highlighted
  Owner,   \* the menu of each item
  Opens,   \* the menu that an item opens, for those that open one
  RootMenu,
  None     \* no item

VARIABLES
  path,    \* the menus on the screen, the root first
  cursor,  \* the highlighted item
  ran,     \* the item whose command was run last
  ended    \* whether the user is done

vars == << path, cursor, ran, ended >>

(* The item i is on the first n menus of the path. *)
On(i, n) == n <= Len(path) /\ \E k \in 1 .. n : path[k] = Owner[i]

Init == path = << >> /\ cursor = None /\ ran = None /\ ended = FALSE

(* The root menu appears, alone. *)
Appear ==
  /\ path = << >>
  /\ path' = << RootMenu >>
  /\ cursor' \in {i \in Item : Owner[i] = RootMenu} \union {None}

(* An item on the screen is highlighted; menus at the end of the path may  *)
(* be taken away, but not the one that the item is in.                     *)
Highlight(i) ==
  /\ \E n \in 1 .. Len(path) : On(i, n) /\ path' = SubSeq(path, 1, n)
  /\ cursor' = i

(* The submenu of the highlighted item is shown, in place of whatever is   *)
(* shown beyond the menu of that item.                                     *)
Unfold(i) ==
  /\ i \in DOMAIN Opens
  /\ \E n \in 1 .. Len(path) :
       path[n] = Owner[i] /\ path' = Append(SubSeq(path, 1, n), Opens[i])
  /\ cursor' = i

Move ==
  \/ Appear
  \/ \E i \in Item : Highlight(i) \/ Unfold(i)
  \/ UNCHANGED << path, cursor >>

(* The highlighted item is run, and that is the end. *)
Run == ran' = cursor' /\ cursor' # None /\ ended' = TRUE

Leave == ended' = TRUE /\ UNCHANGED ran

Next == Move /\ (Run \/ Leave \/ UNCHANGED << ran, ended >>)

Spec == Init /\ [][Next]_vars
=============================================================================
