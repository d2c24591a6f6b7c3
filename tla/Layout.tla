------------------------------- MODULE Layout -------------------------------
(***************************************************************************)
(* Where the menus are put (src/menu.c): configure, with its recursion     *)
(* into the submenus, and the boxes that the hit tests of Menu use.        *)
(*                                                                         *)
(* The surface has no size yet when menu_init calls menu_move, so that     *)
(* menu_configure returns; the first motion of the pointer calls it again, *)
(* and nothing does later.                                                 *)
(***************************************************************************)
EXTENDS Integers, Sequences

CONSTANTS
  Menus,
  Root,
  Entries,   \* of each menu: the height and the submenu of each entry
  Screens,   \* the sizes that the compositor may give to the surface
  Pointers,  \* where the pointer may be when it enters the surface
  NoMenu

ASSUME LayoutAssumption ==
  /\ Root \in Menus /\ NoMenu \notin Menus
  /\ Entries \in [Menus -> Seq([height : Nat \ {0}, submenu : Menus \union {NoMenu}])]
  /\ Screens \subseteq [width : Nat \ {0}, height : Nat \ {0}]
  /\ Pointers \subseteq [x : Nat, y : Nat]

VARIABLES
  screen,  \* the size of the surface, or 0 before its first configure
  box,     \* the box of each menu
  todo,    \* what the loops of configure have still to visit
  on       \* history: the screen for which the menus have been placed

vars == << screen, box, todo, on >>

MENU_ITEM_WIDTH == 170
MENU_PADDING_X == 1
MENU_PADDING_Y == 1
menu_overlap_x == -4

NoScreen == [width |-> 0, height |-> 0]
Box == [x : Int, y : Int, width : Nat, height : Nat]
Nowhere == [x |-> 0, y |-> 0, width |-> 0, height |-> 0]

(* A call of configure: the menu (or none, as the entry has no submenu),   *)
(* the box to align it to, and the alignment that it has inherited.        *)
Call == [menu : Menus \union {NoMenu}, ref : Box, right : BOOLEAN, bottom : BOOLEAN]
-----------------------------------------------------------------------------
(* How far below the first entry of menu m its k-th one is. *)
Offset(m) ==
  LET f[k \in 1 .. Len(Entries[m]) + 1] ==
        IF k = 1 THEN 0 ELSE f[k - 1] + Entries[m][k - 1].height
  IN  f

(* Slip: the last entry is left out. *)
height_but_last(m) == IF Entries[m] = << >> THEN 0 ELSE Offset(m)[Len(Entries[m])]

get_menu_height(m) == Offset(m)[Len(Entries[m]) + 1]

MenuWidth == MENU_ITEM_WIDTH + 2 * MENU_PADDING_X
MenuHeight(m) == get_menu_height(m) + MENU_PADDING_Y * 2

(* The box of entry k, when that of its menu m is b. *)
ItemBox(m, k, b) ==
  [x      |-> b.x + MENU_PADDING_X,
   y      |-> b.y + MENU_PADDING_Y + Offset(m)[k],
   width  |-> MENU_ITEM_WIDTH,
   height |-> Entries[m][k].height]

RefWidth(ref) == IF ref.width # 0 THEN ref.width - menu_overlap_x ELSE 0

(* Slips: the size of the menu itself is forgotten.                        *)
FitsRightOfRef(ref) == ref.x + RefWidth(ref) <= screen.width
FitsBelowRef(m, ref) == ref.y + ref.height <= screen.height

FitsRight(ref) == ref.x + RefWidth(ref) + MenuWidth <= screen.width
FitsLeft(ref) == ref.x - MenuWidth + menu_overlap_x >= 0
FitsBelow(m, ref) == ref.y + MenuHeight(m) <= screen.height
FitsAbove(m, ref) == ref.y + ref.height - MenuHeight(m) >= 0

(* The inherited side is kept if the menu fits there; otherwise it is the  *)
(* other one, whether it fits there or not.                                *)
RightAligned(c) == IF c.right THEN FitsLeft(c.ref) ELSE ~ FitsRight(c.ref)
BottomAligned(c) ==
  IF c.bottom THEN FitsAbove(c.menu, c.ref) ELSE ~ FitsBelow(c.menu, c.ref)

(* Slips: the gap to the left is made on the wrong side; a padding is      *)
(* forgotten.                                                              *)
PlacedAskew(c) ==
  [x      |-> IF RightAligned(c)
                THEN c.ref.x - MenuWidth - menu_overlap_x
                ELSE c.ref.x + RefWidth(c.ref),
   y      |-> IF BottomAligned(c)
                THEN c.ref.y + c.ref.height - MenuHeight(c.menu)
                ELSE c.ref.y,
   width  |-> MenuWidth,
   height |-> MenuHeight(c.menu)]

PlacedNarrow(c) ==
  [x      |-> IF RightAligned(c)
                THEN c.ref.x - MenuWidth + menu_overlap_x
                ELSE c.ref.x + RefWidth(c.ref),
   y      |-> IF BottomAligned(c)
                THEN c.ref.y + c.ref.height - MenuHeight(c.menu)
                ELSE c.ref.y,
   width  |-> MENU_ITEM_WIDTH + MENU_PADDING_X,
   height |-> MenuHeight(c.menu)]

Placed(c) ==
  [x      |-> IF RightAligned(c)
                THEN c.ref.x - MenuWidth + menu_overlap_x
                ELSE c.ref.x + RefWidth(c.ref),
   y      |-> IF BottomAligned(c)
                THEN c.ref.y + c.ref.height - MenuHeight(c.menu)
                ELSE c.ref.y,
   width  |-> MenuWidth,
   height |-> MenuHeight(c.menu)]

(* The rest of configure: the loop over the entries of the menu that has   *)
(* been placed at b, which calls configure for those with a submenu.       *)
Loop(c, b) ==
  [k \in 1 .. Len(Entries[c.menu]) |->
     [menu   |-> Entries[c.menu][k].submenu,
      ref    |-> ItemBox(c.menu, k, b),
      right  |-> RightAligned(c),
      bottom |-> BottomAligned(c)]]

(* The next step of all these loops. *)
configure ==
  /\ todo # << >>
  /\ LET c == Head(todo)
     IN  \/ /\ c.menu = NoMenu
            /\ todo' = Tail(todo)
            /\ UNCHANGED box
         \/ /\ c.menu # NoMenu
            /\ box' = [box EXCEPT ![c.menu] = Placed(c)]
            /\ todo' = Loop(c, Placed(c)) \o Tail(todo)
  /\ UNCHANGED << screen, on >>
-----------------------------------------------------------------------------
layer_surface_configure(s) ==
  /\ todo = << >>
  /\ screen' = s
  /\ UNCHANGED << box, todo, on >>

(* The pointer enters the surface, somewhere on it: the root menu is       *)
(* aligned to a box without size, and any alignment is still the initial   *)
(* one.                                                                    *)
process_initial_position(p) ==
  /\ screen # NoScreen /\ on = NoScreen
  /\ p.x < screen.width /\ p.y < screen.height
  /\ on' = screen
  /\ todo' = << [menu |-> Root,
                 ref  |-> [x |-> p.x, y |-> p.y, width |-> 0, height |-> 0],
                 right |-> FALSE, bottom |-> FALSE] >>
  /\ UNCHANGED << screen, box >>

Init ==
  /\ screen = NoScreen
  /\ box = [m \in Menus |-> Nowhere]
  /\ todo = << >>
  /\ on = NoScreen

Next ==
  \/ \E s \in Screens : layer_surface_configure(s)
  \/ \E p \in Pointers : process_initial_position(p)
  \/ configure

Spec == Init /\ [][Next]_vars
-----------------------------------------------------------------------------
TypeOK ==
  /\ screen \in Screens \union {NoScreen}
  /\ box \in [Menus -> Box]
  /\ \A m \in Menus : box[m].width \in {0, MenuWidth}
  /\ todo \in Seq(Call)
  /\ \A i \in 1 .. Len(todo) : todo[i].ref.width \in {0, MENU_ITEM_WIDTH}
  /\ on \in Screens \union {NoScreen}

IsPlaced(m) == box[m].width # 0

(* Each menu is deeper than the ones that open it: there is no cycle, in   *)
(* which configure would never come back.                                  *)
Deeper(depth) ==
  \A m \in Menus : \A k \in 1 .. Len(Entries[m]) :
    LET sub == Entries[m][k].submenu
    IN  sub # NoMenu => depth[m] < depth[sub]

(* configure never tests the side it flips to.  Yet on a screen that is    *)
(* wide enough for a menu on each side of an item every menu, at any       *)
(* depth, is on the screen from its left to its right.                     *)
FitsAcross ==
  on.width >= 2 * (MenuWidth - menu_overlap_x) + MENU_ITEM_WIDTH - 1 =>
    \A m \in Menus : IsPlaced(m) => box[m].x >= 0 /\ box[m].x + MenuWidth <= on.width

(* The same from top to bottom, if the screen has room for the tallest     *)
(* menu both above and below any point.                                    *)
FitsDown ==
  (\A m \in Menus : on.height >= 2 * MenuHeight(m) - 1) =>
    \A m \in Menus : IsPlaced(m) => /\ box[m].y >= 0
                                    /\ box[m].y + box[m].height <= on.height

(* box_contains_point, with whole coordinates *)
Contains(b, x, y) ==
  /\ b.x <= x /\ x < b.x + b.width
  /\ b.y <= y /\ y < b.y + b.height

(* What Menu assumes of the hit tests: the entries of a menu lie in it     *)
(* and do not overlap.                                                     *)
HitTestsAgree ==
  \A m \in Menus : IsPlaced(m) =>
    \A k \in 1 .. Len(Entries[m]) :
      LET b == ItemBox(m, k, box[m])
      IN  /\ Contains(box[m], b.x, b.y)
          /\ Contains(box[m], b.x + b.width - 1, b.y + b.height - 1)
          /\ \A j \in 1 .. k - 1 : LET a == ItemBox(m, j, box[m])
                                   IN  a.y + a.height <= b.y

(* Menu m is beside entry k of menu n, level with its top or its bottom,   *)
(* and covers no part of n.                                                *)
Beside(m, n, k) ==
  LET i == ItemBox(n, k, box[n])
  IN  /\ \/ box[m].x + box[m].width <= box[n].x
         \/ box[n].x + box[n].width <= box[m].x
      /\ \/ box[m].y = i.y
         \/ box[m].y + box[m].height = i.y + i.height

(* Each submenu stands beside the item that opens it: the pointer is never *)
(* on both menus.  (If references make one menu the submenu of several     *)
(* items it stands beside one of them.)                                    *)
BesideOpener ==
  todo = << >> =>
    \A m \in Menus \ {Root} : IsPlaced(m) =>
      \E n \in Menus : \E k \in 1 .. Len(Entries[n]) :
        Entries[n][k].submenu = m /\ Beside(m, n, k)
=============================================================================
