-------------------------------- MODULE Menu --------------------------------
(***************************************************************************)
(* The menu while it is on the screen (src/menu.c, with the calls into it  *)
(* from src/seat.c and src/main.c): which menus are visible, which item is *)
(* selected, the hover timer that opens submenus late, and the ways to     *)
(* leave.                                                                  *)
(*                                                                         *)
(* The menus that menu_init has built do not change any more and are a     *)
(* constant.  An item is a pair <<m, k>>: entry k, in document order, of   *)
(* menu m.  The list head that closes the circular wl_list of menu m is    *)
(* <<m, 0>>, and NULL is <<0, 0>>.                                         *)
(***************************************************************************)
EXTENDS Naturals, Sequences, FiniteSets

CONSTANTS
  NMenus,     \* nr_menus: the vector `menus' is 1 .. NMenus
  Entries,    \* the entries of each menu, in document order
  Root,       \* state->menu
  Positions,  \* what the pointer can be over: see Position
  Codepoint,  \* the characters of the keyboard
  BufSize     \* the size of the search buffer

Menus == 1 .. NMenus

(* A separator is not selectable; submenu = 0 stands for NULL, and command *)
(* says whether there is a command to run.                                 *)
Entry == [selectable : BOOLEAN, submenu : 0 .. NMenus, command : BOOLEAN]

(* A pointer position, as the hit tests of menu.c see it: the entry of     *)
(* each menu whose box contains it (0 for none; the boxes of one menu do   *)
(* not overlap, but those of two menus may), and the menus whose own box   *)
(* contains it.                                                            *)
Position == [item : [Menus -> Nat], inside : SUBSET Menus]

ASSUME MenuAssumption ==
  /\ NMenus \in Nat \ {0}
  /\ Entries \in [Menus -> Seq(Entry)]
  /\ \A m \in Menus : \A k \in 1 .. Len(Entries[m]) :
       Entries[m][k].submenu # 0 => Entries[m][k].selectable
  /\ Root \in Menus
  /\ Positions \subseteq Position
  /\ \A p \in Positions : \A m \in Menus :
       /\ p.item[m] \in 0 .. Len(Entries[m])
       /\ p.item[m] # 0 => m \in p.inside
  /\ Codepoint \subseteq {c \in Nat : 0 < c /\ c < 1114112}
  /\ BufSize \in Nat

VARIABLES
  visible,      \* the menus whose `visible' is set
  selection,    \* state->selection
  hover_timer,  \* whether state->hover_timer is armed
  has_run,      \* the static flag of menu_handle_cursor_motion
  pointer,      \* seat->pointer_x, pointer_y
  dirty,        \* surface->dirty: something is to be drawn
  run_display,  \* state->run_display
  exited,       \* the loop of run() has ended
  fate,         \* "alive", or how the process died
  launched,     \* the item whose command was run last
  data          \* the search buffer

vars == << visible, selection, hover_timer, has_run, pointer, dirty,
           run_display, exited, fate, launched, data >>

Query == INSTANCE Search
-----------------------------------------------------------------------------
(* The tree of menus. *)

NoItem == << 0, 0 >>
ListHead(m) == << m, 0 >>
Items == UNION {{<< m, k >> : k \in 1 .. Len(Entries[m])} : m \in Menus}
At(i) == Entries[i[1]][i[2]]
Children(m) == {Entries[m][k].submenu : k \in 1 .. Len(Entries[m])} \ {0}

(* The menus below each menu, that is, the least set with its children and *)
(* the children of its members: what close_all_submenus recurs over.       *)
Below == [m \in Menus |->
  {d \in Menus : \A S \in SUBSET Menus :
     (Children(m) \subseteq S /\ \A x \in S : Children(x) \subseteq S) => d \in S}]

(* The items that open menu m. *)
Openers(m) == {i \in Items : At(i).submenu = m}

(* A menu file without references to a menu that is already in use: each   *)
(* menu is opened by one item at most, the root menu by none, and no menu  *)
(* is below itself.                                                        *)
IsTree ==
  /\ \A i, j \in Items : At(i).submenu # 0 /\ At(i).submenu = At(j).submenu => i = j
  /\ Openers(Root) = {}
  /\ \A m \in Menus : m \notin Below[m]

(* Menus that one can go into: each has an entry, and the first, which is  *)
(* selected then, is no separator.                                         *)
NoEmptyMenus == \A m \in Menus : Entries[m] # << >>
NoneBeginsWithSeparator ==
  \A m \in Menus : Entries[m] # << >> => Entries[m][1].selectable
-----------------------------------------------------------------------------
(* The helpers of menu.c.  The slips among them, and further down, are     *)
(* what the operator after them might have been by mistake.                *)

(* Slips: the menus below the children stay; the menu itself goes too.     *)
close_children_only(vis, m) == vis \ Children(m)
close_menu_itself(vis, m) == vis \ (Below[m] \union {m})

close_all_submenus(vis, m) == vis \ Below[m]

(* A slip: the other submenus stay open. *)
open_without_closing(vis, i) == vis \union {At(i).submenu}

open_submenu(vis, i) == close_all_submenus(vis, i[1]) \union {At(i).submenu}

(* menuitems.prev is the first entry, or the list head if there is none.   *)
FirstOf(m) == IF Entries[m] = << >> THEN ListHead(m) ELSE << m, 1 >>

(* A slip: the loop over the vector begins one too late. *)
first_selectable_after_one ==
  IF visible \subseteq {1}
    THEN NoItem
    ELSE FirstOf(CHOOSE m \in visible \ {1} : \A n \in visible \ {1} : m <= n)

(* The first entry, selectable or not, of the first visible menu of the    *)
(* vector.                                                                 *)
first_selectable_menuitem ==
  IF visible = {}
    THEN NoItem
    ELSE FirstOf(CHOOSE m \in visible : \A n \in visible : m <= n)

(* The item found first (menus in order, entries from the last to the      *)
(* first) whose submenu is the menu i belongs to; i itself if there is     *)
(* none.  menu_from_item knows neither NULL nor a list head: it returns    *)
(* NULL for them, and then any item without a submenu matches.             *)
parent_of(i) ==
  LET child == IF i \in Items THEN i[1] ELSE 0
      found == {j \in Items : At(j).submenu = child}
  IN  IF found = {}
        THEN i
        ELSE CHOOSE j \in found :
               \A n \in found : \/ j[1] < n[1]
                                \/ j[1] = n[1] /\ j[2] >= n[2]

(* A slip: the list head instead of the first entry. *)
head_of_child(i) == ListHead(At(i).submenu)

child_of(i) == FirstOf(At(i).submenu)

Selectables(m) == {k \in 1 .. Len(Entries[m]) : Entries[m][k].selectable}

(* How many steps along the circular list, whose head is position 0, lead  *)
(* from position k of menu m to position j (all the way round to k).       *)
Steps(m, dir, k, j) ==
  LET n == Len(Entries[m]) + 1
      d == IF dir = "Down" THEN j + n - k ELSE k + n - j
  IN  IF d > n THEN d - n ELSE d

(* A slip: separators are not skipped. *)
MovedByOne(i, dir) ==
  << i[1], CHOOSE j \in 1 .. Len(Entries[i[1]]) :
             \A k \in 1 .. Len(Entries[i[1]]) :
               Steps(i[1], dir, i[2], j) <= Steps(i[1], dir, i[2], k) >>

(* Where move_selection ends: the nearest selectable entry. *)
Moved(i, dir) ==
  << i[1], CHOOSE j \in Selectables(i[1]) :
             \A k \in Selectables(i[1]) :
               Steps(i[1], dir, i[2], j) <= Steps(i[1], dir, i[2], k) >>

(* Whether the loop of menu_handle_cursor_motion over menu m ends at the   *)
(* entry under the pointer: an ordinary item, or a submenu not yet open.   *)
Breaks(vis, p, m) ==
  /\ p.item[m] # 0
  /\ Entries[m][p.item[m]].selectable
  /\ Entries[m][p.item[m]].submenu \notin vis

(* Whether that loop, which runs from the last entry to the first, gets as *)
(* far as item i and recurs into its submenu.                              *)
Recurs(vis, p, i) ==
  /\ At(i).submenu \in vis
  /\ p.item[i[1]] # i[2]
  /\ Breaks(vis, p, i[1]) => i[2] > p.item[i[1]]

(* The items on the way from the root menu to menu m. *)
Way == [m \in Menus |->
  {i \in Items : /\ At(i).submenu \in Below[Root]
                 /\ At(i).submenu = m \/ m \in Below[At(i).submenu]}]

(* The menus menu_handle_cursor_motion is called for, from the root.       *)
Entered(vis, p) ==
  {m \in {Root} \union Below[Root] : \A i \in Way[m] : Recurs(vis, p, i)}

(* How many menus are above menu m. *)
Depth == [m \in Menus |-> Cardinality({a \in Menus : m \in Below[a]})]

(* A slip: the lowest menu has the last word. *)
AfterMotionFromBelow(vis, sel, p) ==
  LET stops  == {m \in Entered(vis, p) : Breaks(vis, p, m)}
      closed == {m \in stops : Entries[m][p.item[m]].submenu = 0}
      low    == CHOOSE m \in stops : \A n \in stops : Depth[m] >= Depth[n]
  IN  [visible   |-> vis \ UNION {Below[m] : m \in closed},
       selection |-> IF stops = {} THEN sel ELSE << low, p.item[low] >>]

(* The selection and the visible menus after the pointer has moved to p.   *)
(* In a tree with one open submenu per menu the menus entered are a path,  *)
(* and the recursive call returns before the caller goes on: the upper one *)
(* has the last word on the selection.                                     *)
AfterMotion(vis, sel, p) ==
  LET stops  == {m \in Entered(vis, p) : Breaks(vis, p, m)}
      closed == {m \in stops : Entries[m][p.item[m]].submenu = 0}
      top    == CHOOSE m \in stops : \A n \in stops : Depth[m] <= Depth[n]
  IN  [visible   |-> vis \ UNION {Below[m] : m \in closed},
       selection |-> IF stops = {} THEN sel ELSE << top, p.item[top] >>]

(* The loop of menu_handle_cursor_motion over the list of a menu, which    *)
(* ends at the list head: what it makes of the screen s from item i on.    *)
(* It recurs into open submenus on its way.  (loop tells what it does from *)
(* the other places on.)                                                   *)
Places == Items \union {ListHead(m) : m \in Menus}
LastOf(m) == << m, Len(Entries[m]) >>
Screen == [visible : SUBSET Menus, selection : Places \union {NoItem}]

MotionRound(loop, p, i, s) ==
  LET sub     == At(i).submenu
      open    == sub \in s.visible
      rest(t) == loop[<< p, << i[1], i[2] - 1 >>, t >>]
  IN  IF i \notin Items THEN s
      ELSE IF p.item[i[1]] # i[2]
        THEN rest(IF open THEN loop[<< p, LastOf(sub), s >>] ELSE s)
      ELSE IF ~ At(i).selectable \/ open THEN rest(s)
      ELSE [visible   |-> IF sub = 0 THEN close_all_submenus(s.visible, i[1])
                                     ELSE s.visible,
            selection |-> i]

MotionLoop[x \in Positions \X Places \X Screen] ==
  MotionRound(MotionLoop, x[1], x[2], x[3])
-----------------------------------------------------------------------------
(* The handlers. *)

Running == fate = "alive" /\ ~ exited

surface_damage == dirty' = TRUE

(* The process dies: an assertion fails, NULL is dereferenced, a list head *)
(* is used as an item, or a loop does not end.                             *)
Dies(how) ==
  /\ fate' = how
  /\ UNCHANGED << visible, selection, hover_timer, has_run, pointer, dirty,
                  run_display, exited, launched, data >>

(* spawn_async_no_shell(item->command): nothing is run without a command.  *)
spawn_async_no_shell(i) ==
  launched' = IF At(i).command THEN i ELSE launched

Select(i) == selection' = i

(* menu_handle_key begins by selecting something. *)
KeySelection ==
  IF selection = NoItem THEN first_selectable_menuitem ELSE selection

(* The arrow keys up and down. *)
MoveKey(dir) ==
  LET i == KeySelection
      j == Moved(i, dir)
  IN  \/ i \notin Items /\ Dies("assert")
      \/ i \in Items /\ Selectables(i[1]) = {} /\ Dies("hang")
      \/ /\ i \in Items /\ Selectables(i[1]) # {}
         /\ Select(j)
         /\ visible' = IF At(j).submenu # 0 THEN open_submenu(visible, j)
                                            ELSE close_all_submenus(visible, j[1])
         /\ surface_damage
         /\ UNCHANGED << hover_timer, has_run, pointer, run_display, exited,
                         fate, launched, data >>

(* The right arrow key: into the submenu of the selected item. *)
RightKey ==
  LET i == KeySelection
  IN  \/ i = NoItem /\ Dies("null")
      \/ i # NoItem /\ i \notin Items /\ Dies("undefined")
      \/ /\ i \in Items
         /\ Select(IF At(i).submenu # 0 THEN child_of(i) ELSE i)
         /\ surface_damage
         /\ UNCHANGED << visible, hover_timer, has_run, pointer, run_display,
                         exited, fate, launched, data >>

(* The left arrow key: to the item that opens the menu of the selection. *)
LeftKey ==
  /\ Select(parent_of(KeySelection))
  /\ surface_damage
  /\ UNCHANGED << visible, hover_timer, has_run, pointer, run_display, exited,
                  fate, launched, data >>

ReturnKey ==
  LET i == KeySelection
  IN  \/ i = NoItem /\ Dies("null")
      \/ i # NoItem /\ i \notin Items /\ Dies("undefined")
      \/ /\ i \in Items
         /\ Select(i)
         /\ spawn_async_no_shell(i)
         /\ run_display' = FALSE
         /\ surface_damage
         /\ UNCHANGED << visible, hover_timer, has_run, pointer, exited, fate,
                         data >>

EscapeKey ==
  /\ Select(KeySelection)
  /\ run_display' = FALSE
  /\ surface_damage
  /\ UNCHANGED << visible, hover_timer, has_run, pointer, exited, fate,
                  launched, data >>

(* BackSpace edits the search buffer, and so does every key that is not    *)
(* listed and has a code point.                                            *)
TextKey ==
  /\ Select(KeySelection)
  /\ \/ Query!search_remove_last_uft8_character
     \/ \E ch \in Codepoint : Query!search_add_utf8_character(ch)
     \/ UNCHANGED data
  /\ surface_damage
  /\ UNCHANGED << visible, hover_timer, has_run, pointer, run_display, exited,
                  fate, launched >>

(* A key pressed or repeated. *)
menu_handle_key(key) ==
  CASE key \in {"Up", "Down"} -> MoveKey(key)
    [] key = "Right"  -> RightKey
    [] key = "Left"   -> LeftKey
    [] key = "Return" -> ReturnKey
    [] key = "Escape" -> EscapeKey
    [] key = "Text"   -> TextKey

Keys == {"Up", "Down", "Right", "Left", "Return", "Escape", "Text"}

(* What the pointer leaves behind for a button of the same frame: motion   *)
(* says whether the frame has one (an enter counts).  The first motion     *)
(* places the root menu at the pointer and shows it.                       *)
AfterFrame(motion, p) ==
  IF motion
    THEN AfterMotion(IF has_run THEN visible ELSE visible \union {Root},
                     selection, p)
    ELSE [visible |-> visible, selection |-> selection]

(* A slip: a frame without a motion cancels the timer. *)
motion_cancels_timer(motion, p) ==
  LET after == AfterFrame(motion, p)
  IN  /\ has_run' = (has_run \/ motion)
      /\ hover_timer' = motion
      /\ pointer' = p
      /\ visible' = after.visible
      /\ selection' = after.selection

(* menu_handle_cursor_motion(state->menu, x, y). *)
menu_handle_cursor_motion(motion, p) ==
  LET after == AfterFrame(motion, p)
  IN  /\ has_run' = (has_run \/ motion)
      /\ hover_timer' = (hover_timer \/ motion)
      /\ pointer' = p
      /\ visible' = after.visible
      /\ selection' = after.selection

(* A button pressed outside of every visible menu closes the program. *)
menu_handle_button_pressed(p) ==
  /\ run_display' = (run_display /\ visible' \intersect p.inside # {})
  /\ UNCHANGED launched

(* A slip: the program goes on after the command has been run. *)
released_and_stays ==
  /\ IF selection' = NoItem THEN UNCHANGED launched
                            ELSE spawn_async_no_shell(selection')
  /\ UNCHANGED run_display

(* A button released runs the selection, wherever the pointer is. *)
menu_handle_button_released ==
  IF selection' = NoItem
    THEN UNCHANGED << run_display, launched >>
    ELSE spawn_async_no_shell(selection') /\ run_display' = FALSE

(* The events of one frame: a motion first, then the last button event, or *)
(* neither (axis, leave).  The compositor sends buttons to a surface only  *)
(* after the pointer has entered it.                                       *)
handle_wl_pointer_frame(motion, p, button) ==
  /\ motion \/ p = pointer
  /\ motion \/ has_run
  /\ menu_handle_cursor_motion(motion, p)
  /\ \/ button = "none" /\ UNCHANGED << run_display, launched >>
     \/ button = "pressed" /\ menu_handle_button_pressed(p)
     \/ /\ button = "released"
        /\ selection' = NoItem \/ selection' \in Items
        /\ menu_handle_button_released
  /\ surface_damage
  /\ UNCHANGED << exited, fate, data >>

(* A button released when the selection is a list head. *)
ReleaseWild(motion, p) ==
  /\ motion \/ p = pointer
  /\ motion \/ has_run
  /\ AfterFrame(motion, p).selection \notin Items \union {NoItem}
  /\ Dies("undefined")

(* The hover timer expires. *)
timer_hover_clear ==
  /\ hover_timer
  /\ \/ /\ selection = NoItem
        /\ hover_timer' = FALSE
        /\ UNCHANGED << visible, dirty, fate >>
     \/ /\ selection \in Items
        /\ hover_timer' = FALSE
        /\ visible' = IF At(selection).submenu # 0
                        THEN open_submenu(visible, selection) ELSE visible
        /\ surface_damage
        /\ UNCHANGED fate
     \/ /\ selection \notin Items \union {NoItem}
        /\ fate' = "undefined"
        /\ UNCHANGED << visible, hover_timer, dirty >>
  /\ UNCHANGED << selection, has_run, pointer, run_display, exited, launched,
                  data >>

(* The compositor asks for the next frame (surface_frame_done). *)
FrameDone ==
  /\ dirty
  /\ dirty' = FALSE
  /\ UNCHANGED << visible, selection, hover_timer, has_run, pointer,
                  run_display, exited, fate, launched, data >>

(* The loop of run() looks at run_display only after all the events that   *)
(* one loop_poll dispatches.                                               *)
LoopExit ==
  /\ ~ run_display
  /\ exited' = TRUE
  /\ UNCHANGED << visible, selection, hover_timer, has_run, pointer, dirty,
                  run_display, fate, launched, data >>

(* The connection to the compositor fails (display_in, or wl_display_flush *)
(* in run()).                                                              *)
ConnectionLost ==
  /\ run_display' = FALSE
  /\ UNCHANGED << visible, selection, hover_timer, has_run, pointer, dirty,
                  exited, fate, launched, data >>
-----------------------------------------------------------------------------
(* menu_init leaves every menu hidden, and so selects nothing. *)
Init ==
  /\ visible = {}
  /\ selection = NoItem
  /\ hover_timer = FALSE
  /\ has_run = FALSE
  /\ pointer \in Positions
  /\ dirty = FALSE
  /\ run_display = TRUE
  /\ exited = FALSE
  /\ fate = "alive"
  /\ launched = NoItem
  /\ Query!Init

PointerFrame ==
  \E motion \in BOOLEAN, p \in Positions :
    \/ \E button \in {"none", "pressed", "released"} :
         handle_wl_pointer_frame(motion, p, button)
    \/ ReleaseWild(motion, p)

OtherSteps ==
  PointerFrame \/ timer_hover_clear \/ FrameDone \/ LoopExit \/ ConnectionLost

Next ==
  /\ Running
  /\ (\E key \in Keys : menu_handle_key(key)) \/ OtherSteps

Spec == Init /\ [][Next]_vars

(* A patient user touches the keyboard only when the menu is on the        *)
(* screen, and goes right only when the submenu of the selection is shown: *)
(* once the hover timer has expired after the last motion, or the up and   *)
(* down keys have opened it.                                               *)
Patient(key) ==
  /\ has_run
  /\ key = "Right" =>
       KeySelection \in Items /\ At(KeySelection).submenu \in visible \union {0}

CalmNext ==
  /\ Running
  /\ (\E key \in Keys : Patient(key) /\ menu_handle_key(key)) \/ OtherSteps

CalmSpec == Init /\ [][CalmNext]_vars

(* loop_poll runs the callback of the timer once 100 ms have passed since  *)
(* the last motion.  The fairness is that of a loop that keeps polling and *)
(* of a pointer that, sooner or later, rests for that long.                *)
FairSpec == CalmSpec /\ WF_vars(Running /\ timer_hover_clear)
-----------------------------------------------------------------------------
(* The menus on the screen: the root, if it is visible, and the visible    *)
(* submenus of each menu that is drawn.                                    *)
draw_menu ==
  LET drawn[n \in 0 .. NMenus] ==
        IF n = 0 THEN {Root} \intersect visible
        ELSE LET above == drawn[n - 1]
             IN  above \union ((UNION {Children(m) : m \in above}) \intersect visible)
  IN  drawn[NMenus]

(* What the selection can be: only in an empty menu is it a list head.     *)
Selection ==
  Items \union {NoItem} \union
    {ListHead(m) : m \in {n \in Menus : Entries[n] = << >>}}

(* The type of the state.                                                  *)
TypeOK ==
  /\ visible \subseteq Menus
  /\ selection \in Selection
  /\ hover_timer \in BOOLEAN
  /\ has_run \in BOOLEAN
  /\ pointer \in Positions
  /\ dirty \in BOOLEAN
  /\ run_display \in BOOLEAN
  /\ exited \in BOOLEAN
  /\ fate \in {"alive", "assert", "null", "undefined", "hang"}
  /\ launched \in Items \union {NoItem}
  /\ Query!TypeOK

(* No menu ever shows two of its submenus at once, however keys, pointer   *)
(* and hover timer interleave (open_submenu closes the others first, and   *)
(* so must every other way of showing a menu).                             *)
OneOpenPerMenu ==
  \A m \in Menus : \A c, d \in Children(m) \intersect visible : c = d

(* Once the menu has been shown, no sequence of events makes the program   *)
(* dereference NULL: every key finds something to act on (menu_handle_key  *)
(* falls back on the first item of a visible menu).  What still kills it   *)
(* is a submenu without entries, whose list head is taken for an item, or  *)
(* one of separators only, in which move_selection never stops.            *)
FaultsExplained ==
  has_run =>
    /\ fate # "null"
    /\ fate \in {"assert", "undefined"} =>
         \E m \in Menus : Entries[m] = << >> /\ KeySelection = ListHead(m)
    /\ fate = "hang" =>
         \E m \in Menus : Selectables(m) = {} /\ KeySelection[1] = m

(* The effect of a motion, given in closed form by AfterMotion, is that of *)
(* the recursive loop of the source, in every state and for every position *)
(* of the pointer, also when the first motion has just shown the root.     *)
MotionAgrees ==
  LET vis == visible \union {Root}
  IN  \A p \in Positions :
        AfterMotion(vis, selection, p)
          = MotionLoop[<< p, LastOf(Root),
                          [visible |-> vis, selection |-> selection] >>]

(* The assertions of menu.c hold (menu.c:573, 575, 755).                   *)
NoAssertFailure == fate # "assert"

(* For a patient user the selection is always an item that can be selected *)
(* in a menu that is on the screen.                                        *)
SelectionShown ==
  selection # NoItem => /\ selection \in Items
                        /\ At(selection).selectable
                        /\ selection[1] \in visible

(* For a patient user the visible menus are the ones on the screen: every  *)
(* menu that opens a visible one is visible too, so that draw_menu gets to *)
(* each of them from the root.                                             *)
OpenChain ==
  /\ \A i \in Items : At(i).submenu \in visible => i[1] \in visible
  /\ visible = draw_menu

(* A command is run only from a menu that is on the screen when the key or *)
(* the button is handled, after the motion of the same frame, and it ends  *)
(* the program.                                                            *)
LaunchShown ==
  [][launched' # launched => launched'[1] \in visible' /\ ~ run_display']_vars

(* When the pointer comes to rest on an item with a submenu, the submenu   *)
(* is shown, unless something else is selected or the program ends first:  *)
(* the timer that the last motion has armed is never lost.                 *)
SubmenuOpens ==
  \A i \in Items :
    (hover_timer /\ selection = i /\ At(i).submenu # 0)
      ~> (At(i).submenu \in visible \/ selection # i \/ ~ Running)
-----------------------------------------------------------------------------
(* The visible menus, from the root downwards. *)
VisiblePath ==
  [k \in 1 .. Cardinality(visible) |->
     CHOOSE m \in visible :
       Cardinality({n \in visible : m \in Below[n]}) = k - 1]

Selectable == {i \in Items : At(i).selectable}

Path == INSTANCE MenuPath WITH
  Item     <- Selectable,
  Owner    <- [i \in Selectable |-> i[1]],
  Opens    <- [i \in {j \in Items : At(j).submenu # 0} |-> At(i).submenu],
  RootMenu <- Root,
  None     <- NoItem,
  path     <- VisiblePath,
  cursor   <- selection,
  ran      <- launched,
  ended    <- ~ run_display

(* For a patient user the handlers of keys, pointer frames and hover timer *)
(* implement the path of menus: each of them highlights an item that is on *)
(* the screen, shortens the path or opens the submenu of the highlighted   *)
(* item, and only that item is ever run.                                   *)
ImplementsPath == Path!Spec
=============================================================================
