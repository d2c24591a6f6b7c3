------------------------------ MODULE Startup ------------------------------
(***************************************************************************)
(* The run of the program (run() of main.c): the globals and outputs that  *)
(* the compositor announces (globals.c, output.c), the seats with their    *)
(* keyboards and pointers (seat.c), and the way into and out of the loop.  *)
(* What keys and buttons do is in Menu, what the surface does in Surface,  *)
(* and when keys are repeated in Seat.                                     *)
(*                                                                         *)
(* Every seat that is announced makes a struct seat.  run() gives an xkb   *)
(* context and a cursor surface to the last one only.                      *)
(*                                                                         *)
(* fate = "crashed" stands for NULL dereferenced, an assertion or memory   *)
(* that is not the program's, where seat.c, the drawing of icons and the   *)
(* calls into the menu can come to that.  How the reader of the menu file  *)
(* dies is in MenuFile, and the end of a closed surface in Surface.        *)
(***************************************************************************)
EXTENDS Pixmaps

(* What the program takes for granted: a cursor theme that can be loaded   *)
(* and has a left_ptr; and that libxkbcommon makes a context, and a keymap *)
(* of whatever the compositor sends.                                       *)
Provisions == {"left_ptr", "keymap"}

CONSTANTS
  Systems,     \* the sets of provisions that it may find
  Positions,   \* of the pointer on the surface
  ConfSizes,   \* the icon sizes that configuration files give
  MaxSeats,    \* bound: how many seats are announced
  MaxOutputs   \* bound: and how many outputs

ASSUME StartupAssumption ==
  /\ Systems \subseteq SUBSET Provisions
  /\ ConfSizes \subseteq Int
  /\ MaxSeats \in Nat /\ MaxOutputs \in Nat
  /\ 0 \notin Positions

VARIABLES
  stage,       \* "off", "registry", "menu", "loop", "finished" or "failed"
  bound,       \* which of state->compositor, shm and layer_shell are set
  seats,       \* how many seats there are; state->seat is the last
  ready,       \* the seats with xkb.context and cursor_surface
  outputs,     \* how many outputs there are; the list begins with the last
  wl_output,   \* surface->wl_output
  run_display,
  keyboards, pointers,  \* the seats with a keyboard, and with a pointer
  keymaps,     \* the seats with xkb.state, which outlives their keyboard
  event,       \* seat->pointer_event
  pointer_xy,  \* seat->pointer_x, pointer_y
  said,        \* compositor: where the pointer is, and what this frame has told
  has_run,     \* of menu_handle_cursor_motion: the root menu has been shown
  provided     \* external: the provisions that there are

deviceVars == << keyboards, pointers, keymaps, event, pointer_xy, said, has_run >>
globalVars == << bound, seats, ready, outputs, wl_output, provided >>
startupVars == << pixmapVars, stage, globalVars, run_display, deviceVars >>
-----------------------------------------------------------------------------
Seats == 1 .. MaxSeats
NoButton == "none"
Buttons == {"pressed", "released"}

NoEvent == [mask |-> {}, pos |-> 0, state |-> NoButton]
Outside == [inside |-> FALSE, pos |-> 0, moved |-> FALSE, button |-> NoButton]

(* Calls to the menu: a motion, a button, or both, and where. *)
Calls(moved, button, pos) ==
  [moved  |-> moved,
   button |-> button,
   pos    |-> IF moved \/ button # NoButton THEN pos ELSE 0]

Alive == fate = "alive"

(* The menus of the file that has been read: those below its root, and     *)
(* those that no root leads to.                                            *)
Vector ==
  {m \in DOMAIN Entries : m \in Under[root] \/ \A r \in Roots : m \notin Under[r]}
HasEmptyMenu == \E m \in Vector : Entries[m] = << >>
-----------------------------------------------------------------------------
(* The icon sizes that conf_init may leave, with and without a file: a     *)
(* handler is called for each line of it, and the last size counts.        *)
set_default_values == 22
conf_init(file_given) ==
  {set_default_values} \union (IF file_given THEN ConfSizes ELSE {})

(* The beginning of run(): the configuration, which ends the program if it *)
(* cannot be parsed, and the connection to the compositor, which comes     *)
(* with what the system provides.                                          *)
Begin(config_given) ==
  /\ Alive /\ stage = "off"
  /\ icon_size' \in conf_init(config_given)
  /\ stage' \in {"registry", "failed"}
  /\ provided' \in Systems
  /\ UNCHANGED << root, icon, pixmaps, painted, surfaces, todo, visited, work, fate >>
  /\ UNCHANGED << bound, seats, ready, outputs, wl_output, run_display, deviceVars >>

(* A new seat becomes state->seat; a new output is put in front of the     *)
(* list.                                                                   *)
seat_init == seats < MaxSeats /\ seats' = seats + 1 /\ UNCHANGED << bound, outputs >>
output_init == outputs < MaxOutputs /\ outputs' = outputs + 1 /\ UNCHANGED << bound, seats >>

(* A global is announced, in the roundtrip or later. *)
handle_wl_registry_global(interface) ==
  /\ Alive /\ stage \in {"registry", "loop"}
  /\ \/ /\ interface \in {"compositor", "shm", "layer_shell"}
        /\ bound' = bound \union {interface}
        /\ UNCHANGED << seats, outputs >>
     \/ interface = "seat" /\ seat_init
     \/ interface = "output" /\ output_init
  /\ UNCHANGED << pixmapVars, stage, ready, wl_output, provided, run_display,
                  deviceVars >>

(* The roundtrip is over: run() checks what it needs, equips the seat,     *)
(* takes the first output of the list, and calls menu_init.                *)
Connected ==
  /\ Alive /\ stage = "registry"
  /\ \/ /\ bound # {"compositor", "shm", "layer_shell"} \/ seats = 0
        /\ stage' = "failed"
        /\ UNCHANGED << pixmapVars, globalVars >>
     \/ /\ bound = {"compositor", "shm", "layer_shell"} /\ seats > 0
        /\ ready' = {seats}
        /\ wl_output' = outputs
        /\ stage' = "menu"
        /\ work' = "icons" /\ todo' = List(root)
        /\ UNCHANGED << root, icon, pixmaps, painted, surfaces, visited, icon_size, fate >>
        /\ UNCHANGED << bound, seats, outputs, provided >>
  /\ UNCHANGED << run_display, deviceVars >>

menu_init ==
  /\ Alive /\ stage = "menu"
  /\ \/ (Visit \/ Advance) /\ UNCHANGED << stage, run_display >>
     \/ /\ work = "done" /\ stage' = "loop" /\ run_display' = TRUE
        /\ UNCHANGED pixmapVars
  /\ UNCHANGED << globalVars, deviceVars >>
-----------------------------------------------------------------------------
(* The handlers that the loop calls.  Events that come together with the   *)
(* one that clears run_display are still handled.                          *)
Looping == Alive /\ stage = "loop"

Crash ==
  /\ fate' = "crashed"
  /\ UNCHANGED << root, icon, pixmaps, painted, surfaces, todo, visited, work,
                  icon_size >>

(* The old keyboard and pointer are released, whatever caps says; a new    *)
(* pointer has yet to enter.  No frame is left open, and xkb.state stays.  *)
handle_wl_seat_capabilities(s, caps) ==
  /\ Looping /\ s <= seats /\ event[s].mask = {}
  /\ pointers' = IF "pointer" \in caps THEN pointers \union {s} ELSE pointers \ {s}
  /\ keyboards' = IF "keyboard" \in caps THEN keyboards \union {s} ELSE keyboards \ {s}
  /\ said' = [said EXCEPT ![s] = Outside]
  /\ UNCHANGED << pixmapVars, stage, globalVars, run_display, keymaps, event,
                  pointer_xy, has_run >>

(* The program exits when the format is unknown or the keymap cannot be    *)
(* mapped.  It does not look at what libxkbcommon returns: without a       *)
(* context no keymap can be made, and with one only of what compiles.      *)
handle_wl_keyboard_keymap(s) ==
  /\ Looping /\ s \in keyboards
  /\ \/ stage' = "failed" /\ UNCHANGED << pixmapVars, keymaps >>
     \/ /\ s \notin ready \/ "keymap" \notin provided
        /\ Crash
        /\ UNCHANGED << stage, keymaps >>
     \/ /\ s \in ready
        /\ keymaps' = keymaps \union {s}
        /\ UNCHANGED << pixmapVars, stage >>
  /\ UNCHANGED << globalVars, run_display, keyboards, pointers, event,
                  pointer_xy, said, has_run >>

(* What a call into the menu may come to, by what Menu shows of it: it may *)
(* leave the menu, and it may crash, on a selection that is NULL or is the *)
(* head of an empty list.                                                  *)
MenuCall(may_crash) ==
  /\ run_display' \in {run_display, FALSE}
  /\ \/ UNCHANGED pixmapVars
     \/ may_crash /\ Crash

(* menu_handle_key, for a key or for its repetition, which goes on without *)
(* the keyboard.  Before the menu is shown there is nothing to select:     *)
(* text, BackSpace and Escape do no harm then, and Left finds an item all  *)
(* the same; the other keys act on NULL.                                   *)
handle_wl_keyboard_key(s) ==
  /\ Looping /\ s \in keymaps
  /\ MenuCall(~ has_run \/ HasEmptyMenu)
  /\ UNCHANGED << stage, globalVars, deviceVars >>

(* The hover timer, which a motion has armed, opens a submenu. *)
timer_hover_clear ==
  /\ Looping /\ has_run
  /\ \/ UNCHANGED pixmapVars
     \/ HasEmptyMenu /\ Crash
  /\ UNCHANGED << stage, globalVars, run_display, deviceVars >>

(* A part of a pointer event: flag is set in the mask. *)
Add(s, flag, pos) ==
  event' = [event EXCEPT ![s].mask = @ \union {flag}, ![s].pos = pos]

(* The first image of left_ptr is attached to the cursor surface of the    *)
(* seat: neither is looked at before it is used.                           *)
update_cursor(s) ==
  IF s \in ready /\ "left_ptr" \in provided THEN UNCHANGED pixmapVars ELSE Crash

handle_wl_pointer_enter(s, p) ==
  /\ Looping /\ s \in pointers /\ ~ said[s].inside
  /\ Add(s, "ENTER", p)
  /\ said' = [said EXCEPT ![s].inside = TRUE, ![s].pos = p, ![s].moved = TRUE]
  /\ update_cursor(s)
  /\ UNCHANGED << stage, globalVars, run_display, keyboards, pointers, keymaps,
                  pointer_xy, has_run >>

PointerUnchanged ==
  UNCHANGED << pixmapVars, stage, globalVars, run_display, keyboards, pointers,
               keymaps, pointer_xy, has_run >>

Over(s) == Looping /\ s \in pointers /\ said[s].inside

handle_wl_pointer_leave(s) ==
  /\ Over(s)
  /\ Add(s, "LEAVE", event[s].pos)
  /\ said' = [said EXCEPT ![s].inside = FALSE]
  /\ PointerUnchanged

handle_wl_pointer_motion(s, p) ==
  /\ Over(s)
  /\ Add(s, "MOTION", p)
  /\ said' = [said EXCEPT ![s].pos = p, ![s].moved = TRUE]
  /\ PointerUnchanged

(* The compositor tells of one button in a frame. *)
handle_wl_pointer_button(s, b) ==
  /\ Over(s) /\ said[s].button = NoButton
  /\ event' = [event EXCEPT ![s].mask = @ \union {"BUTTON"}, ![s].state = b]
  /\ said' = [said EXCEPT ![s].button = b]
  /\ PointerUnchanged

(* The four handlers of the axes: nothing reads what they note. *)
handle_wl_pointer_axis(s) ==
  /\ Over(s)
  /\ Add(s, "AXIS", event[s].pos)
  /\ UNCHANGED said
  /\ PointerUnchanged

(* Where the next frame finds the pointer. *)
Moved(s) == event[s].mask \intersect {"MOTION", "ENTER"} # {}
At(s) == IF Moved(s) THEN event[s].pos ELSE pointer_xy[s]

(* Slip: entering the surface is no motion. *)
calls_without_enter(s) ==
  LET e == event[s]
      moved == "MOTION" \in e.mask
  IN  Calls(moved, IF "BUTTON" \in e.mask THEN e.state ELSE NoButton,
            IF moved THEN e.pos ELSE pointer_xy[s])

(* What a frame tells the menu: menu_handle_cursor_motion, if the pointer  *)
(* has moved, and menu_handle_button_pressed or _released, at the position *)
(* of the latest motion of this frame or an earlier one.                   *)
menu_calls(s) ==
  LET e == event[s]
  IN  Calls(Moved(s), IF "BUTTON" \in e.mask THEN e.state ELSE NoButton, At(s))

(* A frame is complete; the menu is shown by the first motion, and may be  *)
(* left by a button.                                                       *)
handle_wl_pointer_frame(s) ==
  /\ Looping /\ s \in pointers
  /\ pointer_xy' = [pointer_xy EXCEPT ![s] = At(s)]
  /\ event' = [event EXCEPT ![s] = NoEvent]
  /\ said' = [said EXCEPT ![s].moved = FALSE, ![s].button = NoButton]
  /\ has_run' = (has_run \/ Moved(s))
  /\ MenuCall(HasEmptyMenu)
  /\ UNCHANGED << stage, globalVars, keyboards, pointers, keymaps >>

(* display_in: the connection is lost. *)
display_in ==
  /\ Looping
  /\ run_display' = FALSE
  /\ UNCHANGED << pixmapVars, stage, globalVars, deviceVars >>

(* The loop ends when run_display has been cleared, or when the connection *)
(* cannot be flushed.                                                      *)
Finish ==
  /\ Looping
  /\ stage' = "finished"
  /\ FreePixmaps
  /\ UNCHANGED << globalVars, run_display, deviceVars >>
-----------------------------------------------------------------------------
StartupInit ==
  /\ PixmapsInit
  /\ stage = "off"
  /\ bound = {} /\ seats = 0 /\ ready = {}
  /\ outputs = 0 /\ wl_output = 0
  /\ run_display = FALSE
  /\ keyboards = {} /\ pointers = {} /\ keymaps = {}
  /\ event = [s \in Seats |-> NoEvent]
  /\ pointer_xy = [s \in Seats |-> 0]
  /\ said = [s \in Seats |-> Outside]
  /\ has_run = FALSE
  /\ provided = {}

Interfaces == {"compositor", "shm", "layer_shell", "seat", "output"}

PointerEvents(s) ==
  \/ \E p \in Positions : handle_wl_pointer_enter(s, p) \/ handle_wl_pointer_motion(s, p)
  \/ handle_wl_pointer_leave(s)
  \/ \E b \in Buttons : handle_wl_pointer_button(s, b)
  \/ handle_wl_pointer_axis(s)
  \/ handle_wl_pointer_frame(s)

StartupNext ==
  \/ \E i \in Interfaces : handle_wl_registry_global(i)
  \/ Connected
  \/ menu_init
  \/ \E s \in Seats :
       \/ \E caps \in SUBSET {"keyboard", "pointer"} : handle_wl_seat_capabilities(s, caps)
       \/ handle_wl_keyboard_keymap(s)
       \/ handle_wl_keyboard_key(s)
       \/ PointerEvents(s)
  \/ timer_hover_clear
  \/ display_in
  \/ Finish

StartupSpec == StartupInit /\ [][StartupNext \/ \E c \in BOOLEAN : Begin(c)]_startupVars
-----------------------------------------------------------------------------
(* Whatever has been told since the last frame, and in whatever order, the *)
(* next frame will tell the menu the same, once: whether the pointer has   *)
(* moved, and the button, at the place where the pointer is, even if it    *)
(* has not moved in this frame, has entered only, or has left the surface  *)
(* and come back.                                                          *)
FrameDelivered ==
  \A s \in pointers :
    menu_calls(s) = Calls(said[s].moved, said[s].button, said[s].pos)

(* The program crashes only if there is a second seat, which run() has not *)
(* equipped; or if what it takes for granted is missing: the cursor, when  *)
(* a pointer has entered, or the keymap, when there is a keyboard; or if a *)
(* key comes before the menu is shown; or if a menu of the file is empty;  *)
(* or if the icon of an item of the menu is a path of less than four       *)
(* bytes, in the file or in the theme.                                     *)
CrashesExplained ==
  ~ Alive =>
    \/ seats > 1
    \/ "left_ptr" \notin provided /\ \E s \in pointers : said[s].inside
    \/ "keymap" \notin provided /\ keyboards # {}
    \/ ~ has_run /\ keymaps # {}
    \/ HasEmptyMenu
    \/ \E i \in Reachable : Entry(i).icon = "short"
    \/ \E n \in Names : Theme[n] = "short"
=============================================================================
