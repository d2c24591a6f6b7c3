-------------------------------- MODULE Seat --------------------------------
(***************************************************************************)
(* The two users of the timers: key repeat (src/seat.c) and the delay      *)
(* after which a submenu opens (src/menu.c).  What the keys do to the menu *)
(* is in Menu; here it matters only when they are handled.                 *)
(***************************************************************************)
EXTENDS EventLoop

CONSTANT Rates  \* the repeat rates the compositor announces, per second

ASSUME SeatAssumption == Rates \subseteq Int

VARIABLES
  hover_timer,       \* state->hover_timer
  repeat_timer,      \* seat->repeat_timer
  repeat_period_ms,  \* seat->repeat_period_ms
  devices,           \* which of seat->pointer and seat->keyboard are there
  pressed,           \* history: whether the last key event was a press
  ran                \* history: the callback run by the last step

vars == << timers, phase, left, rest, hover_timer, repeat_timer,
           repeat_period_ms, devices, pressed, ran >>

Delay == 100  \* TRAPPIST_SUBMENU_SHOW_DELAY

None == "none"

Devices == {"pointer", "keyboard"}
-----------------------------------------------------------------------------
(* Events of the connection. *)

(* Slip: the timer of the last motion is left running. *)
hover_starts_another ==
  /\ Dispatch /\ "pointer" \in devices
  /\ \E a \in Calloc(timers) :
       /\ hover_timer' = a
       /\ timers' = loop_add_timer(timers, a, "timer_hover_clear", Delay)
  /\ ran' = None
  /\ UNCHANGED << repeat_timer, repeat_period_ms, devices, pressed >>

(* A motion of the pointer ends with this call.  (With submenus open there *)
(* is one call for each of them, as if there were several motions.)        *)
timer_hover_start ==
  LET t == loop_remove_timer(timers, hover_timer)
  IN  /\ Dispatch /\ "pointer" \in devices
      /\ \E a \in Calloc(t) :
           /\ hover_timer' = a
           /\ timers' = loop_add_timer(t, a, "timer_hover_clear", Delay)
      /\ ran' = None
      /\ UNCHANGED << repeat_timer, repeat_period_ms, devices, pressed >>

(* Slip: the timer is cancelled by the next press, not by the release. *)
release_ignored(press) ==
  LET t == loop_remove_timer(timers, repeat_timer)
  IN  /\ Dispatch /\ "keyboard" \in devices
      /\ pressed' = press
      /\ \/ /\ press /\ repeat_period_ms > 0
            /\ \E a \in Calloc(t) :
                 /\ repeat_timer' = a
                 /\ timers' = loop_add_timer(t, a, "keyboard_repeat", Delay)
         \/ ~ press /\ UNCHANGED << timers, repeat_timer >>
      /\ ran' = None
      /\ UNCHANGED << hover_timer, repeat_period_ms, devices >>

(* Any key event ends the repetition; a press starts another one, if the   *)
(* compositor wants keys to be repeated.  (The first delay is a number     *)
(* that is not negative, and which one does not matter.)                   *)
handle_wl_keyboard_key(press) ==
  LET t == loop_remove_timer(timers, repeat_timer)
  IN  /\ Dispatch /\ "keyboard" \in devices
      /\ pressed' = press
      /\ \/ /\ press /\ repeat_period_ms > 0
            /\ \E a \in Calloc(t) :
                 /\ repeat_timer' = a
                 /\ timers' = loop_add_timer(t, a, "keyboard_repeat", Delay)
         \/ /\ ~ (press /\ repeat_period_ms > 0)
            /\ repeat_timer' = NULL
            /\ timers' = t
      /\ ran' = None
      /\ UNCHANGED << hover_timer, repeat_period_ms, devices >>

(* Slip: the rate is taken for the period. *)
rate_is_period(rate) ==
  /\ Dispatch /\ "keyboard" \in devices
  /\ repeat_period_ms' = rate
  /\ ran' = None
  /\ UNCHANGED << timers, hover_timer, repeat_timer, devices, pressed >>

(* A rate above 1000 gives the period 0.                                   *)
handle_wl_keyboard_repeat_info(rate) ==
  /\ Dispatch /\ "keyboard" \in devices
  /\ repeat_period_ms' = IF rate <= 0 THEN -1 ELSE 1000 \div rate
  /\ ran' = None
  /\ UNCHANGED << timers, hover_timer, repeat_timer, devices, pressed >>

(* A keyboard or pointer that goes away takes no timer with it.            *)
handle_wl_seat_capabilities(caps) ==
  /\ Dispatch
  /\ devices' = caps
  /\ ran' = None
  /\ UNCHANGED << timers, hover_timer, repeat_timer, repeat_period_ms,
                  pressed >>
-----------------------------------------------------------------------------
(* Callbacks, run by the walk for the timer at a, which is freed after its *)
(* callback has returned.                                                  *)

(* Slip: hover_timer keeps the address. *)
hover_timer_kept(a) ==
  /\ timers' = Freed(timers, a)
  /\ ran' = "timer_hover_clear"
  /\ UNCHANGED << hover_timer, repeat_timer >>

timer_hover_clear(a) ==
  /\ hover_timer' = NULL
  /\ timers' = Freed(timers, a)
  /\ ran' = "timer_hover_clear"
  /\ UNCHANGED repeat_timer

(* The next timer is there before this one is freed. *)
keyboard_repeat(a) ==
  /\ \E b \in Calloc(timers) :
       /\ repeat_timer' = b
       /\ timers' =
            Freed(loop_add_timer(timers, b, "keyboard_repeat", repeat_period_ms), a)
  /\ ran' = "keyboard_repeat"
  /\ UNCHANGED hover_timer

(* Slips: a removed timer is kept on the list; it goes off all the same.   *)
RunTimerUnswept(a) ==
  /\ Visit(a)
  /\ \/ /\ timers[a].state = "removed" \/ ~ timers[a].due
        /\ ran' = None
        /\ UNCHANGED << timers, hover_timer, repeat_timer >>
     \/ /\ timers[a].state = "armed" /\ timers[a].due
        /\ \/ timers[a].callback = "timer_hover_clear" /\ timer_hover_clear(a)
           \/ timers[a].callback = "keyboard_repeat" /\ keyboard_repeat(a)
  /\ UNCHANGED << repeat_period_ms, devices, pressed >>
RunTimerRemoved(a) ==
  /\ Visit(a)
  /\ \/ /\ ~ timers[a].due
        /\ ran' = None
        /\ UNCHANGED << timers, hover_timer, repeat_timer >>
     \/ /\ timers[a].due
        /\ \/ timers[a].callback = "timer_hover_clear" /\ timer_hover_clear(a)
           \/ timers[a].callback = "keyboard_repeat" /\ keyboard_repeat(a)
  /\ UNCHANGED << repeat_period_ms, devices, pressed >>

(* What the walk does with the timer at a. *)
RunTimer(a) ==
  /\ Visit(a)
  /\ \/ /\ timers[a].state = "removed"
        /\ timers' = Freed(timers, a)
        /\ ran' = None
        /\ UNCHANGED << hover_timer, repeat_timer >>
     \/ /\ timers[a].state = "armed" /\ ~ timers[a].due
        /\ ran' = None
        /\ UNCHANGED << timers, hover_timer, repeat_timer >>
     \/ /\ timers[a].state = "armed" /\ timers[a].due
        /\ \/ timers[a].callback = "timer_hover_clear" /\ timer_hover_clear(a)
           \/ timers[a].callback = "keyboard_repeat" /\ keyboard_repeat(a)
  /\ UNCHANGED << repeat_period_ms, devices, pressed >>
-----------------------------------------------------------------------------
Init ==
  /\ LoopInit
  /\ hover_timer = NULL
  /\ repeat_timer = NULL
  /\ repeat_period_ms = 0
  /\ devices = {}
  /\ pressed = FALSE
  /\ ran = None

Events ==
  \/ timer_hover_start
  \/ \E press \in BOOLEAN : handle_wl_keyboard_key(press)
  \/ \E rate \in Rates : handle_wl_keyboard_repeat_info(rate)
  \/ \E caps \in SUBSET Devices : handle_wl_seat_capabilities(caps)

LoopSteps ==
  /\ Poll \/ StartWalk \/ EndWalk \/ \E a \in Address : TimePasses(a)
  /\ ran' = None
  /\ UNCHANGED << hover_timer, repeat_timer, repeat_period_ms, devices, pressed >>

Next == Events \/ LoopSteps \/ \E a \in Address : RunTimer(a)

Spec == Init /\ [][Next]_vars

(* Time passes whatever the loop does: every expiry passes in the end.     *)
(* run() calls loop_poll again and again; poll() returns when a timer is   *)
(* due, a dispatch comes to its end, and so does the walk.                 *)
Fairness ==
  /\ \A a \in Address : SF_vars(LoopSteps /\ TimePasses(a))
  /\ WF_vars(LoopSteps /\ TimesOut /\ Poll)
  /\ WF_vars(LoopSteps /\ StartWalk)
  /\ WF_vars(\E a \in Address : RunTimer(a))
  /\ WF_vars(LoopSteps /\ EndWalk)

FairSpec == Spec /\ Fairness
-----------------------------------------------------------------------------
TypeOK ==
  /\ LoopTypeOK
  /\ hover_timer \in Address \union {NULL}
  /\ repeat_timer \in Address \union {NULL}
  /\ repeat_period_ms \in -1 .. 1000
  /\ devices \subseteq Devices
  /\ pressed \in BOOLEAN
  /\ ran \in {None, "timer_hover_clear", "keyboard_repeat"}

(* The two pointers are NULL or point to a timer of their own that is on   *)
(* the list and has not been removed: none of them outlives the free() of  *)
(* loop_poll, although calloc may return the same address again.           *)
PointersValid ==
  /\ hover_timer # NULL =>
       /\ timers[hover_timer].state = "armed"
       /\ timers[hover_timer].callback = "timer_hover_clear"
  /\ repeat_timer # NULL =>
       /\ timers[repeat_timer].state = "armed"
       /\ timers[repeat_timer].callback = "keyboard_repeat"

(* Every timer that can still go off is the one that its user knows of,    *)
(* and can remove: a key never repeats on two timers, and no hover timer   *)
(* is left over from an earlier motion.                                    *)
NoStrayTimer ==
  \A a \in Address :
    timers[a].state = "armed" => a \in {hover_timer, repeat_timer}

(* No key is repeated after the program has handled its release.           *)
NoRepeatAfterRelease == [][ran' = "keyboard_repeat" => pressed]_vars

(* Each hover timer goes off, unless another motion has replaced it: a     *)
(* timer that is due ends the poll, and the walk comes to it.              *)
HoverGoesOff ==
  \A a \in Address : hover_timer = a ~> hover_timer # a

(* Timers that have been removed are freed in the end.                     *)
RemovedAreFreed ==
  \A a \in Address :
    timers[a].state = "removed" ~> timers[a].state # "removed"

(* The users of the timers. *)
Pointer(u) == IF u = "timer_hover_clear" THEN hover_timer ELSE repeat_timer

Users == {"timer_hover_clear", "keyboard_repeat"}

Alarm == INSTANCE Alarms WITH
  set   <- {u \in Users : Pointer(u) # NULL},
  rings <- ran

(* The list of timers with its deferred removal implements two alarms that *)
(* can be set, cancelled and go off: no callback runs whose timer has been *)
(* removed before, and none runs twice.                                    *)
ImplementsAlarms == Alarm!Spec
=============================================================================
