----------------------------- MODULE EventLoop -----------------------------
(***************************************************************************)
(* The timers of the event loop (sway-client-helpers/loop.c): operators on *)
(* the memory in which struct loop_timer live, and the phases of loop_poll.*)
(* An address is in loop->timers from loop_add_timer until it is freed.    *)
(***************************************************************************)
EXTENDS Integers, FiniteSets

CONSTANTS
  Address,   \* what calloc can return for a struct loop_timer
  NULL,
  MaxBatch   \* how many events one dispatch handles at most

ASSUME LoopAssumption ==
  /\ NULL \notin Address
  /\ MaxBatch \in Nat

VARIABLES
  timers,  \* the memory at each address, and with it the list loop->timers
  phase,   \* where loop_poll is: "poll", "events" or "walk"
  left,    \* how many more events this dispatch handles
  rest     \* the timers that the walk over the list has still to visit

loop == << timers, phase, left, rest >>
-----------------------------------------------------------------------------
(* A struct loop_timer: on the list, removed from it (to be freed by the   *)
(* next walk), or free; due says that its expiry has passed.               *)
NoTimer == [state |-> "free", callback |-> "none", due |-> FALSE]

Timer == [state    : {"free", "armed", "removed"},
          callback : {"none", "timer_hover_clear", "keyboard_repeat"},
          due      : BOOLEAN]

Listed(t) == {a \in Address : t[a].state # "free"}

(* What calloc can return when the memory is t: NULL when there is no more.*)
Calloc(t) == IF Listed(t) = Address THEN {NULL} ELSE Address \ Listed(t)

(* The memory t after loop_add_timer has put a timer of ms milliseconds at *)
(* address a.  A negative number of milliseconds is over at once; the      *)
(* other ones are not, as the expiry has to lie strictly in the past.      *)
loop_add_timer(t, a, callback, ms) ==
  IF a = NULL
    THEN t
    ELSE [t EXCEPT ![a] = [state    |-> "armed",
                           callback |-> callback,
                           due      |-> ms < 0]]

(* loop_remove_timer looks for the address in the list, and only sets a    *)
(* flag.                                                                   *)
loop_remove_timer(t, a) ==
  IF a \in Listed(t) THEN [t EXCEPT ![a].state = "removed"] ELSE t

Freed(t, a) == [t EXCEPT ![a] = NoTimer]
-----------------------------------------------------------------------------
(* Slip: the timeout of poll() is never computed. *)
WaitsForEvents == FALSE

(* poll() returns without an event: the nearest expiry, that of removed    *)
(* timers included, has passed.                                            *)
TimesOut == \E a \in Listed(timers) : timers[a].due

(* poll() returns, with events or without, and the descriptors are         *)
(* dispatched.                                                             *)
Poll ==
  /\ phase = "poll"
  /\ phase' = "events"
  /\ left' = MaxBatch
  /\ UNCHANGED << timers, rest >>

(* One more event of the connection is handled. *)
Dispatch ==
  /\ phase = "events" /\ left > 0
  /\ left' = left - 1
  /\ UNCHANGED << phase, rest >>

(* There are no more events; the time is read, and the walk over the list  *)
(* begins.                                                                 *)
StartWalk ==
  /\ phase = "events"
  /\ phase' = "walk"
  /\ left' = 0
  /\ rest' = Listed(timers)
  /\ UNCHANGED timers

(* The walk comes to the timer at a.  Callbacks add timers only before it, *)
(* at the head of the list, and the next element has already been noted.   *)
(* (The order of the walk is left open: the properties do not depend on    *)
(* it.)                                                                    *)
Visit(a) ==
  /\ phase = "walk" /\ a \in rest
  /\ rest' = rest \ {a}
  /\ UNCHANGED << phase, left >>

EndWalk ==
  /\ phase = "walk" /\ rest = {}
  /\ phase' = "poll"
  /\ UNCHANGED << timers, left, rest >>

(* The expiry of a timer passes.  The walk has read the time before.       *)
TimePasses(a) ==
  /\ phase # "walk"
  /\ a \in Listed(timers) /\ ~ timers[a].due
  /\ timers' = [timers EXCEPT ![a].due = TRUE]
  /\ UNCHANGED << phase, left, rest >>

LoopInit ==
  /\ timers = [a \in Address |-> NoTimer]
  /\ phase = "poll"
  /\ left = 0
  /\ rest = {}

LoopTypeOK ==
  /\ timers \in [Address -> Timer]
  /\ phase \in {"poll", "events", "walk"}
  /\ left \in 0 .. MaxBatch
  /\ rest \subseteq Address
=============================================================================
