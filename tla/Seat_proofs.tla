---------------------------- MODULE Seat_proofs ----------------------------
(***************************************************************************)
(* Proofs about Seat, for every memory, batch size and set of rates.       *)
(***************************************************************************)
EXTENDS Seat, TLAPS

(* The repeat timer runs only while the last key event was a press.        *)
RepeatPressed == repeat_timer # NULL => pressed

(* The invariant.  The two statements on the pointers need each other: a   *)
(* timer that goes off is armed, and therefore, by NoStrayTimer, one of    *)
(* the two; by PointersValid its callback tells which one.                 *)
Inv == TypeOK /\ PointersValid /\ NoStrayTimer /\ RepeatPressed
-----------------------------------------------------------------------------
(* The operators on the memory keep its type, and change the timer at one  *)
(* address at most.                                                        *)
LEMMA RemoveLemma ==
  ASSUME NEW t \in [Address -> Timer], NEW a
  PROVE  /\ loop_remove_timer(t, a) \in [Address -> Timer]
         /\ \A b \in Address : loop_remove_timer(t, a)[b] =
              IF b = a /\ t[b].state # "free"
                THEN [t[b] EXCEPT !.state = "removed"] ELSE t[b]
  BY DEF loop_remove_timer, Listed, Timer

LEMMA AddLemma ==
  ASSUME NEW t \in [Address -> Timer], NEW a \in Calloc(t),
         NEW callback \in {"timer_hover_clear", "keyboard_repeat"}, NEW ms \in Int
  PROVE  /\ a \in Address \union {NULL}
         /\ a # NULL => t[a].state = "free"
         /\ loop_add_timer(t, a, callback, ms) \in [Address -> Timer]
         /\ \A b \in Address : loop_add_timer(t, a, callback, ms)[b] =
              IF b = a
                THEN [state |-> "armed", callback |-> callback, due |-> ms < 0]
                ELSE t[b]
  BY LoopAssumption DEF Calloc, loop_add_timer, Listed, Timer

LEMMA FreedLemma ==
  ASSUME NEW t \in [Address -> Timer], NEW a \in Address
  PROVE  /\ Freed(t, a) \in [Address -> Timer]
         /\ \A b \in Address : Freed(t, a)[b] = IF b = a THEN NoTimer ELSE t[b]
  BY DEF Freed, NoTimer, Timer

LEMMA DelayType == Delay \in Int
  BY DEF Delay

(* The period of a rate. *)
LEMMA Period ==
  ASSUME NEW rate \in Int, rate > 0
  PROVE  1000 \div rate \in 0 .. 1000
  OBVIOUS
-----------------------------------------------------------------------------
LEMMA InitInv == Init => Inv
<1> SUFFICES ASSUME Init PROVE Inv
  OBVIOUS
<1> USE DEF Init, LoopInit
<1>1. TypeOK
  <2>1. NoTimer \in Timer
    BY DEF NoTimer, Timer
  <2>2. LoopTypeOK
    BY <2>1, LoopAssumption DEF LoopTypeOK
  <2>3. hover_timer \in Address \union {NULL} /\ repeat_timer \in Address \union {NULL}
    OBVIOUS
  <2>4. repeat_period_ms \in -1 .. 1000
    OBVIOUS
  <2>5. pressed \in BOOLEAN /\ devices \subseteq Devices
    OBVIOUS
  <2>6. QED
    BY <2>2, <2>3, <2>4, <2>5 DEF TypeOK, None
<1>2. PointersValid /\ NoStrayTimer /\ RepeatPressed
  BY DEF PointersValid, NoStrayTimer, RepeatPressed, NoTimer
<1>3. QED
  BY <1>1, <1>2 DEF Inv

(* The steps that only move the loop on, or wait, disturb nothing: they    *)
(* change no timer but for its expiry.                                     *)
LEMMA LoopInv == Inv /\ LoopSteps => Inv'
<1> SUFFICES ASSUME Inv, LoopSteps PROVE Inv'
  OBVIOUS
<1> USE DEF Inv, TypeOK, LoopTypeOK, LoopSteps
<1>1. timers' \in [Address -> Timer]
      /\ \A a \in Address : /\ timers'[a].state = timers[a].state
                            /\ timers'[a].callback = timers[a].callback
  <2>1. CASE UNCHANGED timers
    BY <2>1
  <2>2. ASSUME NEW a \in Address, timers' = [timers EXCEPT ![a].due = TRUE]
        PROVE  <1>1!:
    <3>1. timers[a] \in Timer
      OBVIOUS
    <3>2. [timers[a] EXCEPT !.due = TRUE] \in Timer
      BY <3>1 DEF Timer
    <3>3. QED
      BY <2>2, <3>1, <3>2 DEF Timer
  <2>3. QED
    BY <2>1, <2>2 DEF Poll, StartWalk, EndWalk, TimePasses
<1>2. /\ phase' \in {"poll", "events", "walk"}
      /\ left' \in 0 .. MaxBatch
      /\ rest' \subseteq Address
  BY LoopAssumption DEF Poll, StartWalk, EndWalk, TimePasses, Listed
<1>3. TypeOK'
  BY <1>1, <1>2
<1>4. PointersValid' /\ NoStrayTimer' /\ RepeatPressed'
  BY <1>1 DEF PointersValid, NoStrayTimer, RepeatPressed
<1>5. QED
  BY <1>3, <1>4

(* What handling an event leaves of the loop's own state. *)
LEMMA DispatchType ==
  ASSUME TypeOK, Dispatch
  PROVE  phase' = phase /\ left' \in 0 .. MaxBatch /\ rest' = rest
  BY LoopAssumption DEF TypeOK, LoopTypeOK, Dispatch

(* A new hover timer takes the place of one that is removed.               *)
LEMMA HoverInv == Inv /\ timer_hover_start => Inv'
<1> SUFFICES ASSUME Inv, timer_hover_start PROVE Inv'
  OBVIOUS
<1> DEFINE t == loop_remove_timer(timers, hover_timer)
<1>1. timers \in [Address -> Timer]
  BY DEF Inv, TypeOK, LoopTypeOK
<1>2. PICK a \in Calloc(t) :
        /\ hover_timer' = a
        /\ timers' = loop_add_timer(t, a, "timer_hover_clear", Delay)
  BY DEF timer_hover_start
<1>3. t \in [Address -> Timer]
      /\ \A b \in Address : t[b] =
           IF b = hover_timer /\ timers[b].state # "free"
             THEN [timers[b] EXCEPT !.state = "removed"] ELSE timers[b]
  BY <1>1, RemoveLemma
<1> HIDE DEF t
<1>4. /\ a \in Address \union {NULL}
      /\ a # NULL => t[a].state = "free"
      /\ timers' \in [Address -> Timer]
      /\ \A b \in Address : timers'[b] =
           IF b = a
             THEN [state |-> "armed", callback |-> "timer_hover_clear", due |-> Delay < 0]
             ELSE t[b]
  BY <1>2, <1>3, AddLemma, DelayType
<1>5. TypeOK'
  BY <1>2, <1>4, DispatchType DEF Inv, TypeOK, LoopTypeOK, timer_hover_start, None
<1>6. PointersValid'
  BY <1>2, <1>3, <1>4, LoopAssumption
  DEF Inv, TypeOK, PointersValid, timer_hover_start, Timer
<1>7. NoStrayTimer'
  BY <1>2, <1>3, <1>4, LoopAssumption
  DEF Inv, TypeOK, PointersValid, NoStrayTimer, timer_hover_start, LoopTypeOK, Timer
<1>8. RepeatPressed'
  BY DEF Inv, RepeatPressed, timer_hover_start
<1>9. QED
  BY <1>5, <1>6, <1>7, <1>8 DEF Inv

(* Any key event removes the repeat timer; a press may start another one.  *)
LEMMA KeyInv ==
  ASSUME Inv, NEW press \in BOOLEAN, handle_wl_keyboard_key(press)
  PROVE  Inv'
<1> DEFINE t == loop_remove_timer(timers, repeat_timer)
<1>1. timers \in [Address -> Timer]
  BY DEF Inv, TypeOK, LoopTypeOK
<1>2. t \in [Address -> Timer]
      /\ \A b \in Address : t[b] =
           IF b = repeat_timer /\ timers[b].state # "free"
             THEN [timers[b] EXCEPT !.state = "removed"] ELSE timers[b]
  BY <1>1, RemoveLemma
<1>3. /\ pressed' = press
      /\ UNCHANGED << hover_timer, repeat_period_ms, devices >>
      /\ ran' = None
      /\ phase' = phase /\ left' \in 0 .. MaxBatch /\ rest' = rest
  BY DispatchType DEF Inv, handle_wl_keyboard_key
<1>4. CASE press /\ repeat_period_ms > 0
  <2>1. PICK a \in Calloc(t) :
          /\ repeat_timer' = a
          /\ timers' = loop_add_timer(t, a, "keyboard_repeat", Delay)
    BY <1>4 DEF handle_wl_keyboard_key
  <2> HIDE DEF t
  <2>2. /\ a \in Address \union {NULL}
        /\ a # NULL => t[a].state = "free"
        /\ timers' \in [Address -> Timer]
        /\ \A b \in Address : timers'[b] =
             IF b = a
               THEN [state |-> "armed", callback |-> "keyboard_repeat", due |-> Delay < 0]
               ELSE t[b]
    BY <2>1, <1>2, AddLemma, DelayType
  <2>3. TypeOK'
    BY <2>1, <2>2, <1>3 DEF Inv, TypeOK, LoopTypeOK, None
  <2>4. PointersValid'
    BY <2>1, <2>2, <1>2, <1>3, LoopAssumption DEF Inv, TypeOK, PointersValid, Timer
  <2>5. NoStrayTimer'
    BY <2>1, <2>2, <1>1, <1>2, <1>3, LoopAssumption
    DEF Inv, TypeOK, PointersValid, NoStrayTimer, Timer
  <2>6. QED
    BY <2>3, <2>4, <2>5, <1>3, <1>4 DEF Inv, RepeatPressed
<1>5. CASE ~ (press /\ repeat_period_ms > 0)
  <2>1. repeat_timer' = NULL /\ timers' = t
    BY <1>5 DEF handle_wl_keyboard_key
  <2> HIDE DEF t
  <2>2. TypeOK'
    BY <2>1, <1>2, <1>3 DEF Inv, TypeOK, LoopTypeOK, None
  <2>3. PointersValid'
    BY <2>1, <1>1, <1>2, <1>3, LoopAssumption DEF Inv, TypeOK, PointersValid, Timer
  <2>4. NoStrayTimer'
    BY <2>1, <1>1, <1>2, <1>3, LoopAssumption
    DEF Inv, TypeOK, PointersValid, NoStrayTimer, Timer
  <2>5. QED
    BY <2>1, <2>2, <2>3, <2>4 DEF Inv, RepeatPressed
<1>6. QED
  BY <1>4, <1>5

(* The other events concern no timer at all. *)
LEMMA RepeatInfoInv ==
  ASSUME Inv, NEW rate \in Rates, handle_wl_keyboard_repeat_info(rate)
  PROVE  Inv'
<1>1. repeat_period_ms' \in -1 .. 1000
  <2>1. CASE rate <= 0
    BY <2>1 DEF handle_wl_keyboard_repeat_info
  <2>2. CASE rate > 0
    BY <2>2, Period, SeatAssumption DEF handle_wl_keyboard_repeat_info
  <2>3. QED
    BY <2>1, <2>2, SeatAssumption
<1>2. /\ UNCHANGED << timers, hover_timer, repeat_timer, devices, pressed >>
      /\ ran' = None
      /\ phase' = phase /\ left' \in 0 .. MaxBatch /\ rest' = rest
  BY DispatchType DEF Inv, handle_wl_keyboard_repeat_info
<1>3. TypeOK'
  BY <1>1, <1>2 DEF Inv, TypeOK, LoopTypeOK, None
<1>4. QED
  BY <1>2, <1>3 DEF Inv, PointersValid, NoStrayTimer, RepeatPressed

LEMMA CapabilitiesInv ==
  ASSUME Inv, NEW caps \in SUBSET Devices, handle_wl_seat_capabilities(caps)
  PROVE  Inv'
<1>1. /\ UNCHANGED << timers, hover_timer, repeat_timer, repeat_period_ms, pressed >>
      /\ ran' = None /\ devices' = caps
      /\ phase' = phase /\ left' \in 0 .. MaxBatch /\ rest' = rest
  BY DispatchType DEF Inv, handle_wl_seat_capabilities
<1>2. TypeOK'
  BY <1>1 DEF Inv, TypeOK, LoopTypeOK, None
<1>3. QED
  BY <1>1, <1>2 DEF Inv, PointersValid, NoStrayTimer, RepeatPressed
-----------------------------------------------------------------------------
(* A timer that goes off is the one its user knows of. *)
LEMMA WhoseTimer ==
  ASSUME Inv, NEW a \in Address, timers[a].state = "armed"
  PROVE  /\ timers[a].callback = "timer_hover_clear" => a = hover_timer
         /\ timers[a].callback = "keyboard_repeat" => a = repeat_timer /\ pressed
  BY LoopAssumption DEF Inv, PointersValid, NoStrayTimer, RepeatPressed

LEMMA HoverClearInv ==
  ASSUME Inv, NEW a \in Address, timers[a].state = "armed",
         timers[a].callback = "timer_hover_clear", timer_hover_clear(a),
         Visit(a), UNCHANGED << repeat_period_ms, devices, pressed >>
  PROVE  Inv'
<1>1. /\ timers' \in [Address -> Timer]
      /\ \A b \in Address : timers'[b] = IF b = a THEN NoTimer ELSE timers[b]
  BY FreedLemma DEF Inv, TypeOK, LoopTypeOK, timer_hover_clear
<1>2. hover_timer' = NULL /\ repeat_timer' = repeat_timer /\ hover_timer = a
  BY WhoseTimer DEF timer_hover_clear
<1>3. TypeOK'
  BY <1>1, <1>2 DEF Inv, TypeOK, LoopTypeOK, timer_hover_clear, Visit, None
<1>4. PointersValid'
  BY <1>1, <1>2, LoopAssumption DEF Inv, TypeOK, PointersValid
<1>5. NoStrayTimer'
  BY <1>1, <1>2 DEF Inv, NoStrayTimer, NoTimer
<1>6. QED
  BY <1>2, <1>3, <1>4, <1>5 DEF Inv, RepeatPressed

LEMMA KeyboardRepeatInv ==
  ASSUME Inv, NEW a \in Address, timers[a].state = "armed",
         timers[a].callback = "keyboard_repeat", keyboard_repeat(a),
         Visit(a), UNCHANGED << repeat_period_ms, devices, pressed >>
  PROVE  Inv'
<1>1. PICK b \in Calloc(timers) :
        /\ repeat_timer' = b
        /\ timers' = Freed(loop_add_timer(timers, b, "keyboard_repeat",
                                          repeat_period_ms), a)
  BY DEF keyboard_repeat
<1>2. timers \in [Address -> Timer] /\ repeat_period_ms \in Int
  BY DEF Inv, TypeOK, LoopTypeOK
<1> DEFINE t == loop_add_timer(timers, b, "keyboard_repeat", repeat_period_ms)
<1>3. /\ b \in Address \union {NULL}
      /\ b # NULL => timers[b].state = "free"
      /\ t \in [Address -> Timer]
      /\ \A c \in Address : t[c] =
           IF c = b THEN [state |-> "armed", callback |-> "keyboard_repeat",
                          due |-> repeat_period_ms < 0]
                    ELSE timers[c]
  BY <1>2, AddLemma
<1> HIDE DEF t
<1>4. /\ timers' \in [Address -> Timer]
      /\ \A c \in Address : timers'[c] = IF c = a THEN NoTimer ELSE t[c]
  BY <1>1, <1>3, FreedLemma DEF t
<1>5. hover_timer' = hover_timer /\ repeat_timer = a /\ pressed /\ a # b
  BY <1>3, WhoseTimer, LoopAssumption DEF keyboard_repeat
<1>6. TypeOK'
  BY <1>1, <1>3, <1>4, <1>5
  DEF Inv, TypeOK, LoopTypeOK, keyboard_repeat, Visit, None
<1>7. PointersValid'
  BY <1>1, <1>3, <1>4, <1>5, LoopAssumption DEF Inv, TypeOK, PointersValid
<1>8. NoStrayTimer'
  BY <1>1, <1>3, <1>4, <1>5 DEF Inv, NoStrayTimer, NoTimer
<1>9. QED
  BY <1>5, <1>6, <1>7, <1>8 DEF Inv, RepeatPressed

LEMMA RunTimerInv ==
  ASSUME Inv, NEW a \in Address, RunTimer(a)
  PROVE  Inv'
<1>1. /\ Visit(a)
      /\ UNCHANGED << repeat_period_ms, devices, pressed >>
  BY DEF RunTimer
<1>2. CASE timers[a].state = "removed" /\ timers' = Freed(timers, a)
           /\ ran' = None /\ UNCHANGED << hover_timer, repeat_timer >>
  <2>1. /\ timers' \in [Address -> Timer]
        /\ \A b \in Address : timers'[b] = IF b = a THEN NoTimer ELSE timers[b]
    BY <1>2, FreedLemma DEF Inv, TypeOK, LoopTypeOK
  <2>2. TypeOK'
    BY <2>1, <1>1, <1>2 DEF Inv, TypeOK, LoopTypeOK, Visit, None
  <2>3. PointersValid' /\ NoStrayTimer'
    BY <2>1, <1>2, LoopAssumption DEF Inv, TypeOK, PointersValid, NoStrayTimer, NoTimer
  <2>4. QED
    BY <2>2, <2>3, <1>1, <1>2 DEF Inv, RepeatPressed
<1>3. CASE ran' = None /\ UNCHANGED << timers, hover_timer, repeat_timer >>
  <2>1. TypeOK'
    BY <1>1, <1>3 DEF Inv, TypeOK, LoopTypeOK, Visit, None
  <2>2. QED
    BY <2>1, <1>1, <1>3 DEF Inv, PointersValid, NoStrayTimer, RepeatPressed
<1>4. CASE timers[a].state = "armed" /\ timers[a].callback = "timer_hover_clear"
           /\ timer_hover_clear(a)
  BY <1>1, <1>4, HoverClearInv
<1>5. CASE timers[a].state = "armed" /\ timers[a].callback = "keyboard_repeat"
           /\ keyboard_repeat(a)
  BY <1>1, <1>5, KeyboardRepeatInv
<1>6. QED
  BY <1>2, <1>3, <1>4, <1>5 DEF RunTimer
-----------------------------------------------------------------------------
LEMMA NextInv == Inv /\ [Next]_vars => Inv'
<1> SUFFICES ASSUME Inv, [Next]_vars PROVE Inv'
  OBVIOUS
<1>1. CASE Events
  BY <1>1, HoverInv, KeyInv, RepeatInfoInv, CapabilitiesInv DEF Events
<1>2. CASE LoopSteps
  BY <1>2, LoopInv
<1>3. CASE \E a \in Address : RunTimer(a)
  BY <1>3, RunTimerInv
<1>4. CASE UNCHANGED vars
  BY <1>4
  DEF vars, Inv, TypeOK, LoopTypeOK, PointersValid, NoStrayTimer, RepeatPressed
<1>5. QED
  BY <1>1, <1>2, <1>3, <1>4 DEF Next

LEMMA Invariance == Spec => []Inv
  BY InitInv, NextInv, PTL DEF Spec

(* The state of the loop and of its two users keeps its type, for every    *)
(* memory and every set of rates that is announced (loop.c, seat.c).       *)
THEOREM TypeCorrect == Spec => []TypeOK
<1>1. Inv => TypeOK
  BY DEF Inv
<1>2. QED
  BY <1>1, Invariance, PTL

(* hover_timer and repeat_timer never point to a timer that loop_poll has  *)
(* freed, nor to one that now belongs to the other.                        *)
THEOREM NoDanglingTimer == Spec => []PointersValid
<1>1. Inv => PointersValid
  BY DEF Inv
<1>2. QED
  BY <1>1, Invariance, PTL

(* No timer can go off that its user cannot remove any more.               *)
THEOREM EveryTimerKnown == Spec => []NoStrayTimer
<1>1. Inv => NoStrayTimer
  BY DEF Inv
<1>2. QED
  BY <1>1, Invariance, PTL
-----------------------------------------------------------------------------
(* Only a walk runs callbacks, and the timer it finds armed is its user's. *)
LEMMA Quiet ==
  /\ Events => ran' = None
  /\ LoopSteps => ran' = None
  BY DEF Events, timer_hover_start, handle_wl_keyboard_key,
         handle_wl_keyboard_repeat_info, handle_wl_seat_capabilities, LoopSteps

(* Once the release of a key has been handled it is not repeated: the      *)
(* timer that has been removed may still be on the list, and may be due,   *)
(* but its callback is not run (handle_wl_keyboard_key, loop_poll).        *)
THEOREM ReleaseStopsRepeat == Spec => NoRepeatAfterRelease
<1>1. Inv /\ [Next]_vars => [ran' = "keyboard_repeat" => pressed]_vars
  <2> SUFFICES ASSUME Inv, Next, ran' = "keyboard_repeat" PROVE pressed
    OBVIOUS
  <2>1. PICK a \in Address : RunTimer(a)
    BY Quiet DEF Next, None
  <2>2. timers[a].state = "armed" /\ timers[a].callback = "keyboard_repeat"
    BY <2>1 DEF RunTimer, timer_hover_clear, None
  <2>3. QED
    BY <2>2, WhoseTimer
<1>2. QED
  BY <1>1, Invariance, PTL DEF Spec, NoRepeatAfterRelease
-----------------------------------------------------------------------------
(* The alarms that are set. *)
AlarmsOn == {u \in Users : Pointer(u) # NULL}

LEMMA AlarmsSet ==
  /\ \A u : u \in AlarmsOn <=>
       \/ u = "timer_hover_clear" /\ hover_timer # NULL
       \/ u = "keyboard_repeat" /\ repeat_timer # NULL
  /\ \A u : u \in AlarmsOn' <=>
       \/ u = "timer_hover_clear" /\ hover_timer' # NULL
       \/ u = "keyboard_repeat" /\ repeat_timer' # NULL
  BY DEF AlarmsOn, Users, Pointer

(* A step that leaves the two pointers alone, and runs no callback.        *)
LEMMA WaitStep ==
  ASSUME UNCHANGED << hover_timer, repeat_timer >>, ran' = None
  PROVE  Alarm!Next
<1>1. AlarmsOn' = AlarmsOn
  BY DEF AlarmsOn, Pointer
<1>2. Alarm!Wait
  BY <1>1 DEF Alarm!Wait, AlarmsOn, Alarm!Silent, None
<1>3. QED
  BY <1>2 DEF Alarm!Next

(* A step that gives one pointer another value, and runs no callback.      *)
LEMMA SetStep ==
  ASSUME NEW u \in Users, ran' = None,
         u = "timer_hover_clear" => UNCHANGED repeat_timer,
         u = "keyboard_repeat" => UNCHANGED hover_timer
  PROVE  Alarm!Next
<1>1. AlarmsOn' = AlarmsOn \union {u} \/ AlarmsOn' = AlarmsOn \ {u}
  BY AlarmsSet DEF Users
<1>2. Alarm!Set(u) \/ Alarm!Cancel(u)
  BY <1>1 DEF Alarm!Set, Alarm!Cancel, AlarmsOn, Alarm!Silent, None
<1>3. QED
  BY <1>2 DEF Alarm!Next

(* A callback: its alarm was set, and is now set again or not.             *)
LEMMA RingStep ==
  ASSUME NEW u \in Users, ran' = u,
         u = "timer_hover_clear" => hover_timer # NULL /\ UNCHANGED repeat_timer,
         u = "keyboard_repeat" => repeat_timer # NULL /\ UNCHANGED hover_timer
  PROVE  Alarm!Next
<1>1. u \in AlarmsOn
  BY AlarmsSet DEF Users
<1>2. AlarmsOn' = AlarmsOn \/ AlarmsOn' = AlarmsOn \ {u}
  BY <1>1, AlarmsSet DEF Users
<1>3. Alarm!GoOff(u)
  BY <1>1, <1>2 DEF Alarm!GoOff, AlarmsOn
<1>4. QED
  BY <1>3 DEF Alarm!Next

LEMMA AlarmStep == Inv /\ [Next]_vars => [Alarm!Next]_(Alarm!vars)
<1> SUFFICES ASSUME Inv, [Next]_vars PROVE [Alarm!Next]_(Alarm!vars)
  OBVIOUS
<1>1. CASE Events
  <2>1. CASE timer_hover_start
    BY <2>1, SetStep DEF timer_hover_start, Users
  <2>2. ASSUME NEW press \in BOOLEAN, handle_wl_keyboard_key(press)
        PROVE  Alarm!Next
    BY <2>2, SetStep DEF handle_wl_keyboard_key, Users
  <2>3. CASE \E rate \in Rates : handle_wl_keyboard_repeat_info(rate)
    BY <2>3, WaitStep DEF handle_wl_keyboard_repeat_info
  <2>4. CASE \E caps \in SUBSET Devices : handle_wl_seat_capabilities(caps)
    BY <2>4, WaitStep DEF handle_wl_seat_capabilities
  <2>5. QED
    BY <1>1, <2>1, <2>2, <2>3, <2>4 DEF Events
<1>2. CASE LoopSteps
  BY <1>2, WaitStep DEF LoopSteps
<1>3. ASSUME NEW a \in Address, RunTimer(a)
      PROVE  Alarm!Next
  <2>1. CASE ran' = None /\ UNCHANGED << hover_timer, repeat_timer >>
    BY <2>1, WaitStep
  <2>2. CASE timers[a].state = "armed" /\ timers[a].callback = "timer_hover_clear"
             /\ timer_hover_clear(a)
    BY <2>2, WhoseTimer, LoopAssumption, RingStep DEF timer_hover_clear, Users
  <2>3. CASE timers[a].state = "armed" /\ timers[a].callback = "keyboard_repeat"
             /\ keyboard_repeat(a)
    BY <2>3, WhoseTimer, LoopAssumption, RingStep DEF keyboard_repeat, Users
  <2>4. QED
    BY <1>3, <2>1, <2>2, <2>3 DEF RunTimer
<1>4. CASE UNCHANGED vars
  BY <1>4 DEF vars, Alarm!vars, Pointer
<1>5. QED
  BY <1>1, <1>2, <1>3, <1>4 DEF Next

(* The loop's list of timers, with its deferred removal, implements two    *)
(* alarms: callbacks run only for alarms that are set, once each time.     *)
THEOREM TimersAreAlarms == Spec => ImplementsAlarms
<1>1. Init => Alarm!Init
  BY DEF Init, Alarm!Init, Alarm!Silent, None, Pointer
<1>2. QED
  BY <1>1, AlarmStep, Invariance, PTL DEF Spec, ImplementsAlarms, Alarm!Spec
=============================================================================
