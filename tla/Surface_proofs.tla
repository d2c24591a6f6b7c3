--------------------------- MODULE Surface_proofs ---------------------------
(***************************************************************************)
(* Proofs about Surface, for every set of sizes and every compositor.      *)
(***************************************************************************)
EXTENDS Surface, TLAPS

(* Until it is configured the surface has no callback and no damage, so    *)
(* that render_frame is never called for a surface without a size.         *)
Unconfigured == size = 0 => ~ frame_pending /\ ~ dirty /\ asked = 0 /\ armed = 0

(* A callback that has been asked for is committed at once, as long as no  *)
(* frame has been skipped.                                                 *)
AskedAfterSkip == ~ skipped => asked = 0

(* Damage is never recorded without a callback to act on it.               *)
DirtyIsPending == dirty => frame_pending

(* The invariant, for as long as the surface lives.  StaleIsPending is not *)
(* inductive by itself: when a callback arrives, OneCallback and           *)
(* AskedAfterSkip say that it was the only one, and DirtyIsPending that it *)
(* was awaited.                                                            *)
LiveInv ==
  /\ asked + armed = IF frame_pending THEN 1 ELSE 0
  /\ Unconfigured
  /\ AskedAfterSkip
  /\ DirtyIsPending
  /\ size # 0 /\ ~ skipped /\ stale => dirty
  /\ ~ skipped => shown = size

Inv == TypeOK /\ ReadIsBusy /\ (Live => LiveInv)

LEMMA InitInv == Init => Inv
<1> SUFFICES ASSUME Init PROVE Inv
  OBVIOUS
<1> USE DEF Init, Buffers, NoBuffer
<1>1. TypeOK
  BY DEF TypeOK
<1>2. ReadIsBusy
  BY DEF ReadIsBusy
<1>3. LiveInv
  BY DEF LiveInv, Unconfigured, AskedAfterSkip, DirtyIsPending
<1>4. QED
  BY <1>1, <1>2, <1>3 DEF Inv

(* What a call of render_frame preserves, from the callbacks asked for and *)
(* armed when it is called.                                                *)
LEMMA RenderLemma ==
  ASSUME TypeOK, ReadIsBusy, NEW s \in Sizes, NEW n \in Nat, NEW a \in Nat,
         render_frame(s, n, a)
  PROVE  /\ buf' \in [Buffers -> [made : BOOLEAN, busy : BOOLEAN,
                                  size : Sizes \union {0}]]
         /\ asked' \in Nat /\ armed' \in Nat /\ asked' + armed' = n + a
         /\ attached' \in Buffers \union {0}
         /\ reading' \subseteq Buffers
         /\ shown' \in Sizes \union {0}
         /\ stale' \in BOOLEAN /\ skipped' \in BOOLEAN
         /\ \A b \in reading' : buf'[b].made /\ buf'[b].busy
         /\ ~ skipped' => asked' = 0 /\ shown' = s /\ ~ stale' /\ ~ skipped
<1>1. CASE Free = {} /\ Skip(n, a) /\ UNCHANGED buf
  BY <1>1 DEF Skip, TypeOK, ReadIsBusy
<1>2. CASE /\ Free # {} /\ ~ Fits(NextFree, s) /\ anonymous_shm_open_may_fail
           /\ destroy_buffer(NextFree)
           /\ Skip(n, a)
  <2>1. NextFree \in Buffers /\ ~ buf[NextFree].busy
    BY <1>2 DEF NextFree, Free, Buffers
  <2>2. QED
    BY <1>2, <2>1 DEF Skip, TypeOK, ReadIsBusy, destroy_buffer, NoBuffer
<1>3. CASE /\ Free # {}
           /\ create_buffer(NextFree, s)
           /\ attached' = NextFree
           /\ reading' = reading \union {NextFree}
           /\ shown' = s
           /\ stale' = FALSE
           /\ Commit(n, a)
           /\ UNCHANGED skipped
  <2>1. NextFree \in Buffers
    BY <1>3 DEF NextFree, Free, Buffers
  <2>2. buf' \in [Buffers -> [made : BOOLEAN, busy : BOOLEAN,
                               size : Sizes \union {0}]]
    BY <1>3, <2>1 DEF TypeOK, create_buffer
  <2>3. \A b \in reading' : buf'[b].made /\ buf'[b].busy
    BY <1>3, <2>1 DEF TypeOK, ReadIsBusy, create_buffer
  <2>4. asked' \in Nat /\ asked' = 0 /\ armed' \in Nat /\ asked' + armed' = n + a
    BY <1>3 DEF Commit
  <2>5. attached' \in Buffers \union {0} /\ reading' \subseteq Buffers
    BY <1>3, <2>1 DEF TypeOK
  <2>6. stale' = FALSE /\ skipped' = skipped /\ shown' = s
    BY <1>3
  <2>7. stale' \in BOOLEAN /\ skipped' \in BOOLEAN
    BY <2>6 DEF TypeOK
  <2>8. ~ skipped' => asked' = 0 /\ shown' = s /\ ~ stale' /\ ~ skipped
    BY <2>4, <2>6, Zenon
  <2>9. QED
    BY <2>2, <2>3, <2>4, <2>5, <2>6, <2>7, <2>8, Zenon
<1>4. QED
  BY <1>1, <1>2, <1>3 DEF render_frame

(* Every step keeps the invariant. *)
LEMMA NextInv == Inv /\ [Next]_vars => Inv'
<1> SUFFICES ASSUME Inv, [Next]_vars PROVE Inv'
  OBVIOUS
<1> USE DEF Inv
<1>0. calm' = calm /\ (Step \/ UNCHANGED vars)
  BY DEF Next, vars
<1>1. ASSUME NEW s \in Sizes, layer_surface_configure(s) PROVE Inv'
  <2>1. Live /\ Live' /\ LiveInv
    BY <1>1 DEF layer_surface_configure, Live
  <2>2. TypeOK /\ ReadIsBusy /\ render_frame(s, asked, armed)
        /\ asked \in Nat /\ armed \in Nat
    BY <1>1 DEF layer_surface_configure, TypeOK
  <2>3. size' = s /\ size' # 0
    BY <1>1, SurfaceAssumption DEF layer_surface_configure
  <2>4. UNCHANGED << frame_pending, dirty, life >>
    BY <1>1 DEF layer_surface_configure
  <2>5. TypeOK'
    BY <1>0, <2>2, <2>3, <2>4, RenderLemma DEF TypeOK
  <2>6. ReadIsBusy'
    BY <2>2, RenderLemma DEF ReadIsBusy
  <2>7. asked' + armed' = asked + armed
    BY <2>2, RenderLemma
  <2>8. ~ skipped' => asked' = 0 /\ shown' = size' /\ ~ stale'
    BY <2>2, <2>3, RenderLemma
  <2>9. LiveInv'
    BY <2>1, <2>3, <2>4, <2>7, <2>8
       DEF LiveInv, Unconfigured, AskedAfterSkip, DirtyIsPending
  <2>10. QED
    BY <2>5, <2>6, <2>9
<1>2. ASSUME surface_damage PROVE Inv'
  <2>1. Live /\ Live' /\ LiveInv
    BY <1>2 DEF surface_damage, Live
  <2>2. UNCHANGED << size, buf, life, attached, reading, shown, skipped >>
        /\ stale' = TRUE
    BY <1>2 DEF surface_damage
  <2>3. ReadIsBusy'
    BY <2>2 DEF ReadIsBusy
  <2>4. CASE ~ surface_is_configured /\ UNCHANGED << dirty, frame_pending, asked, armed >>
    <3>1. TypeOK'
      BY <1>0, <2>2, <2>4 DEF TypeOK
    <3>2. LiveInv'
      BY <2>1, <2>2, <2>4 DEF LiveInv, Unconfigured, AskedAfterSkip,
                              DirtyIsPending, surface_is_configured
    <3>3. QED
      BY <2>3, <3>1, <3>2
  <2>5. CASE /\ surface_is_configured /\ frame_pending
             /\ dirty' = TRUE
             /\ UNCHANGED << frame_pending, asked, armed >>
    <3>1. TypeOK'
      BY <1>0, <2>2, <2>5 DEF TypeOK
    <3>2. LiveInv'
      BY <2>1, <2>2, <2>5 DEF LiveInv, Unconfigured, AskedAfterSkip,
                              DirtyIsPending, surface_is_configured
    <3>3. QED
      BY <2>3, <3>1, <3>2
  <2>6. CASE /\ surface_is_configured /\ ~ frame_pending
             /\ dirty' = TRUE
             /\ frame_pending' = TRUE
             /\ Commit(asked + 1, armed)
    <3>1. asked + armed = 0 /\ asked \in Nat /\ armed \in Nat
      BY <2>1, <2>6 DEF LiveInv, TypeOK
    <3>2. asked' = 0 /\ armed' = 1
      BY <2>6, <3>1 DEF Commit
    <3>3. TypeOK'
      BY <1>0, <2>2, <2>6, <3>2 DEF TypeOK
    <3>4. LiveInv'
      BY <2>1, <2>2, <2>6, <3>2 DEF LiveInv, Unconfigured, AskedAfterSkip,
                              DirtyIsPending, surface_is_configured
    <3>5. QED
      BY <2>3, <3>3, <3>4
  <2>7. QED
    BY <1>2, <2>4, <2>5, <2>6 DEF surface_damage
<1>3. ASSUME surface_frame_done PROVE Inv'
  <2>1. Live /\ Live' /\ LiveInv
    BY <1>3 DEF surface_frame_done, Live
  <2>2. UNCHANGED << size, life >> /\ armed > 0
    BY <1>3 DEF surface_frame_done
  <2>3. frame_pending /\ asked = 0 /\ armed = 1
    BY <2>1, <2>2 DEF LiveInv, TypeOK
  <2>4. CASE /\ ~ dirty
             /\ frame_pending' = FALSE
             /\ armed' = armed - 1
             /\ UNCHANGED << buf, dirty, asked, attached, reading, shown, stale,
                             skipped >>
    <3>1. armed' = 0 /\ asked' = 0
      BY <2>3, <2>4
    <3>2. TypeOK'
      BY <1>0, <2>2, <2>4, <3>1 DEF TypeOK
    <3>3. ReadIsBusy'
      BY <2>4 DEF ReadIsBusy
    <3>4. LiveInv'
      BY <2>1, <2>2, <2>4, <3>1 DEF LiveInv, Unconfigured, AskedAfterSkip,
                              DirtyIsPending
    <3>5. QED
      BY <3>2, <3>3, <3>4
  <2>5. CASE /\ dirty
             /\ frame_pending' = TRUE
             /\ dirty' = FALSE
             /\ render_frame(size, asked + 1, armed - 1)
    <3>1. render_frame(size, 1, 0)
      BY <2>3, <2>5
    <3>2. size \in Sizes
      BY <2>1, <2>3 DEF LiveInv, Unconfigured, TypeOK
    <3>3. asked' \in Nat /\ armed' \in Nat /\ asked' + armed' = 1
      BY <3>1, <3>2, RenderLemma
    <3>4. TypeOK'
      BY <1>0, <2>2, <2>5, <3>1, <3>2, RenderLemma DEF TypeOK
    <3>5. ReadIsBusy'
      BY <3>1, <3>2, RenderLemma DEF ReadIsBusy
    <3>6. ~ skipped' => asked' = 0 /\ shown' = size' /\ ~ stale'
      BY <2>2, <3>1, <3>2, RenderLemma
    <3>7. LiveInv'
      BY <2>1, <2>2, <2>3, <2>5, <3>3, <3>6
         DEF LiveInv, Unconfigured, AskedAfterSkip, DirtyIsPending
    <3>8. QED
      BY <3>4, <3>5, <3>7
  <2>6. QED
    BY <1>3, <2>4, <2>5 DEF surface_frame_done
<1>4. ASSUME NEW b \in Buffers, Done(b) PROVE Inv'
  <2>1. UNCHANGED << size, buf, frame_pending, dirty, life, asked, armed,
                     attached, shown, stale, skipped >>
        /\ reading' = reading \ {b}
    BY <1>4 DEF Done, client, history
  <2>2. TypeOK'
    BY <1>0, <2>1 DEF TypeOK
  <2>3. ReadIsBusy'
    BY <2>1 DEF ReadIsBusy
  <2>4. Live' => LiveInv'
    BY <2>1 DEF Live, LiveInv, Unconfigured, AskedAfterSkip, DirtyIsPending
  <2>5. QED
    BY <2>2, <2>3, <2>4
<1>5. ASSUME NEW b \in Buffers, buffer_release(b) PROVE Inv'
  <2>1. UNCHANGED << size, frame_pending, dirty, life, asked, armed, attached,
                     reading, shown, stale, skipped >>
        /\ buf' = [buf EXCEPT ![b].busy = FALSE] /\ b \notin reading
    BY <1>5 DEF buffer_release, server, history
  <2>2. TypeOK'
    BY <1>0, <2>1 DEF TypeOK
  <2>3. ReadIsBusy'
    BY <2>1 DEF ReadIsBusy, TypeOK
  <2>4. Live' => LiveInv'
    BY <2>1 DEF Live, LiveInv, Unconfigured, AskedAfterSkip, DirtyIsPending
  <2>5. QED
    BY <2>2, <2>3, <2>4
<1>6. ASSUME NEW next \in {"freed", "exited"}, surface_destroy(next) PROVE Inv'
  <2>1. UNCHANGED << size, frame_pending, dirty, asked, armed, attached, shown,
                     stale, skipped >>
        /\ buf' = [b \in Buffers |-> NoBuffer] /\ reading' = {}
        /\ life' = next
    BY <1>6 DEF surface_destroy, history
  <2>2. TypeOK'
    BY <1>0, <2>1 DEF TypeOK, NoBuffer
  <2>3. ReadIsBusy' /\ ~ Live'
    BY <2>1 DEF ReadIsBusy, Live
  <2>4. QED
    BY <2>2, <2>3
<1>7. ASSUME UseFreed PROVE Inv'
  <2>1. UNCHANGED << size, buf, frame_pending, dirty, asked, armed, attached,
                     reading, shown, stale, skipped >>
        /\ life' = "undefined"
    BY <1>7 DEF UseFreed, server, history
  <2>2. TypeOK'
    BY <1>0, <2>1 DEF TypeOK
  <2>3. ReadIsBusy' /\ ~ Live'
    BY <2>1 DEF ReadIsBusy, Live
  <2>4. QED
    BY <2>2, <2>3
<1>8. ASSUME UNCHANGED vars PROVE Inv'
  <2>1. TypeOK' /\ ReadIsBusy'
    BY <1>8 DEF TypeOK, ReadIsBusy, vars
  <2>2. Live' => LiveInv'
    BY <1>8 DEF vars, Live, LiveInv, Unconfigured, AskedAfterSkip, DirtyIsPending
  <2>3. QED
    BY <2>1, <2>2
<1>9. QED
  BY <1>0, <1>1, <1>2, <1>3, <1>4, <1>5, <1>6, <1>7, <1>8
     DEF Step, layer_surface_closed, Exit

(* The inductive invariant holds throughout. *)
THEOREM Invariance == Spec => []Inv
BY InitInv, NextInv, PTL DEF Spec

(* The type invariant of Surface holds. *)
THEOREM TypeCorrect == Spec => []TypeOK
<1>1. Inv => TypeOK
  BY DEF Inv
<1>2. QED
  BY <1>1, Invariance, PTL

(* No buffer is drawn in or destroyed while the compositor may read it,    *)
(* whatever sizes are configured and whenever release events arrive.       *)
THEOREM BufferExclusion == Spec => []ReadIsBusy
<1>1. Inv => ReadIsBusy
  BY DEF Inv
<1>2. QED
  BY <1>1, Invariance, PTL

(* There is exactly one frame callback while frame_pending is set, and     *)
(* none otherwise.                                                         *)
THEOREM SingleCallback == Spec => []OneCallback
<1>1. Inv => OneCallback
  BY DEF Inv, LiveInv, OneCallback
<1>2. QED
  BY <1>1, Invariance, PTL

(* A change that is not on the screen is marked dirty and has a callback   *)
(* armed, unless a frame has been skipped.                                 *)
THEOREM NoLostDamage == Spec => []StaleIsPending
<1>1. Inv => StaleIsPending
  <2> SUFFICES ASSUME Inv, Live, surface_is_configured, ~ skipped, stale
               PROVE  dirty /\ frame_pending /\ armed = 1
    BY DEF StaleIsPending
  <2>1. dirty /\ frame_pending
    BY DEF Inv, LiveInv, DirtyIsPending, surface_is_configured
  <2>2. asked = 0 /\ asked + armed = 1 /\ armed \in Nat
    BY <2>1 DEF Inv, LiveInv, AskedAfterSkip, TypeOK
  <2>3. QED
    BY <2>1, <2>2
<1>2. QED
  BY <1>1, Invariance, PTL

(* The contents on the screen have the configured size, unless a frame has *)
(* been skipped.                                                           *)
THEOREM SizeFollows == Spec => []ShownSize
<1>1. Inv => ShownSize
  BY DEF Inv, LiveInv, ShownSize
<1>2. QED
  BY <1>1, Invariance, PTL

(* A calm compositor leaves a buffer free whenever it asks for a frame.  *)
LEMMA CalmLeavesFree == TypeOK /\ calm /\ CanSend => Free # {}
BY DEF TypeOK, CanSend, Free, Buffers

(* With a prompt compositor and enough memory no frame is skipped: two     *)
(* buffers are enough.                                                     *)
THEOREM TwoBuffersSuffice == Spec => []NeverSkips
<1>1. Init => NeverSkips
  BY DEF Init, NeverSkips
<1>2. TypeOK /\ NeverSkips /\ [Next]_vars => NeverSkips'
  <2> SUFFICES ASSUME TypeOK, NeverSkips, [Next]_vars, calm'
               PROVE  ~ skipped'
    BY DEF NeverSkips
  <2>0. calm /\ (Step \/ UNCHANGED vars)
    BY DEF Next, vars
  <2>1. ~ skipped
    BY <2>0 DEF NeverSkips
  <2>2. ASSUME NEW s, NEW n, NEW a, CanSend, render_frame(s, n, a)
        PROVE  ~ skipped'
    <3>1. Free # {}
      BY <2>0, <2>2, CalmLeavesFree
    <3>2. QED
      BY <2>0, <2>1, <2>2, <3>1 DEF render_frame, anonymous_shm_open_may_fail
  <2>3. ASSUME UNCHANGED skipped PROVE ~ skipped'
    BY <2>1, <2>3
  <2>4. ASSUME NEW s \in Sizes, layer_surface_configure(s) PROVE ~ skipped'
    BY <2>2, <2>4 DEF layer_surface_configure
  <2>5. ASSUME surface_frame_done PROVE ~ skipped'
    BY <2>2, <2>3, <2>5 DEF surface_frame_done
  <2>6. QED
    BY <2>0, <2>3, <2>4, <2>5
       DEF Step, surface_damage, Done, buffer_release, layer_surface_closed,
           Exit, surface_destroy, UseFreed, vars, history
<1>3. QED
  BY <1>1, <1>2, TypeCorrect, PTL DEF Spec
=============================================================================
