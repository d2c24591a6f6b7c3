------------------------------ MODULE Surface ------------------------------
(***************************************************************************)
(* The surface the menu is drawn on (src/surface.c, render_frame of        *)
(* src/render.c and sway-client-helpers/pool-buffer.c): a pool of two      *)
(* buffers shared with the compositor, and frame callbacks that limit      *)
(* drawing to what the compositor asks for.                                *)
(***************************************************************************)
EXTENDS Naturals

CONSTANT Sizes  \* the sizes the compositor configures; 0 stands for none yet

ASSUME SurfaceAssumption == Sizes # {} /\ 0 \notin Sizes

Buffers == 1 .. 2

VARIABLES
  \* the client
  size,           \* surface->width, height
  buf,            \* surface->buffers
  frame_pending,  \* surface->frame_pending
  dirty,          \* surface->dirty
  life,           \* "live", "freed", "exited", or "undefined" behaviour
  \* the compositor and the requests it has been sent
  calm,           \* whether shared memory never runs out and the compositor,
                  \* before it sends a configure or a frame event, has
                  \* released every buffer but the one attached
  asked,          \* wl_surface_frame callbacks, not committed yet
  armed,          \* frame callbacks committed and not called back
  attached,       \* the buffer of the last commit that had one
  reading,        \* the buffers the compositor may read
  shown,          \* the size of the contents last committed
  \* history, for the properties
  stale,          \* something has changed since the contents were drawn
  skipped         \* render_frame has once found no buffer

vars == << size, buf, frame_pending, dirty, life, calm, asked, armed,
           attached, reading, shown, stale, skipped >>

client == << size, buf, frame_pending, dirty, life >>
server == << asked, armed, attached, reading, shown >>
history == << stale, skipped >>
-----------------------------------------------------------------------------
(* A pool_buffer that has been destroyed, or not been created. *)
NoBuffer == [made |-> FALSE, busy |-> FALSE, size |-> 0]

(* create_buffer, whose caller marks the buffer busy, and destroy_buffer.  *)
create_buffer(b, s) ==
  buf' = [buf EXCEPT ![b] = [made |-> TRUE, busy |-> TRUE, size |-> s]]
destroy_buffer(b) == buf' = [buf EXCEPT ![b] = NoBuffer]

(* create_buffer returns NULL when anonymous_shm_open or ftruncate fails.  *)
anonymous_shm_open_may_fail == ~ calm

(* Slips: the loop over the pool ends one too early; it does not look at   *)
(* busy.                                                                   *)
FreeFirst == {b \in {1} : ~ buf[b].busy}
FreeOrBusy == Buffers

Free == {b \in Buffers : ~ buf[b].busy}

(* get_next_buffer looks at both buffers and keeps the last free one.      *)
NextFree == IF 2 \in Free THEN 2 ELSE 1

(* The buffer can be drawn in as it is. *)
Fits(b, s) == buf[b].made /\ buf[b].size = s

surface_is_configured == size # 0

(* wl_surface_commit, when n callbacks have been asked for and a are armed. *)
Commit(n, a) == asked' = 0 /\ armed' = a + n

(* render_frame returns early: nothing is committed, the callbacks asked   *)
(* for included.                                                           *)
Skip(n, a) ==
  /\ skipped' = TRUE
  /\ asked' = n
  /\ armed' = a
  /\ UNCHANGED << attached, reading, shown, stale >>

(* render_frame at size s, with get_next_buffer.  A buffer of the wrong    *)
(* size is destroyed first, and stays so if no new one can be created.     *)
(* (Its test that the surface is configured never fails: see Unconfigured  *)
(* in Surface_proofs.)                                                     *)
render_frame(s, n, a) ==
  \/ Free = {} /\ Skip(n, a) /\ UNCHANGED buf
  \/ /\ Free # {} /\ ~ Fits(NextFree, s) /\ anonymous_shm_open_may_fail
     /\ destroy_buffer(NextFree)
     /\ Skip(n, a)
  \/ /\ Free # {}
     /\ create_buffer(NextFree, s)
     /\ attached' = NextFree
     /\ reading' = reading \union {NextFree}
     /\ shown' = s
     /\ stale' = FALSE
     /\ Commit(n, a)
     /\ UNCHANGED skipped
-----------------------------------------------------------------------------
(* The handlers. *)

Live == life = "live"

(* A calm compositor sends nothing while it holds a replaced buffer. *)
CanSend == calm => \A b \in Buffers \ {attached} : ~ buf[b].busy

(* A slip: the new size waits for the next damage to be drawn. *)
configure_without_frame(s) ==
  /\ Live /\ CanSend
  /\ size' = s
  /\ UNCHANGED << buf, frame_pending, dirty, life, server, history >>

layer_surface_configure(s) ==
  /\ Live /\ CanSend
  /\ size' = s
  /\ render_frame(s, asked, armed)
  /\ UNCHANGED << frame_pending, dirty, life >>

(* Slips: nothing is recorded while a frame is pending; a frame is asked   *)
(* for although one is pending.                                            *)
damage_lost_if_pending ==
  /\ Live
  /\ stale' = TRUE
  /\ \/ /\ ~ surface_is_configured \/ frame_pending
        /\ UNCHANGED << dirty, frame_pending, asked, armed >>
     \/ /\ surface_is_configured /\ ~ frame_pending
        /\ dirty' = TRUE
        /\ frame_pending' = TRUE
        /\ Commit(asked + 1, armed)
  /\ UNCHANGED << size, buf, life, attached, reading, shown, skipped >>
damage_always_asks ==
  /\ Live /\ armed < 3
  /\ stale' = TRUE
  /\ surface_is_configured
  /\ dirty' = TRUE
  /\ frame_pending' = TRUE
  /\ Commit(asked + 1, armed)
  /\ UNCHANGED << size, buf, life, attached, reading, shown, skipped >>

(* The menu has changed: every handler that changes it ends with this      *)
(* call.                                                                   *)
surface_damage ==
  /\ Live
  /\ stale' = TRUE
  /\ \/ /\ ~ surface_is_configured
        /\ UNCHANGED << dirty, frame_pending, asked, armed >>
     \/ /\ surface_is_configured /\ frame_pending
        /\ dirty' = TRUE
        /\ UNCHANGED << frame_pending, asked, armed >>
     \/ /\ surface_is_configured /\ ~ frame_pending
        /\ dirty' = TRUE
        /\ frame_pending' = TRUE
        /\ Commit(asked + 1, armed)
  /\ UNCHANGED << size, buf, life, attached, reading, shown, skipped >>

(* A slip: the callback is destroyed a second time. *)
frame_done_destroys_twice ==
  /\ Live /\ armed > 0 /\ CanSend
  /\ \/ /\ ~ dirty
        /\ frame_pending' = FALSE
        /\ armed' = armed - 2
        /\ UNCHANGED << buf, dirty, asked, attached, reading, shown, stale,
                        skipped >>
     \/ /\ dirty
        /\ frame_pending' = TRUE
        /\ dirty' = FALSE
        /\ render_frame(size, asked + 1, armed - 1)
  /\ UNCHANGED << size, life >>

surface_frame_done ==
  /\ Live /\ armed > 0 /\ CanSend
  /\ \/ /\ ~ dirty
        /\ frame_pending' = FALSE
        /\ armed' = armed - 1
        /\ UNCHANGED << buf, dirty, asked, attached, reading, shown, stale,
                        skipped >>
     \/ /\ dirty
        /\ frame_pending' = TRUE
        /\ dirty' = FALSE
        /\ render_frame(size, asked + 1, armed - 1)
  /\ UNCHANGED << size, life >>

(* The compositor has no more use for a buffer, and says so. *)
Done(b) ==
  /\ b \in reading
  /\ reading' = reading \ {b}
  /\ UNCHANGED << client, asked, armed, attached, shown, history >>

buffer_release(b) ==
  /\ Live /\ buf[b].busy /\ b \notin reading
  /\ buf' = [buf EXCEPT ![b].busy = FALSE]
  /\ UNCHANGED << size, frame_pending, dirty, life, server, history >>

(* surface_destroy frees the structure itself; state->surface keeps its    *)
(* address.                                                                *)
surface_destroy(next) ==
  /\ buf' = [b \in Buffers |-> NoBuffer]
  /\ reading' = {}
  /\ life' = next
  /\ UNCHANGED << size, frame_pending, dirty, asked, armed, attached, shown,
                  history >>

layer_surface_closed == Live /\ surface_destroy("freed")

(* run() ends. *)
Exit == Live /\ surface_destroy("exited")

(* After the surface has been closed: a damage, a frame callback that was  *)
(* still armed, or the surface_destroy at the end of run() uses it again.  *)
UseFreed ==
  /\ life = "freed"
  /\ life' = "undefined"
  /\ UNCHANGED << size, buf, frame_pending, dirty, server, history >>
-----------------------------------------------------------------------------
Init ==
  /\ size = 0
  /\ buf = [b \in Buffers |-> NoBuffer]
  /\ frame_pending = FALSE /\ dirty = FALSE
  /\ life = "live"
  /\ calm \in BOOLEAN
  /\ asked = 0 /\ armed = 0
  /\ attached = 0 /\ reading = {} /\ shown = 0
  /\ stale = TRUE /\ skipped = FALSE

Step ==
  \/ \E s \in Sizes : layer_surface_configure(s)
  \/ surface_damage
  \/ surface_frame_done
  \/ \E b \in Buffers : Done(b) \/ buffer_release(b)
  \/ layer_surface_closed
  \/ Exit
  \/ UseFreed

Next == Step /\ UNCHANGED calm

Spec == Init /\ [][Next]_vars

(* The compositor stops reading a buffer that has been replaced, and calls *)
(* the callbacks that are armed; loop_poll dispatches what it sends.       *)
Fairness ==
  /\ \A b \in Buffers :
       /\ WF_vars(b # attached /\ Done(b) /\ UNCHANGED calm)
       /\ WF_vars(buffer_release(b) /\ UNCHANGED calm)
  /\ WF_vars(surface_frame_done /\ UNCHANGED calm)

FairSpec == Spec /\ Fairness
-----------------------------------------------------------------------------
TypeOK ==
  /\ size \in Sizes \union {0}
  /\ buf \in [Buffers -> [made : BOOLEAN, busy : BOOLEAN, size : Sizes \union {0}]]
  /\ frame_pending \in BOOLEAN
  /\ dirty \in BOOLEAN
  /\ life \in {"live", "freed", "exited", "undefined"}
  /\ calm \in BOOLEAN
  /\ asked \in Nat
  /\ armed \in Nat
  /\ attached \in Buffers \union {0}
  /\ reading \subseteq Buffers
  /\ shown \in Sizes \union {0}
  /\ stale \in BOOLEAN
  /\ skipped \in BOOLEAN

(* A buffer that the compositor may still read is never handed out for     *)
(* drawing and never destroyed by a resize: it is marked busy from the     *)
(* commit until the release event has arrived.                             *)
ReadIsBusy == \A b \in reading : buf[b].made /\ buf[b].busy

(* There is at most one frame callback at any time, and frame_pending says *)
(* whether there is one: the client never asks for two frames, and never   *)
(* waits for a callback that it has not asked for.                         *)
OneCallback == Live => asked + armed = IF frame_pending THEN 1 ELSE 0

(* A change that is not on the screen yet is not forgotten: unless a frame *)
(* has had to be skipped, dirty is set, and there is a frame callback that *)
(* the compositor knows of, so that it will be drawn.                      *)
StaleIsPending ==
  Live /\ surface_is_configured /\ ~ skipped /\ stale
    => dirty /\ frame_pending /\ armed = 1

(* The contents on the screen have the size last configured, unless a      *)
(* frame has had to be skipped.                                            *)
ShownSize == Live /\ ~ skipped => shown = size

(* With a compositor that releases replaced buffers promptly, and memory   *)
(* for two buffers, no frame is ever skipped.                              *)
NeverSkips == calm => ~ skipped

(* In the same circumstances every change reaches the screen, or the       *)
(* surface or the program ends.                                            *)
CatchesUp == (calm /\ stale /\ surface_is_configured) ~> (~ stale \/ ~ Live)

(* Nothing uses the surface after it has been destroyed.                   *)
NoUseAfterDestroy == life # "undefined"
=============================================================================
