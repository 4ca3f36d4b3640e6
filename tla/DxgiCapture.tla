---------------------------- MODULE DxgiCapture ----------------------------
(***************************************************************************)
(* Capture of the Windows desktop (platform/windows/display_base.cpp,      *)
(* display_vram.cpp, display_ram.cpp and display_wgc.cpp): desktop         *)
(* duplication with the last frame kept as an image or as a surface so     *)
(* that a moving pointer can be drawn again, duplication into memory, and  *)
(* the frames of Windows.Graphics.Capture, which arrive on a thread of     *)
(* their own.  The encoder opens the textures of the images it is given.   *)
(***************************************************************************)
EXTENDS Naturals

CONSTANTS Images, MaxChanges   \* the pool; bound on changes of the desktop

VARIABLES
    backend,  \* "none", "vram", "ram" or "wgc"
    desk,     \* the desktop's content, counted
    pointer,  \* the pointer is visible
    fresh,    \* content was presented and not acquired yet
    moved,    \* the pointer changed and was not reported yet
    resized,  \* the desktop has another size than the display
    changes,
    pc,       \* where the capture thread is
    plan,     \* last_frame_action and out_frame_action
    known,    \* capture_format is known
    seen,     \* the content acquired last
    cursor,   \* the visibility of the pointer reported last
    last,     \* last_frame_variant: "none", an image or a surface
    surface,  \* the content of the surface, or of the staging texture
    out,      \* img_out
    img,      \* image -> its texture and what is on it
    textures, \* textures the display made so far
    slot,     \* the image in the encoder's queue
    enc,      \* the image the encoder works on
    context,  \* image -> img_ctx_map: the address and the texture
    cb,       \* the frame on_frame_arrived() holds, 0 for none
    produced, \* produced_frame
    consumed, \* consumed_frame
    opened    \* the capture frames that are not closed

dxgiVars == <<backend, desk, pointer, fresh, moved, resized, changes, pc,
              plan, known, seen, cursor, last, surface, out, img, textures,
              slot, enc, context, cb, produced, consumed, opened>>
sceneVars == <<desk, pointer, resized, changes>>
wgcVars == <<cb, produced, consumed, opened>>
encVars == <<slot, enc, context>>

Backends == {"vram", "ram", "wgc"}
Blank == [tex |-> 0, addr |-> 0, dummy |-> FALSE, blank |-> TRUE, desk |-> 0,
          cursor |-> FALSE]
NoPlan == [last |-> "nothing", out |-> "dummy"]
NoContext == [addr |-> 0, tex |-> 0]

Init ==
    /\ backend = "none" /\ desk = 1 /\ pointer \in BOOLEAN
    /\ fresh = TRUE /\ moved = TRUE /\ resized = FALSE /\ changes = 0
    /\ pc = "closed" /\ plan = NoPlan /\ known = FALSE /\ seen = 0
    /\ cursor = FALSE /\ last = [kind |-> "none", img |-> "none"]
    /\ surface = 0 /\ out = "none"
    /\ img = [i \in Images |-> Blank] /\ textures = 0
    /\ slot = "none" /\ enc = "none"
    /\ context = [i \in Images |-> NoContext]
    /\ cb = 0 /\ produced = 0 /\ consumed = 0 /\ opened = {}

(* The desktop presents, the pointer appears or goes, the mode changes.    *)
Desktop ==
    /\ changes < MaxChanges /\ changes' = changes + 1
    /\ \/ desk' = desk + 1 /\ fresh' = TRUE /\ UNCHANGED <<pointer, moved, resized>>
       \/ pointer' = ~pointer /\ moved' = TRUE /\ UNCHANGED <<desk, fresh, resized>>
       \/ resized' = TRUE /\ UNCHANGED <<desk, fresh, pointer, moved>>
    /\ UNCHANGED <<backend, pc, plan, known, seen, cursor, last, surface, out,
                   img, textures, encVars, wgcVars>>

-----------------------------------------------------------------------------
(* Duplication learns the format from its first frame, the other capture   *)
(* asks for one.                                                           *)
FormatKnown(b) == b = "wgc"

(* What a duplication reports first: the pointer, and the desktop when it  *)
(* was presented.                                                          *)
FirstFrame == fresh' \in BOOLEAN /\ moved' = TRUE

(* display(): duplication first, then Windows.Graphics.Capture; init()     *)
(* looks for the output twice, and the duplication is tried twice.  A      *)
(* callback of the capture before has returned by then.                    *)
Open(b) ==
    /\ pc = "closed" /\ slot = "none" /\ enc = "none" /\ cb = 0 /\ pc' = "loop"
    /\ backend' = b /\ known' = FormatKnown(b)
    /\ FirstFrame /\ resized' = FALSE
    /\ seen' = 0 /\ cursor' = FALSE /\ surface' = 0
    /\ last' = [kind |-> "none", img |-> "none"]
    /\ context' = [i \in Images |-> NoContext]
    /\ textures' = 0
    /\ UNCHANGED <<desk, pointer, changes, plan, out, img, slot, enc, wgcVars>>

(* The capture ends: the images go, the display with them. *)
Close ==
    /\ pc' = "closed" /\ backend' = "none" /\ out' = "none"
    /\ img' = [i \in Images |-> Blank]
    /\ produced' = 0 /\ consumed' = 0
    /\ opened' = IF cb = 0 THEN {} ELSE {cb}
    /\ UNCHANGED cb

(* The display subsystem changed, or the duplication was lost. *)
Reinit ==
    /\ pc = "loop" /\ enc = "none"
    /\ Close /\ slot' = "none"
    /\ UNCHANGED <<sceneVars, fresh, moved, plan, known, seen, cursor, last,
                   surface, textures, enc, context>>

(* What to do with the last frame, and what to send: the pointer is drawn  *)
(* on a copy of the surface, an image without it is sent as it is.         *)
LastAction ==
    IF ~known' THEN "nothing"
    ELSE IF fresh THEN IF cursor' THEN "source to surface" ELSE "source to image"
    ELSE IF last.kind = "image" /\ cursor' THEN "image to surface"
    ELSE IF last.kind = "surface" /\ ~cursor' THEN "surface to image"
    ELSE "nothing"

OutAction ==
    IF ~known' \/ (last.kind = "none" /\ ~fresh) THEN "dummy"
    ELSE IF cursor' THEN "blend" ELSE "forward"

(* next_frame() and the first half of snapshot(). *)
Acquire ==
    /\ pc = "loop" /\ backend \in {"vram", "ram"} /\ (fresh \/ moved)
    /\ IF fresh /\ resized
       THEN /\ enc = "none" /\ Close /\ slot' = "none"
            /\ UNCHANGED <<fresh, moved, plan, known, seen, cursor>>
       ELSE /\ pc' = IF backend = "ram" THEN "copy" ELSE "last"
            /\ known' = (known \/ fresh)
            /\ seen' = IF fresh THEN desk ELSE seen
            /\ cursor' = IF moved THEN pointer ELSE cursor
            /\ plan' = [last |-> LastAction, out |-> OutAction]
            /\ fresh' = FALSE /\ moved' = FALSE
            /\ UNCHANGED <<backend, slot, out, img, wgcVars>>
    /\ UNCHANGED <<sceneVars, last, surface, textures, enc, context>>

-----------------------------------------------------------------------------
(* An image is free when only the pool refers to it. *)
Free(i) ==
    /\ i \notin {slot, enc, out}
    /\ ~(last.kind = "image" /\ last.img = i)

(* complete_img(): the texture is made again when the image changes from a *)
(* dummy to a real one; it may get the address of the one it replaces.     *)
Completed(i, dummy) ==
    IF img[i].tex # 0 /\ img[i].dummy = dummy THEN {[img[i] EXCEPT !.blank = FALSE]}
    ELSE {[tex |-> textures + 1, addr |-> a, dummy |-> dummy, blank |-> FALSE,
           desk |-> 0, cursor |-> FALSE] :
            a \in {textures + 1} \cup ({img[i].addr} \ {0})}

(* The image's texture gets this content. *)
Fill(i, dummy, d, c) ==
    \E t \in Completed(i, dummy) :
        /\ img' = [img EXCEPT ![i] = [t EXCEPT !.desk = d, !.cursor = c]]
        /\ textures' = IF t.tex = img[i].tex THEN textures ELSE textures + 1

LastNothing ==
    /\ pc = "last" /\ plan.last = "nothing" /\ pc' = "out"
    /\ UNCHANGED <<backend, sceneVars, fresh, moved, plan, known, seen, cursor,
                   last, surface, out, img, textures, encVars, wgcVars>>

(* lfa::copy_src_to_surface and lfa::replace_img_with_surface *)
LastToSurface ==
    /\ pc = "last" /\ plan.last \in {"source to surface", "image to surface"}
    /\ pc' = "out"
    /\ surface' = IF plan.last = "source to surface" THEN seen ELSE img[last.img].desk
    /\ last' = [kind |-> "surface", img |-> "none"]
    /\ UNCHANGED <<backend, sceneVars, fresh, moved, plan, known, seen, cursor,
                   out, img, textures, encVars, wgcVars>>

(* A bug: the frame is copied over the image that was sent last. *)
CopySourceInPlace(i) ==
    /\ pc = "last" /\ plan.last = "source to image" /\ pc' = "out"
    /\ i # out /\ (last.kind = "image" => i = last.img)
    /\ (last.kind # "image" => Free(i))
    /\ Fill(i, FALSE, seen, FALSE)
    /\ last' = [kind |-> "image", img |-> i]
    /\ UNCHANGED <<backend, sceneVars, fresh, moved, plan, known, seen, cursor,
                   surface, out, encVars, wgcVars>>

(* lfa::copy_src_to_img: the image kept before is let go first. *)
CopySource(i) ==
    /\ pc = "last" /\ plan.last = "source to image" /\ pc' = "out"
    /\ i \notin {slot, enc, out}
    /\ Fill(i, FALSE, seen, FALSE)
    /\ last' = [kind |-> "image", img |-> i]
    /\ UNCHANGED <<backend, sceneVars, fresh, moved, plan, known, seen, cursor,
                   surface, out, encVars, wgcVars>>

(* lfa::replace_surface_with_img *)
ReplaceSurface(i) ==
    /\ pc = "last" /\ plan.last = "surface to image" /\ pc' = "out" /\ Free(i)
    /\ Fill(i, FALSE, surface, FALSE)
    /\ last' = [kind |-> "image", img |-> i]
    /\ UNCHANGED <<backend, sceneVars, fresh, moved, plan, known, seen, cursor,
                   surface, out, encVars, wgcVars>>

(* ofa::forward_last_img *)
Forward ==
    /\ pc = "out" /\ plan.out = "forward" /\ pc' = "push"
    /\ out' = last.img
    /\ UNCHANGED <<backend, sceneVars, fresh, moved, plan, known, seen, cursor,
                   last, surface, img, textures, encVars, wgcVars>>

(* A bug: the image with the pointer becomes the last frame. *)
BlendKeeps(i) ==
    /\ pc = "out" /\ plan.out = "blend" /\ pc' = "push" /\ Free(i)
    /\ Fill(i, FALSE, surface, TRUE)
    /\ out' = i /\ last' = [kind |-> "image", img |-> i]
    /\ UNCHANGED <<backend, sceneVars, fresh, moved, plan, known, seen, cursor,
                   surface, encVars, wgcVars>>

(* ofa::copy_last_surface_and_blend_cursor *)
Blend(i) ==
    /\ pc = "out" /\ plan.out = "blend" /\ pc' = "push" /\ Free(i)
    /\ Fill(i, FALSE, surface, TRUE)
    /\ out' = i
    /\ UNCHANGED <<backend, sceneVars, fresh, moved, plan, known, seen, cursor,
                   last, surface, encVars, wgcVars>>

(* ofa::dummy_fallback: black, and cleared when it was used before. *)
Dummy(i) ==
    /\ pc = "out" /\ plan.out = "dummy" /\ pc' = "push" /\ Free(i)
    /\ Fill(i, TRUE, 0, cursor)
    /\ out' = i
    /\ UNCHANGED <<backend, sceneVars, fresh, moved, plan, known, seen, cursor,
                   last, surface, encVars, wgcVars>>

(* display_ddup_ram_t: through the staging texture, which keeps the last   *)
(* frame, into the image; then the pointer.                                *)
CopyToMemory(i) ==
    /\ pc = "copy" /\ pc' = "push" /\ Free(i)
    /\ surface' = IF known THEN seen ELSE 0
    /\ Fill(i, FALSE, surface', cursor)
    /\ out' = i
    /\ UNCHANGED <<backend, sceneVars, fresh, moved, plan, known, seen, cursor,
                   last, encVars, wgcVars>>

(* The image goes to the encoder, the acquired frame back. *)
Push ==
    /\ pc = "push" /\ pc' = "loop"
    /\ slot' = out /\ out' = "none"
    /\ UNCHANGED <<backend, sceneVars, fresh, moved, plan, known, seen, cursor,
                   last, surface, img, textures, enc, context, wgcVars>>

-----------------------------------------------------------------------------
(* on_frame_arrived(): a frame is taken from the pool, *)
FrameArrived ==
    /\ backend = "wgc" /\ fresh /\ cb = 0
    /\ cb' = desk /\ opened' = opened \cup {desk} /\ fresh' = FALSE
    /\ UNCHANGED <<backend, sceneVars, moved, pc, plan, known, seen, cursor,
                   last, surface, out, img, textures, encVars, produced,
                   consumed>>

(* A bug: the frame before is closed without a look at who has it. *)
ProduceCloses ==
    /\ backend = "wgc" /\ cb # 0
    /\ produced' = cb /\ cb' = 0 /\ opened' = {cb}
    /\ UNCHANGED <<backend, sceneVars, fresh, moved, pc, plan, known, seen,
                   cursor, last, surface, out, img, textures, encVars,
                   consumed>>

(* and replaces, under the lock, one that was not consumed. *)
Produce ==
    /\ backend = "wgc" /\ cb # 0
    /\ opened' = opened \ {produced}
    /\ produced' = cb /\ cb' = 0
    /\ UNCHANGED <<backend, sceneVars, fresh, moved, pc, plan, known, seen,
                   cursor, last, surface, out, img, textures, encVars,
                   consumed>>

(* The callback of a capture that is gone. *)
ProduceLate ==
    /\ backend # "wgc" /\ cb # 0
    /\ cb' = 0 /\ opened' = opened \ {cb}
    /\ UNCHANGED <<backend, sceneVars, fresh, moved, pc, plan, known, seen,
                   cursor, last, surface, out, img, textures, encVars,
                   produced, consumed>>

(* wgc_capture_t::next_frame(): the frame before is closed, the one that   *)
(* was produced is taken under the lock; without one it is a timeout.      *)
Consume ==
    /\ pc = "loop" /\ backend = "wgc"
    /\ opened' = opened \ {consumed}
    /\ consumed' = produced /\ produced' = 0
    /\ pc' = IF produced = 0 THEN "loop" ELSE "texture"
    /\ seen' = IF produced = 0 THEN seen ELSE produced
    /\ UNCHANGED <<backend, sceneVars, fresh, moved, plan, known, cursor, last,
                   surface, out, img, textures, encVars, cb>>

(* display_wgc_vram_t::snapshot(): copied while the frame is open. *)
CopyConsumed(i) ==
    /\ pc = "texture" /\ Free(i)
    /\ IF resized
       THEN enc = "none" /\ Close /\ slot' = "none" /\ UNCHANGED <<textures>>
       ELSE /\ pc' = "push" /\ Fill(i, FALSE, consumed, FALSE) /\ out' = i
            /\ UNCHANGED <<backend, slot, wgcVars>>
    /\ UNCHANGED <<sceneVars, fresh, moved, plan, known, seen, cursor, last,
                   surface, enc, context>>

-----------------------------------------------------------------------------
TakeImage ==
    /\ slot # "none" /\ enc = "none"
    /\ enc' = slot /\ slot' = "none"
    /\ UNCHANGED <<backend, sceneVars, fresh, moved, pc, plan, known, seen,
                   cursor, last, surface, out, img, textures, context, wgcVars>>

(* initialize_image_context(): the shared texture is opened unless the     *)
(* context's texture has the same address.                                 *)
ContextOf(i) ==
    IF context[i].tex # 0 /\ context[i].addr = img[i].addr THEN context[i]
    ELSE [addr |-> img[i].addr, tex |-> img[i].tex]

(* convert(): drawn under the image's mutex, then the image is let go. *)
Convert ==
    /\ enc # "none"
    /\ context' = [context EXCEPT ![enc] = ContextOf(enc)]
    /\ enc' = "none"
    /\ UNCHANGED <<backend, sceneVars, fresh, moved, pc, plan, known, seen,
                   cursor, last, surface, out, img, textures, slot, wgcVars>>

Next ==
    \/ Desktop \/ Reinit \/ Acquire \/ LastNothing \/ LastToSurface \/ Forward
    \/ Push \/ FrameArrived \/ Produce \/ ProduceLate \/ Consume \/ TakeImage
    \/ Convert
    \/ \E b \in Backends : Open(b)
    \/ \E i \in Images :
         \/ CopySource(i) \/ ReplaceSurface(i) \/ Blend(i) \/ Dummy(i)
         \/ CopyToMemory(i) \/ CopyConsumed(i)

Spec == Init /\ [][Next]_dxgiVars

-----------------------------------------------------------------------------
(* A frame that is sent shows the content that was acquired last, and the  *)
(* pointer exactly when it was reported visible, whatever was kept between *)
(* the frames.                                                             *)
FrameIsCurrent ==
    pc = "push" => img[out].desk = seen /\ img[out].cursor = cursor

(* The texture of an image that waits for the encoder or is being encoded  *)
(* is not touched.                                                         *)
HeldImageIsStable ==
    [][ \A i \in Images :
          i \in {slot, enc} /\ i \in {slot', enc'} => img'[i] = img[i] ]_dxgiVars

(* The frame that is copied has not been closed by the thread that         *)
(* produces the next ones.                                                 *)
ConsumedFrameIsOpen == pc = "texture" => consumed \in opened

(* The encoder reads the texture the image was captured into. *)
EncoderReadsCaptured == enc # "none" => ContextOf(enc).tex = img[enc].tex

(* No callback runs on a capture that is gone. *)
CallbackHasCapture == cb # 0 => backend = "wgc"
=============================================================================
