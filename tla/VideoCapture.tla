---------------------------- MODULE VideoCapture ----------------------------
(***************************************************************************)
(* The asynchronous capture path of video.cpp: capture_async() of every    *)
(* session on its own thread, one captureThread() shared by reference      *)
(* count, and the display object they pass through a weak pointer.  Every  *)
(* encoder of the program sets PARALLEL_ENCODING, so the synchronous path  *)
(* is never taken and is left out.                                         *)
(***************************************************************************)
EXTENDS Naturals, Sequences, SequencesExt

CONSTANTS
    Streams,       \* the sessions that may run capture_async()
    MaxDisplays    \* bound on the display objects created

VARIABLES
    ctxQueue,      \* capture_ctx_queue: "none", "open" or "stopped"
    waitingCtxs,   \* contexts raised and not taken by the capture thread
    refs,          \* sessions that hold a reference on the capture thread
    capture,       \* where captureThread() is
    ctxs,          \* capture_ctxs
    display,       \* disp: the display of the capture thread, 0 when reset
    published,     \* display_wp
    created,       \* display objects created so far
    reinit,        \* reinit_event
    switching,     \* a value in switch_display_event
    images,        \* session -> its image event: "none", "open", "stopped"
    frame,         \* session -> display of the image waiting in it, or 0
    stream,        \* session -> where capture_async() is
    held,          \* session -> the display it holds, or 0
    sent,          \* session -> frame_nr > 1
    shut,          \* session -> its shutdown event is raised
    undefined      \* front() of an empty vector was read

captureVars == <<ctxQueue, waitingCtxs, refs, capture, ctxs, display,
                 published, created, reinit, switching, images, frame,
                 stream, held, sent, shut, undefined>>

threadVars == <<capture, ctxs, display, published, created, switching,
                undefined>>
streamVars == <<stream, held, sent, shut>>

None == 0

Init ==
    /\ ctxQueue = "none" /\ waitingCtxs = <<>> /\ refs = {}
    /\ capture = "none" /\ ctxs = {} /\ display = None /\ published = None
    /\ created = 0 /\ reinit = FALSE /\ switching = FALSE
    /\ images = [s \in Streams |-> "none"]
    /\ frame = [s \in Streams |-> None]
    /\ stream = [s \in Streams |-> "idle"]
    /\ held = [s \in Streams |-> None]
    /\ sent = [s \in Streams |-> FALSE]
    /\ shut = [s \in Streams |-> FALSE]
    /\ undefined = FALSE

At(s, from, to) == stream[s] = from /\ stream' = [stream EXCEPT ![s] = to]

(* Releasing the last reference joins the thread under the lock of the     *)
(* shared object; until then nobody gets a reference.                      *)
Joining == \E s \in Streams : stream[s] = "joining"

(* The first reference starts the capture thread. *)
Ref(s) ==
    /\ At(s, "idle", "ref") /\ ~Joining
    /\ refs' = refs \cup {s}
    /\ images' = [images EXCEPT ![s] = "open"]
    /\ IF refs = {}
       THEN /\ ctxQueue' = "open" /\ waitingCtxs' = <<>> /\ reinit' = FALSE
            /\ capture' = "first" /\ ctxs' = {} /\ published' = None
       ELSE UNCHANGED <<ctxQueue, waitingCtxs, reinit, capture, ctxs, published>>
    /\ UNCHANGED <<display, created, switching, frame, held, sent, shut,
                   undefined>>

Raise(s) ==
    /\ At(s, "ref", "raised")
    /\ waitingCtxs' = IF ctxQueue = "open" THEN Append(waitingCtxs, s)
                      ELSE waitingCtxs
    /\ UNCHANGED <<ctxQueue, refs, reinit, images, frame, held, sent, shut,
                   threadVars>>

CheckQueue(s) ==
    /\ At(s, "raised", IF ctxQueue = "open" THEN "loop" ELSE "leave")
    /\ UNCHANGED <<ctxQueue, waitingCtxs, refs, reinit, images, frame, held,
                   sent, shut, threadVars>>

(* The loop condition, then the sleep while the display is renewed. *)
Loop(s) ==
    /\ LET over == shut[s] \/ images[s] # "open"
       IN  /\ over \/ ~reinit
           /\ At(s, "loop", IF over THEN "leave" ELSE "peeked")
    /\ UNCHANGED <<ctxQueue, waitingCtxs, refs, reinit, images, frame, held,
                   sent, shut, threadVars>>

Alive(d) == d # None /\ (display = d \/ \E s \in Streams : d \in {held[s], frame[s]})

LockDisplay(s) ==
    /\ At(s, "peeked", IF Alive(published) THEN "prepare" ELSE "loop")
    /\ held' = [held EXCEPT ![s] = IF Alive(published) THEN published ELSE None]
    /\ UNCHANGED <<ctxQueue, waitingCtxs, refs, reinit, images, frame, sent,
                   shut, threadVars>>

(* The HDR policy or the encode device refuses: capture_async() returns;   *)
(* no encode session or dummy image: encode_run() returns and the loop     *)
(* tries again; else encoding begins.                                      *)
Prepare(s) ==
    \E next \in {"leave", "loop", "encode"} :
        /\ At(s, "prepare", next)
        /\ held' = [held EXCEPT ![s] = IF next = "encode" THEN @ ELSE None]
        /\ UNCHANGED <<ctxQueue, waitingCtxs, refs, reinit, images, frame,
                       sent, shut, threadVars>>

(* One turn of the encoding loop: take the waiting image, leave if the     *)
(* stream ends or the display is renewed after the first frame, else       *)
(* encode; a failed conversion or encode call leaves as well.              *)
EncodeTurn(s) ==
    /\ frame' = [frame EXCEPT ![s] = None]
    /\ \/ /\ At(s, "encode", "loop")
          /\ held' = [held EXCEPT ![s] = None]
          /\ UNCHANGED sent
       \/ /\ stream[s] = "encode"
          /\ ~(shut[s] \/ images[s] # "open" \/ (reinit /\ sent[s]))
          /\ sent' = [sent EXCEPT ![s] = TRUE]
          /\ UNCHANGED <<stream, held>>
    /\ UNCHANGED <<ctxQueue, waitingCtxs, refs, reinit, images, shut, threadVars>>

(* ref is released before the guard stops the images. *)
Release(s) ==
    /\ At(s, "leave", IF refs = {s} THEN "joining" ELSE "released")
    /\ refs' = refs \ {s}
    /\ ctxQueue' = IF refs = {s} THEN "stopped" ELSE ctxQueue
    /\ ~Joining
    /\ UNCHANGED <<waitingCtxs, reinit, images, frame, held, sent, shut,
                   threadVars>>

Join(s) ==
    /\ capture = "done" /\ At(s, "joining", "released")
    /\ capture' = "none" /\ ctxQueue' = "none"
    /\ UNCHANGED <<waitingCtxs, refs, ctxs, display, published, created,
                   reinit, switching, images, frame, held, sent, shut, undefined>>

StopImages(s) ==
    /\ At(s, "released", "gone")
    /\ images' = [images EXCEPT ![s] = "stopped"]
    /\ frame' = [frame EXCEPT ![s] = None]
    /\ shut' = [shut EXCEPT ![s] = TRUE]
    /\ UNCHANGED <<ctxQueue, waitingCtxs, refs, reinit, held, sent, threadVars>>

(* A bug: the guard forgets the contexts that still wait in the queue. *)
EndCaptureTaken ==
    /\ capture' = "done" /\ ctxQueue' = "stopped" /\ display' = None
    /\ images' = [s \in Streams |-> IF s \in ctxs THEN "stopped" ELSE images[s]]
    /\ UNCHANGED <<waitingCtxs, refs, ctxs, published, created, reinit,
                   switching, frame, undefined, streamVars>>

(* The guard of captureThread(): whatever ends it stops the queue and      *)
(* every session that listens or still waits to be taken.                  *)
EndCapture ==
    /\ capture' = "done" /\ ctxQueue' = "stopped" /\ display' = None
    /\ images' = [s \in Streams |->
                    IF s \in ctxs \cup ToSet(waitingCtxs) THEN "stopped"
                    ELSE images[s]]
    /\ UNCHANGED <<waitingCtxs, refs, ctxs, published, created, reinit,
                   switching, frame, undefined, streamVars>>

FirstContext ==
    /\ capture = "first" /\ ctxQueue = "open" /\ waitingCtxs # <<>>
    /\ ctxs' = {Head(waitingCtxs)} /\ waitingCtxs' = Tail(waitingCtxs)
    /\ capture' = "open"
    /\ UNCHANGED <<ctxQueue, refs, display, published, created, reinit,
                   switching, images, frame, undefined, streamVars>>

OpenDisplay ==
    /\ capture = "open" /\ created < MaxDisplays
    /\ created' = created + 1
    /\ display' = created' /\ published' = created'
    /\ capture' = "capture"
    /\ UNCHANGED <<ctxQueue, waitingCtxs, refs, ctxs, reinit, switching,
                   images, frame, undefined, streamVars>>

Running(set) == {s \in set : images[s] = "open"}

(* push_captured_image_callback with a frame: drop the sessions that       *)
(* ended, hand the image to the others, take the contexts that came, and   *)
(* end the capture call when a display switch is requested.                *)
PushImage ==
    /\ capture = "capture" /\ ctxQueue = "open"
    /\ ctxs' = Running(ctxs) \cup ToSet(waitingCtxs)
    /\ waitingCtxs' = <<>>
    /\ frame' = [s \in Streams |-> IF s \in Running(ctxs) THEN display ELSE frame[s]]
    /\ reinit' = (reinit \/ switching)
    /\ capture' = IF switching THEN "drain" ELSE "capture"
    /\ UNCHANGED <<ctxQueue, refs, display, published, created, switching,
                   images, undefined, streamVars>>

(* A changed mode: the backend itself asks for a new display. *)
BeginReinit ==
    /\ capture = "capture" /\ ctxQueue = "open"
    /\ reinit' = TRUE /\ capture' = "drain"
    /\ UNCHANGED <<ctxQueue, waitingCtxs, refs, ctxs, display, published,
                   created, switching, images, frame, undefined, streamVars>>

Others == {s \in Streams : published \in {held[s], frame[s]}}

DrainCheck ==
    /\ capture = "drain"
    /\ capture' = IF Others = {} THEN "renew" ELSE "drop"
    /\ UNCHANGED <<ctxQueue, waitingCtxs, refs, ctxs, display, published,
                   created, reinit, switching, images, frame, undefined,
                   streamVars>>

DrainDrop ==
    /\ capture = "drop"
    /\ ctxs' = Running(ctxs)
    /\ frame' = [s \in Streams |-> IF s \in Running(ctxs) THEN None ELSE frame[s]]
    /\ capture' = "drain"
    /\ UNCHANGED <<ctxQueue, waitingCtxs, refs, display, published, created,
                   reinit, switching, images, undefined, streamVars>>

(* The old display goes, the names are read again, a pending switch is     *)
(* consumed, and the first context's configuration opens the new one.      *)
RenewDisplay ==
    /\ capture = "renew" /\ ctxQueue = "open" /\ created < MaxDisplays
    /\ switching' = FALSE
    /\ undefined' = (undefined \/ ctxs = {})
    /\ \/ /\ created' = created + 1 /\ display' = created'
          /\ capture' = "publish"
       \/ /\ display' = None
          /\ UNCHANGED <<created, capture>>
    /\ UNCHANGED <<ctxQueue, waitingCtxs, refs, ctxs, published, reinit,
                   images, frame, streamVars>>

(* A stop before the first attempt leaves the old display in place. *)
PublishDisplay ==
    /\ \/ capture = "publish"
       \/ capture = "renew" /\ ctxQueue = "stopped" /\ display # None
    /\ published' = display /\ reinit' = FALSE /\ capture' = "capture"
    /\ UNCHANGED <<ctxQueue, waitingCtxs, refs, ctxs, display, created,
                   switching, images, frame, undefined, streamVars>>

(* No display, a capture error, or a stopped queue ends the thread. *)
CaptureFails ==
    /\ \/ capture \in {"open", "capture"}
       \/ capture = "first" /\ ctxQueue = "stopped"
       \/ capture = "renew" /\ ctxQueue = "stopped" /\ display = None
    /\ EndCapture

Shutdown(s) ==
    /\ ~shut[s] /\ stream[s] # "idle"
    /\ shut' = [shut EXCEPT ![s] = TRUE]
    /\ UNCHANGED <<ctxQueue, waitingCtxs, refs, reinit, images, frame, stream,
                   held, sent, threadVars>>

RequestSwitch ==
    /\ ~switching /\ switching' = TRUE
    /\ UNCHANGED <<ctxQueue, waitingCtxs, refs, capture, ctxs, display,
                   published, created, reinit, images, frame, undefined,
                   streamVars>>

StreamStep(s) ==
    \/ Ref(s) \/ Raise(s) \/ CheckQueue(s) \/ Loop(s) \/ LockDisplay(s)
    \/ Prepare(s) \/ EncodeTurn(s) \/ Release(s) \/ Join(s) \/ StopImages(s)

CaptureStep ==
    \/ FirstContext \/ OpenDisplay \/ PushImage \/ BeginReinit
    \/ DrainCheck \/ DrainDrop \/ RenewDisplay \/ PublishDisplay \/ CaptureFails

Next ==
    \/ \E s \in Streams : StreamStep(s) \/ Shutdown(s)
    \/ CaptureStep \/ RequestSwitch

Spec == Init /\ [][Next]_captureVars

-----------------------------------------------------------------------------
(* "Stop all sessions listening to this thread": once captureThread() has  *)
(* returned, no session that was accepted keeps encoding or waiting for a  *)
(* display, even one whose context came in while the thread was ending.    *)
NoStreamWithoutCapture ==
    capture = "done" =>
        \A s \in Streams :
            stream[s] \in {"loop", "peeked", "prepare", "encode"} =>
                images[s] = "stopped"

(* "Wait for the other shared_ptr's of display to be destroyed": when      *)
(* captureThread() captures from a new display, no session still encodes   *)
(* from an older one.                                                      *)
OldDisplaysAreGone ==
    capture = "capture" => \A s \in Streams : held[s] \in {None, display}

(* The configuration a display is renewed with is that of some session. *)
RenewedForSomeone == ~undefined
=============================================================================
