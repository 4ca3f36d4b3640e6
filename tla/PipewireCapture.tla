-------------------------- MODULE PipewireCapture --------------------------
(***************************************************************************)
(* Capture through PipeWire (platform/linux/pipewire.cpp): a display that  *)
(* connects to a stream, the callbacks of the PipeWire loop thread, the    *)
(* capture loop, the image pool of captureThread() and the producer's      *)
(* finite set of buffers.  A DMA-BUF stays with the image that leases it   *)
(* until the image is reset; a memory frame is copied into one of two      *)
(* staging buffers.  The checks of the Gamescope source are those of       *)
(* gamescopegrab.cpp.                                                      *)
(***************************************************************************)
EXTENDS Naturals, Sequences, FiniteSets, SequencesExt

CONSTANTS
    Buffers,    \* the buffers of the producer
    Images      \* the images of the pool, a sequence of distinct names

VARIABLES
    phase,      \* where the life of the display is
    stream,     \* "none", "idle", "streaming" or "down"
    kind,       \* the negotiated buffers: "dmabuf" or "memory"
    active,     \* buffer_release_state_t::active
    dead,       \* stream_dead
    ready,      \* frame_ready
    place,      \* buffer -> "producer", "queued", "pending", "leased", "gone"
    order,      \* imgs, front first
    holder,     \* image -> "null", "idle", "capture", "encoder"
    lease,      \* image -> the buffer it leases, or NoBuffer
    shows,      \* image -> the staging buffer it points to, or "none"
    front,      \* front_buffer: "a" or "b"
    copying,    \* on_process() copies into the back buffer
    pc,         \* where the capture loop is
    productive, \* source_was_productive_
    waited,     \* first_frame_timeout_at_ is set
    got         \* sequence > 0

pwVars == <<phase, stream, kind, active, dead, ready, place, order, holder,
            lease, shows, front, copying, pc, productive, waited, got>>

NoBuffer == "none"
Names == ToSet(Images)
Back == IF front = "a" THEN "b" ELSE "a"

Fresh ==
    /\ phase' = "configure" /\ stream' = "none" /\ kind' = "dmabuf"
    /\ active' = FALSE /\ dead' = FALSE /\ ready' = FALSE
    /\ place' = [b \in Buffers |-> "gone"]
    /\ order' = Images
    /\ holder' = [i \in Names |-> "null"]
    /\ lease' = [i \in Names |-> NoBuffer]
    /\ shows' = [i \in Names |-> "none"]
    /\ front' = "a" /\ copying' = FALSE /\ pc' = "top"
    /\ productive' = FALSE /\ waited' = FALSE /\ got' = FALSE

Init ==
    /\ phase = "configure" /\ stream = "none" /\ kind = "dmabuf"
    /\ active = FALSE /\ dead = FALSE /\ ready = FALSE
    /\ place = [b \in Buffers |-> "gone"]
    /\ order = Images
    /\ holder = [i \in Names |-> "null"]
    /\ lease = [i \in Names |-> NoBuffer]
    /\ shows = [i \in Names |-> "none"]
    /\ front = "a" /\ copying = FALSE /\ pc = "top"
    /\ productive = FALSE /\ waited = FALSE /\ got = FALSE

streamVars == <<stream, kind, active, dead, place, front, copying>>
imageVars == <<order, holder, lease, shows>>
sourceVars == <<productive, waited, got>>

-----------------------------------------------------------------------------
(* configure_stream(): the session describes a verified source, or not. *)
Configure ==
    /\ phase = "configure"
    /\ phase' \in {"formats", "failed"}
    /\ productive' \in BOOLEAN
    /\ UNCHANGED <<streamVars, imageVars, ready, pc, waited, got>>

(* get_dmabuf_modifiers(): the GPU that is to import the buffers is asked. *)
ListFormats ==
    /\ phase = "formats"
    /\ phase' \in {"connect", "failed"}
    /\ UNCHANGED <<streamVars, imageVars, sourceVars, ready, pc>>

(* pipewire_t::init() returns with the loop locked when no context or core *)
(* is made: the destructor then waits for a loop thread that cannot run.   *)
Connect ==
    /\ phase = "connect"
    /\ phase' \in {"start", "hung"}
    /\ UNCHANGED <<streamVars, imageVars, sourceVars, ready, pc>>

(* ensure_stream(): the stream is made once, with the DMA-BUF formats      *)
(* first when the encoder can import them.                                 *)
EnsureStream(next) ==
    /\ phase' \in {next, "failed"}
    /\ IF stream = "none"
       THEN stream' = "idle" /\ active' = TRUE
       ELSE UNCHANGED <<stream, active>>
    /\ UNCHANGED <<kind, dead, place, front, copying, imageVars, sourceVars,
                   ready, pc>>

(* A probe of the encoders starts no stream of a Gamescope source. *)
StartInInit ==
    /\ phase = "start"
    /\ \/ EnsureStream("negotiate")
       \/ /\ phase' = "ready"
          /\ UNCHANGED <<streamVars, imageVars, sourceVars, ready, pc>>

(* The wait for the negotiation gives up after 1.5 s without failing. *)
Negotiate ==
    /\ phase = "negotiate"
    /\ phase' = IF dead THEN "failed" ELSE "ready"
    /\ UNCHANGED <<streamVars, imageVars, sourceVars, ready, pc>>

BeginCapture ==
    /\ phase = "ready"
    /\ EnsureStream("capture")

-----------------------------------------------------------------------------
(* The callbacks run one at a time on the loop thread.                     *)
Callback == stream # "none" /\ ~copying /\ phase \notin {"hung", "failed", "over"}

In(p) == {b \in Buffers : place[b] = p}
Move(set, p) == [b \in Buffers |-> IF b \in set THEN p ELSE place[b]]

(* on_param_changed(): what is pending goes back; a format with modifiers  *)
(* brings DMA-BUFs, and the buffers are allocated anew.                    *)
ParamChanged ==
    /\ Callback /\ stream = "idle"
    /\ kind' \in {"dmabuf", "memory"}
    /\ place' = [b \in Buffers |->
                    IF place[b] \in {"gone", "pending"} THEN "producer" ELSE place[b]]
    /\ UNCHANGED <<phase, stream, active, dead, ready, front, copying,
                   imageVars, sourceVars, pc>>

Streaming ==
    /\ Callback /\ stream = "idle" /\ In("gone") = {}
    /\ stream' = "streaming"
    /\ UNCHANGED <<phase, kind, active, dead, ready, place, front, copying,
                   imageVars, sourceVars, pc>>

(* on_stream_state_changed(): a pause returns what is pending. *)
Paused ==
    /\ Callback /\ stream = "streaming"
    /\ stream' = "idle" /\ dead' = TRUE /\ active' = FALSE /\ ready' = FALSE
    /\ place' = Move(In("pending"), "producer")
    /\ UNCHANGED <<phase, kind, front, copying, imageVars, sourceVars, pc>>

(* A bug: the images may still return their buffers. *)
DisconnectedActive ==
    /\ Callback /\ stream \in {"idle", "streaming"}
    /\ stream' = "down" /\ dead' = TRUE /\ ready' = FALSE
    /\ place' = [b \in Buffers |-> "gone"]
    /\ UNCHANGED <<phase, kind, active, front, copying, imageVars, sourceVars,
                   pc>>

(* An error, or the producer is gone: its buffers are freed.               *)
Disconnected ==
    /\ Callback /\ stream \in {"idle", "streaming"}
    /\ stream' = "down" /\ dead' = TRUE /\ active' = FALSE /\ ready' = FALSE
    /\ place' = [b \in Buffers |-> "gone"]
    /\ UNCHANGED <<phase, kind, front, copying, imageVars, sourceVars, pc>>

(* The producer fills one of its buffers. *)
Produce ==
    /\ stream = "streaming"
    /\ \E b \in In("producer") : place' = Move({b}, "queued")
    /\ UNCHANGED <<phase, stream, kind, active, dead, ready, front, copying,
                   imageVars, sourceVars, pc>>

(* on_process(): only the newest DMA-BUF is kept.                          *)
ProcessDmabuf ==
    /\ Callback /\ stream = "streaming" /\ kind = "dmabuf"
    /\ \E newest \in In("queued") :
          place' = [Move(In("pending") \cup In("queued"), "producer")
                      EXCEPT ![newest] = "pending"]
    /\ UNCHANGED <<phase, stream, kind, active, dead, ready, front, copying,
                   imageVars, sourceVars, pc>>

(* The newest memory frame is copied to the back buffer without the lock, *)
(* then the buffers are swapped under it.                                 *)
ProcessCopy ==
    /\ Callback /\ stream = "streaming" /\ kind = "memory" /\ In("queued") # {}
    /\ copying' = TRUE
    /\ UNCHANGED <<phase, stream, kind, active, dead, ready, place, front,
                   imageVars, sourceVars, pc>>

ProcessSwap ==
    /\ copying
    /\ copying' = FALSE /\ front' = Back /\ ready' = TRUE
    /\ place' = Move(In("queued"), "producer")
    /\ UNCHANGED <<phase, stream, kind, active, dead, imageVars, sourceVars, pc>>

-----------------------------------------------------------------------------
(* The image pool.  Resetting an image returns the buffer it leases, if    *)
(* the stream may still take it.                                           *)
Returned(set) ==
    IF active THEN Move({lease[i] : i \in set} \ {NoBuffer}, "producer") ELSE place

With(h) == {i \in Names : holder[i] = h}
Idle == SelectSeq(order, LAMBDA i : holder[i] = "idle")
Null == SelectSeq(order, LAMBDA i : holder[i] = "null")
CanPull == Idle # <<>> \/ Null # <<>>

(* An idle image before a new one; it moves to the front. *)
Picked == Head(Idle \o Null)

(* The images trimmed with it: some of the idle ones, the least recently   *)
(* used first.                                                             *)
Trimmed(n) ==
    LET rest == SelectSeq(Idle, LAMBDA i : i # Picked)
    IN  {rest[k] : k \in (Len(rest) + 1 - n)..Len(rest)}

Trims == 0..Cardinality(With("idle") \ {Picked})

(* A bug: the image keeps its buffer while the loop waits. *)
PullFreeKeeps(n, h) ==
    /\ order' = <<Picked>> \o SelectSeq(order, LAMBDA i : i # Picked)
    /\ holder' = [i \in Names |-> IF i = Picked THEN h
                                  ELSE IF i \in Trimmed(n) THEN "null" ELSE holder[i]]
    /\ UNCHANGED <<lease, place>>

(* pull_free_image_cb() and the reset of the image that follows it. *)
PullFree(n, h) ==
    /\ order' = <<Picked>> \o SelectSeq(order, LAMBDA i : i # Picked)
    /\ holder' = [i \in Names |-> IF i = Picked THEN h
                                  ELSE IF i \in Trimmed(n) THEN "null" ELSE holder[i]]
    /\ LET reset == Trimmed(n) \cup {Picked}
       IN  /\ lease' = [i \in Names |-> IF i \in reset THEN NoBuffer ELSE lease[i]]
           /\ place' = Returned(reset)

Mine == CHOOSE i \in Names : holder[i] = "capture"

(* snapshot(): the image is pulled before the wait. *)
PullImage(n) ==
    /\ phase = "capture" /\ pc \in {"top", "again"} /\ CanPull
    /\ pc = "top" => ~dead
    /\ n \in Trims /\ PullFree(n, "capture")
    /\ pc' = "wait"
    /\ UNCHANGED <<phase, stream, kind, active, dead, ready, shows, front,
                   copying, sourceVars>>

(* wait_for_frame() *)
WaitFrame ==
    /\ phase = "capture" /\ pc = "wait"
    /\ ready \/ dead \/ In("pending") # {}
    /\ ready' = FALSE /\ pc' = "fill"
    /\ UNCHANGED <<phase, streamVars, imageVars, sourceVars>>

(* fill_img(): it holds the loop's lock and the frame mutex. *)
FillImage ==
    /\ phase = "capture" /\ pc = "fill" /\ ~copying
    /\ IF dead
       THEN /\ shows' = [shows EXCEPT ![Mine] = "none"]
            /\ pc' = "reject" /\ UNCHANGED <<lease, place>>
       ELSE IF In("pending") # {}
       THEN \E b \in In("pending") :
            /\ lease' = [lease EXCEPT ![Mine] = b]
            /\ place' = Move({b}, "leased")
            /\ pc' = "filled" /\ UNCHANGED shows
       ELSE /\ shows' = [shows EXCEPT ![Mine] = IF ready THEN front ELSE "none"]
            /\ pc' = IF ready THEN "filled" ELSE "empty"
            /\ UNCHANGED <<lease, place>>
    /\ UNCHANGED <<phase, stream, kind, active, dead, ready, order, holder,
                   front, copying, sourceVars>>

(* A corrupted frame, or one without damage, is not passed on; its buffer  *)
(* goes back at once.                                                      *)
RejectFrame ==
    /\ phase = "capture" /\ pc \in {"filled", "empty", "reject"}
    /\ place' = Returned({Mine})
    /\ lease' = [lease EXCEPT ![Mine] = NoBuffer]
    /\ shows' = [shows EXCEPT ![Mine] = "none"]
    /\ holder' = [holder EXCEPT ![Mine] = "idle"]
    /\ pc' = "again"
    /\ UNCHANGED <<phase, stream, kind, active, dead, ready, order, front,
                   copying, sourceVars>>

(* A unique frame goes to the encoders that listen. *)
PushFrame ==
    /\ phase = "capture" /\ pc = "filled"
    /\ \E h \in {"idle", "encoder"} : holder' = [holder EXCEPT ![Mine] = h]
    /\ got' = TRUE /\ pc' = "top"
    /\ UNCHANGED <<phase, streamVars, order, lease, shows, ready, productive,
                   waited>>

(* The deadline passes; a retained source that was productive gets a grace *)
(* of two seconds for its first frame, then the capture is lost.           *)
WaitTimeout ==
    /\ phase = "capture" /\ pc \in {"wait", "again"}
    /\ holder' = [i \in Names |-> IF holder[i] = "capture" THEN "idle" ELSE holder[i]]
    /\ waited' = (~got /\ productive)
    /\ \/ pc' = "late" /\ UNCHANGED phase
       \/ waited /\ ~got /\ pc' = pc /\ phase' = "failed"
    /\ UNCHANGED <<streamVars, order, lease, shows, ready, productive, got>>

(* An image without a frame tells the encoders that time has passed. *)
PushTimeout(n) ==
    /\ phase = "capture" /\ pc = "late" /\ CanPull
    /\ n \in Trims
    /\ order' = <<Picked>> \o SelectSeq(order, LAMBDA i : i # Picked)
    /\ holder' = [i \in Names |-> IF i = Picked THEN "idle"
                                  ELSE IF i \in Trimmed(n) THEN "null" ELSE holder[i]]
    /\ lease' = [i \in Names |-> IF i \in Trimmed(n) THEN NoBuffer ELSE lease[i]]
    /\ place' = Returned(Trimmed(n))
    /\ pc' = "top"
    /\ UNCHANGED <<phase, stream, kind, active, dead, ready, shows, front,
                   copying, sourceVars>>

(* The dead stream is noticed at the top of the loop: the session decides  *)
(* whether the capture may start again.                                    *)
NoticeDead ==
    /\ phase = "capture" /\ pc = "top" /\ dead
    /\ dead' = FALSE /\ phase' \in {"failed", "over"}
    /\ UNCHANGED <<stream, kind, active, place, front, copying, imageVars,
                   sourceVars, ready, pc>>

(* The last session left: the callbacks of the pool refuse. *)
Interrupted ==
    /\ phase = "capture" /\ pc \in {"top", "again", "late"}
    /\ phase' = "over"
    /\ UNCHANGED <<streamVars, imageVars, sourceVars, ready, pc>>

EncoderDone(i) ==
    /\ holder[i] = "encoder"
    /\ holder' = [holder EXCEPT ![i] = "idle"]
    /\ UNCHANGED <<phase, streamVars, order, lease, shows, ready, sourceVars, pc>>

(* The pool is emptied, the encoders let go, and the display is destroyed; *)
(* the next one starts afresh.                                             *)
Destroy ==
    /\ phase \in {"failed", "over"} /\ ~copying /\ With("encoder") = {}
    /\ Fresh

Next ==
    \/ Configure \/ ListFormats \/ Connect \/ StartInInit \/ Negotiate \/ BeginCapture
    \/ ParamChanged \/ Streaming \/ Paused \/ Disconnected \/ Produce
    \/ ProcessDmabuf \/ ProcessCopy \/ ProcessSwap
    \/ \E n \in 0..Len(Images) : PullImage(n) \/ PushTimeout(n)
    \/ WaitFrame \/ FillImage \/ RejectFrame \/ PushFrame \/ WaitTimeout
    \/ NoticeDead \/ Interrupted \/ Destroy
    \/ \E i \in Names : EncoderDone(i)

Spec == Init /\ [][Next]_pwVars

-----------------------------------------------------------------------------
(* Every buffer the producer has is leased by an image no encoder reads. *)
Starved ==
    /\ phase = "capture" /\ stream = "streaming" /\ active
    /\ \A b \in Buffers : \E i \in Names \ With("encoder") : lease[i] = b

(* The pool forgets images that have not been used for three seconds.      *)
TrimAll == Starved /\ PullImage(Cardinality(With("idle") \ {Picked}))

(* The capture thread keeps running. *)
Fairness ==
    /\ WF_pwVars(WaitTimeout /\ pc' = "late")
    /\ WF_pwVars(\E n \in 0..Len(Images) : PushTimeout(n))
    /\ WF_pwVars(\E n \in 0..Len(Images) : PullImage(n))
    /\ WF_pwVars(RejectFrame) /\ WF_pwVars(FillImage) /\ WF_pwVars(NoticeDead)
    /\ SF_pwVars(TrimAll)

(* "A finite producer pool can have every buffer leased by idle images, in *)
(* which case waiting first would deadlock the producer and consumer": the *)
(* capture loop always gives a buffer back.                                *)
NoStarvation == Starved ~> ~Starved

(* A buffer lease that outlives its stream returns nothing: buffers freed  *)
(* with the stream are never queued again.                                 *)
NoReturnToDeadStream == stream = "down" => In("gone") = Buffers

(* "Copy the latest PipeWire frame into Sunshine's image buffer": a memory *)
(* frame that ends the wait is in the image afterwards.                    *)
WaitedFrameIsFilled == pc = "empty" => kind # "memory"

(* "Points to the buffer currently owned by fill_img": the buffer an       *)
(* encoder reads is not the one on_process() writes.                       *)
NoTornFrame == copying => \A i \in With("encoder") : shows[i] # Back

(* A display that cannot connect fails; it does not hang in its            *)
(* destructor.                                                             *)
FailureReturns == phase # "hung"
=============================================================================
