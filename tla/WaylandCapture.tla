--------------------------- MODULE WaylandCapture ---------------------------
(***************************************************************************)
(* Capture through wlr-screencopy (wayland.cpp, wlgrab.cpp): connecting to *)
(* the session's compositor or the desktop's, and one screencopy request   *)
(* per frame, whose events fill the inactive one of two frame descriptors. *)
(* A request that is not answered in time is neither cancelled nor         *)
(* awaited, so several may be under way and share buffer and descriptors.  *)
(***************************************************************************)
EXTENDS Naturals, Sequences, FiniteSetsExt

CONSTANTS
    Linked,      \* a session's compositor is connected to from the start
    Compositors, \* what a compositor offers: globals, monitors, modifiers
    Wanted,      \* display names that are asked for, with their number or 0
    Memories,    \* "ram" or "vram": wlr_ram_t and wlr_vram_t
    Images,      \* the encoder's pool of images
    Sizes,       \* sizes of the output
    MaxBuffers,  \* buffers that are exported
    MaxOpen      \* requests under way

VARIABLES
    compositor, wanted, memory,
    session,     \* "none", "starting", "live" (its socket may be missing)
    socket,      \* the session's socket exists
    link,        \* "none", "owned" or "desktop"
    lost,        \* the compositor is gone
    size,        \* the output's size now
    at,          \* where the capture thread is
    result,      \* how capture() returned
    display,     \* the monitor and its size when capture was initialised
    requests,    \* request -> its stage and the buffer it copies into
    status,      \* dmabuf_t::status
    info,        \* dmabuf_info: the size announced last, 0 for none
    frames,      \* the two descriptors: file descriptor, memory and size
    current,     \* which one is current_frame
    bo, wlbuf,   \* current_bo, current_wl_buffer
    bos,         \* buffer objects that were not destroyed
    open,        \* file descriptors that were not closed
    exported,    \* buffers exported so far
    written,     \* memory a finished copy has written
    images,      \* image -> its descriptor, memory and whether it is out
    shown,       \* the frame that was delivered last
    overlap      \* a request was made while another was under way

wlVars == <<compositor, wanted, memory, session, socket, link, lost, size, at,
            result, display, requests, status, info, frames, current, bo,
            wlbuf, bos, open, exported, written, images, shown, overlap>>
hostVars == <<compositor, wanted, memory>>
bufferVars == <<info, frames, current, bo, wlbuf, bos, open, exported, written>>

Empty == [fd |-> 0, mem |-> 0, size |-> 0]

Init ==
    /\ compositor \in Compositors /\ wanted \in Wanted /\ memory \in Memories
    /\ session = (IF Linked THEN "live" ELSE "none") /\ socket = Linked
    /\ link = (IF Linked THEN "owned" ELSE "none") /\ lost = FALSE
    /\ size = Min(Sizes) /\ at = (IF Linked THEN "globals" ELSE "socket")
    /\ result = "none"
    /\ display = [monitor |-> 0, size |-> 0]
    /\ requests = [r \in 1 .. MaxOpen |-> [stage |-> "none", mem |-> 0]]
    /\ status = "ready" /\ info = 0
    /\ frames = [i \in {0, 1} |-> Empty] /\ current = 0
    /\ bo = 0 /\ wlbuf = 0 /\ bos = {} /\ open = {} /\ exported = 0 /\ written = {}
    /\ images = [i \in Images |-> [fd |-> 0, mem |-> 0, out |-> FALSE]]
    /\ shown = [mem |-> 0, written |-> TRUE, fd |-> TRUE]
    /\ overlap = FALSE

Ends(how) == at' = "ended" /\ result' = how

-----------------------------------------------------------------------------
(* display_t::init() asks twice, under the manager's lock each time: is    *)
(* there a session's socket, and must there be one.                        *)
CaptureSocket ==
    /\ at = "socket"
    /\ \/ /\ session = "live" /\ socket
          /\ \/ at' = "globals" /\ link' = "owned" /\ UNCHANGED result
             \/ Ends("no display") /\ UNCHANGED link
       \/ ~(session = "live" /\ socket) /\ at' = "required" /\ UNCHANGED <<link, result>>
    /\ UNCHANGED <<hostVars, session, socket, lost, size, display, requests,
                   status, bufferVars, images, shown, overlap>>

SocketRequired ==
    /\ at = "required"
    /\ \/ session = "live" /\ Ends("refused")
       \/ session # "live" /\ at' = "desktop" /\ UNCHANGED result
    /\ UNCHANGED <<hostVars, session, socket, link, lost, size, display, requests,
                   status, bufferVars, images, shown, overlap>>

(* WAYLAND_DISPLAY may be missing, or nobody listens there.                *)
ConnectDesktop ==
    /\ at = "desktop"
    /\ \/ at' = "globals" /\ link' = "desktop" /\ UNCHANGED result
       \/ Ends("no display") /\ UNCHANGED link
    /\ UNCHANGED <<hostVars, session, socket, lost, size, display, requests,
                   status, bufferVars, images, shown, overlap>>

(* wlr_t::init(): the monitor of that name, else of that number, else the  *)
(* first, which is read even when there is none.                           *)
Monitor ==
    LET names == compositor.monitors
        named == {i \in DOMAIN names : names[i] = wanted.name}
        numbered == {i \in DOMAIN names : i = wanted.number}
    IN  CASE named # {} -> Min(named)
          [] named = {} /\ numbered # {} -> Min(numbered)
          [] OTHER -> 1

InitCapture ==
    /\ at = "globals"
    /\ \/ /\ {"xdg", "screencopy"} \subseteq compositor.globals
          /\ compositor.monitors # <<>>
          /\ display' = [monitor |-> Monitor, size |-> size]
          /\ at' = "listen" /\ UNCHANGED result
       \/ /\ ~({"xdg", "screencopy"} \subseteq compositor.globals)
          /\ Ends("no interface") /\ UNCHANGED display
       \/ /\ {"xdg", "screencopy"} \subseteq compositor.globals
          /\ compositor.monitors = <<>>
          /\ Ends("undefined") /\ UNCHANGED display
       \/ \* wlr_ram_t::init() has no EGL display or context to read with
          /\ {"xdg", "screencopy"} \subseteq compositor.globals
          /\ compositor.monitors # <<>> /\ memory = "ram"
          /\ Ends("no egl") /\ UNCHANGED display
    /\ UNCHANGED <<hostVars, session, socket, link, lost, size, requests,
                   status, bufferVars, images, shown, overlap>>

-----------------------------------------------------------------------------
Under == {r \in DOMAIN requests : requests[r].stage # "none"}

(* dmabuf_t::listen(): a new request, whatever became of the last one.     *)
Listen ==
    /\ at = "listen" /\ at' = "wait" /\ status' = "waiting"
    /\ info' = 0
    /\ Under # DOMAIN requests
    /\ requests' = [requests EXCEPT ![Min(DOMAIN requests \ Under)].stage = "asked"]
    /\ overlap' = (overlap \/ Under # {})
    /\ UNCHANGED <<hostVars, session, socket, link, lost, size, result, display,
                   frames, current, bo, wlbuf, bos, open, exported, written,
                   images, shown>>

(* display_t::dispatch(): the events are handled by the capture thread.    *)
Event(r, from) ==
    /\ at = "wait" /\ ~lost /\ requests[r].stage = from
    /\ UNCHANGED <<hostVars, session, socket, link, lost, size, at, result,
                   display, images, shown, overlap>>

Other == 1 - current
Destroyed(i) == [frames EXCEPT ![i].fd = 0]
Closed(i) == open \ {frames[i].fd}
Gone(r) == [requests EXCEPT ![r] = [stage |-> "none", mem |-> 0]]

(* The buffer, linux_dmabuf and flags events. *)
Describe(r) ==
    /\ Event(r, "asked")
    /\ info' = IF "dmabuf" \in compositor.globals THEN size ELSE 0
    /\ requests' = [requests EXCEPT ![r].stage = "described"]
    /\ UNCHANGED <<status, frames, current, bo, wlbuf, bos, open, exported, written>>

(* cleanup_gbm() *)
CleanupGbm == bo' = 0 /\ wlbuf' = 0 /\ bos' = bos \ {bo}

(* buffer_done() where there is no DMA-BUF, no GBM device or no buffer.    *)
NoBuffer(r) ==
    /\ Event(r, "described")
    /\ \/ info = 0 /\ UNCHANGED <<frames, bo>>
       \/ /\ info # 0 /\ (compositor.modifiers \/ bo = 0)
          /\ frames' = [frames EXCEPT ![Other].size = info] /\ bo' = 0
    /\ requests' = Gone(r) /\ status' = "reinit"
    /\ UNCHANGED <<info, current, wlbuf, bos, open, exported, written>>

(* create_and_copy_dmabuf(): a buffer object, which the modifiers replace  *)
(* and which is reused without them, exported into the inactive            *)
(* descriptor.                                                             *)
CreateBuffer(r) ==
    /\ Event(r, "described") /\ info # 0 /\ exported < MaxBuffers
    /\ LET fresh == exported + 1
           made == IF compositor.modifiers \/ bo = 0 THEN fresh ELSE bo
       IN  \/ /\ bo' = made /\ bos' = bos \cup {made}
              /\ frames' = [frames EXCEPT ![Other] =
                              [fd |-> fresh, mem |-> made, size |-> info]]
              /\ open' = Closed(Other) \cup {fresh}
              /\ exported' = fresh
              /\ requests' = [requests EXCEPT ![r] =
                                [stage |-> "params", mem |-> made]]
              /\ UNCHANGED status
           \/ \* export_gbm_bo_planes() fails and the object is destroyed
              /\ bo' = 0 /\ bos' = bos \ {made}
              /\ frames' = [Destroyed(Other) EXCEPT ![Other].size = info]
              /\ open' = Closed(Other)
              /\ requests' = Gone(r) /\ status' = "reinit"
              /\ UNCHANGED exported
    /\ UNCHANGED <<info, current, wlbuf, written>>

(* buffer_params_created(): the copy is asked for. *)
ParamsCreated(r) ==
    /\ Event(r, "params")
    /\ wlbuf' = requests[r].mem
    /\ requests' = [requests EXCEPT ![r].stage = "copying"]
    /\ UNCHANGED <<status, info, frames, current, bo, bos, open, exported, written>>

(* buffer_params_failed() and failed() *)
Failed(r) ==
    /\ \/ Event(r, "params") \/ Event(r, "copying") \/ Event(r, "asked")
    /\ CleanupGbm
    /\ frames' = Destroyed(Other) /\ open' = Closed(Other)
    /\ requests' = Gone(r) /\ status' = "reinit"
    /\ UNCHANGED <<info, current, exported, written>>

(* ready(): the descriptor that was shown is destroyed and the two change  *)
(* places.                                                                 *)
Ready(r) ==
    /\ Event(r, "copying")
    /\ written' = written \cup {requests[r].mem}
    /\ frames' = Destroyed(current) /\ open' = Closed(current)
    /\ current' = Other
    /\ CleanupGbm
    /\ requests' = Gone(r) /\ status' = "ready"
    /\ UNCHANGED <<info, exported>>

-----------------------------------------------------------------------------
(* wlr_t::snapshot(): nothing came in time.  A compositor that is gone     *)
(* looks the same.  The frame is pushed as not captured, unless the stream *)
(* ended.                                                                  *)
Timeout ==
    /\ at = "wait" /\ status = "waiting"
    /\ \/ at' = "listen" /\ UNCHANGED result
       \/ Ends("ok")
    /\ UNCHANGED <<hostVars, session, socket, link, lost, size, display, requests,
                   status, bufferVars, images, shown, overlap>>

(* A frame that failed or has another size starts the capture over.        *)
Reinit ==
    /\ at = "wait"
    /\ status = "reinit" \/ (status = "ready" /\ frames[current].size # display.size)
    /\ Ends("reinit")
    /\ UNCHANGED <<hostVars, session, socket, link, lost, size, display, requests,
                   status, bufferVars, images, shown, overlap>>

Free == {i \in Images : ~images[i].out}
Taken == at = "wait" /\ status = "ready" /\ frames[current].size = display.size

(* The image is pushed; the capture goes on unless the stream ended. *)
Deliver(f) ==
    /\ \/ at' = "listen" /\ UNCHANGED result
       \/ Ends("ok")
    /\ shown' = [mem |-> f.mem, written |-> f.mem \in written, fd |-> f.fd # 0]

(* wlr_vram_t::snapshot(): the image closes what it had and takes the      *)
(* descriptor over.                                                        *)
TakeVram ==
    /\ Taken /\ memory = "vram"
    /\ LET f == frames[current]
       IN  \/ /\ \E i \in Free :
                    /\ images' = [images EXCEPT ![i] =
                         [fd |-> f.fd, mem |-> f.mem, out |-> TRUE]]
                    /\ open' = open \ {images[i].fd}
              /\ frames' = Destroyed(current)
              /\ Deliver(f)
           \/ /\ Ends("interrupted") /\ UNCHANGED <<images, open, frames, shown>>
    /\ UNCHANGED <<hostVars, session, socket, link, lost, size, display, requests,
                   status, info, current, bo, wlbuf, bos, exported, written, overlap>>

(* wlr_ram_t::snapshot(): the frame is imported and read back.             *)
TakeRam ==
    /\ Taken /\ memory = "ram"
    /\ LET f == frames[current]
       IN  \/ /\ f.fd # 0
              /\ \E i \in Free :
                    images' = [images EXCEPT ![i].out = TRUE, ![i].mem = f.mem]
              /\ Deliver(f)
           \/ /\ \/ Ends("reinit") \/ (f.fd # 0 /\ Ends("interrupted"))
              /\ UNCHANGED <<images, shown>>
    /\ UNCHANGED <<hostVars, session, socket, link, lost, size, display, requests,
                   status, bufferVars, overlap>>

(* dmabuf_t::~dmabuf_t() *)
Destroy ==
    /\ at = "ended" /\ at' = "destroyed"
    /\ CleanupGbm
    /\ frames' = [i \in {0, 1} |-> [frames[i] EXCEPT !.fd = 0]]
    /\ open' = open \ {frames[0].fd, frames[1].fd}
    /\ requests' = [r \in DOMAIN requests |-> [stage |-> "none", mem |-> 0]]
    /\ UNCHANGED <<hostVars, session, socket, link, lost, size, result, display,
                   status, info, current, exported, written, images, shown, overlap>>

-----------------------------------------------------------------------------
(* The encoder lets go of an image. *)
Release ==
    /\ \E i \in Images : images[i].out /\ images' = [images EXCEPT ![i].out = FALSE]
    /\ UNCHANGED <<hostVars, session, socket, link, lost, size, at, result, display,
                   requests, status, bufferVars, shown, overlap>>

(* The session's manager, the output's mode and the compositor.            *)
World ==
    /\ \/ /\ at \in {"socket", "required", "desktop"}
          /\ \/ session = "none" /\ session' = "starting" /\ UNCHANGED socket
             \/ session = "starting" /\ session' = "live" /\ UNCHANGED socket
             \/ session = "live" /\ session' = "none" /\ socket' = FALSE
             \/ session # "none" /\ socket' = ~socket /\ UNCHANGED session
          /\ UNCHANGED <<size, lost>>
       \/ /\ at = "wait" /\ UNCHANGED <<session, socket>>
          /\ \/ size' \in Sizes \ {size} /\ UNCHANGED lost
             \/ ~lost /\ lost' = TRUE /\ UNCHANGED size
    /\ UNCHANGED <<hostVars, link, at, result, display, requests, status,
                   bufferVars, images, shown, overlap>>

Next ==
    \/ CaptureSocket \/ SocketRequired \/ ConnectDesktop \/ InitCapture \/ Listen
    \/ \E r \in DOMAIN requests :
        \/ Describe(r) \/ NoBuffer(r) \/ CreateBuffer(r) \/ ParamsCreated(r)
        \/ Failed(r) \/ Ready(r)
    \/ Timeout \/ Reinit \/ TakeVram \/ TakeRam \/ Destroy
    \/ Release \/ World

Spec == Init /\ [][Next]_wlVars

-----------------------------------------------------------------------------
(* A file descriptor belongs to one frame descriptor or one image, and one *)
(* that is open belongs to some, however many requests answer late: none   *)
(* leaks and none is closed under its user (frame_t::destroy, reset()).    *)
Held == {frames[i].fd : i \in {0, 1}} \cup {images[i].fd : i \in Images}

DescriptorsAreOwned ==
    /\ open = Held \ {0}
    /\ frames[0].fd = frames[1].fd => frames[0].fd = 0
    /\ \A i \in Images :
        /\ \A j \in {0, 1} : images[i].fd = frames[j].fd => images[i].fd = 0
        /\ \A j \in Images \ {i} : images[i].fd = images[j].fd => images[i].fd = 0

(* While the compositor answers in time, a frame is delivered after its    *)
(* copy was made, and its buffer object goes with it.                      *)
AnsweredIsWhole ==
    ~overlap => shown.written /\ shown.fd /\ bos \subseteq {bo}

(* Under observation: the same while requests overlap, a buffer that a     *)
(* late copy writes while the encoder reads it, and a desktop that is      *)
(* captured although a session has started since.                          *)
LateIsWhole == shown.written /\ shown.fd
NoDesktopForSession ==
    [][link = "none" /\ link' = "desktop" => session # "live"]_wlVars
NoLostBuffer == at = "destroyed" => bos = {}
NoWriteUnderReader ==
    \A i \in Images, r \in Under :
        images[i].out /\ requests[r].stage = "copying" => images[i].mem # requests[r].mem
LossIsReported == lost /\ at = "ended" => result # "ok"
=============================================================================
