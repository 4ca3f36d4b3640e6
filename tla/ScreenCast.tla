----------------------------- MODULE ScreenCast -----------------------------
(***************************************************************************)
(* How a PipeWire stream of the desktop is obtained.                       *)
(*                                                                         *)
(* Portal (portalgrab.cpp): a session with the desktop portal is set up by *)
(* requests whose answers come as signals, each with its own path and a    *)
(* limit of 20 s; a RemoteDesktop session is tried first, a ScreenCast     *)
(* session when that fails; the file descriptor it yields is passed to the *)
(* PipeWire core.  KWin (kwingrab.cpp): a stream is requested through a    *)
(* Wayland protocol and its events are dispatched for up to 5 s.           *)
(***************************************************************************)
EXTENDS Naturals, FiniteSets

CONSTANT MaxRequests   \* bound on the portal requests of one behaviour

VARIABLES
    backend,    \* "portal" or "kwin"
    purpose,    \* "display", or "names": portal_display_names()
    pc,         \* where the caller is
    only,       \* use_screencast_only
    count,      \* request_count
    waiting,    \* the request whose answer is awaited, or 0
    requests,   \* requests the portal has not answered
    answers,    \* answers on their way
    progress,   \* session kind -> how far the portal's session is
    handle,     \* session_handle: the session ~dbus_t closes
    token,      \* a restore token is known and saved
    dbusFd,     \* dbus_t::pipewire_fd >= 0
    coreFd,     \* the PipeWire core owns the descriptor
    file,       \* what the descriptor's number refers to
    struck,     \* a close() hit somebody else's file
    bound,      \* KWin: the screencast protocol and an output are bound
    events,     \* KWin: the events of the stream so far
    ready,      \* stream_ready
    failed      \* stream_failed

castVars == <<backend, purpose, pc, only, count, waiting, requests, answers,
              progress, handle, token, dbusFd, coreFd, file, struck, bound,
              events, ready, failed>>
kwinVars == <<bound, events, ready, failed>>
fdVars == <<dbusFd, coreFd, file, struck>>
portalVars == <<requests, answers, progress>>

Kinds == {"remote", "cast"}

Init ==
    /\ backend \in {"portal", "kwin"} /\ purpose \in {"display", "names"}
    /\ pc = "begin" /\ only = FALSE /\ count = 0 /\ waiting = 0
    /\ requests = {} /\ answers = {}
    /\ progress = [k \in Kinds |-> "none"]
    /\ handle = "none" /\ token = FALSE
    /\ dbusFd = FALSE /\ coreFd = FALSE /\ file = "free" /\ struck = FALSE
    /\ bound = FALSE /\ events = {} /\ ready = FALSE /\ failed = FALSE

Session == IF only THEN "cast" ELSE "remote"

-----------------------------------------------------------------------------
(* dbus_t::init(): the saved token is loaded, the proxies are made. *)
OpenBus ==
    /\ backend = "portal" /\ pc = "begin"
    /\ pc' \in {"create", "close"}
    /\ UNCHANGED <<backend, purpose, only, count, waiting, portalVars, handle,
                   token, fdVars, kwinVars>>

(* The steps of connect_to_portal() and what the session has then. *)
Reaches == [create |-> "created", devices |-> "devices",
            sources |-> "sources", start |-> "started"]

After(op) ==
    CASE op = "create"  -> IF only THEN "sources" ELSE "devices"
      [] op = "devices" -> "sources"
      [] op = "sources" -> "start"
      [] op = "start"   -> "remote"

(* try_remote_desktop_session() fails: the other kind is tried; with that, *)
(* or in start_portal_session(), a failure ends the attempt.               *)
GiveUp(op) ==
    IF ~only /\ op # "start" THEN pc' = "create" /\ only' = TRUE
    ELSE pc' = "close" /\ UNCHANGED only

(* A bug: the counter of request paths is not advanced. *)
RequestPathSame(id) == id = 1

(* create_request_path(): a path of its own for every request. *)
RequestPath(id) == id = count + 1

(* The signal is subscribed to before the call; the call itself may fail,  *)
(* and the subscription is dropped.                                        *)
Call(op) ==
    /\ backend = "portal" /\ pc = op /\ waiting = 0 /\ count < MaxRequests
    /\ \E id \in 1..MaxRequests :
          /\ RequestPath(id)
          /\ count' = count + 1
          /\ \/ /\ waiting' = id
                /\ requests' = requests \cup {[id |-> id, op |-> op, kind |-> Session]}
                /\ UNCHANGED <<pc, only>>
             \/ /\ GiveUp(op)
                /\ UNCHANGED <<waiting, requests>>
    /\ UNCHANGED <<backend, purpose, answers, progress, handle, token, fdVars,
                   kwinVars>>

(* The portal answers, or the user refuses. *)
PortalAnswers(r) ==
    /\ r \in requests
    /\ requests' = requests \ {r}
    /\ \/ /\ answers' = answers \cup {[id |-> r.id, ok |-> TRUE]}
          /\ progress' = [progress EXCEPT ![r.kind] = Reaches[r.op]]
       \/ /\ answers' = answers \cup {[id |-> r.id, ok |-> FALSE]}
          /\ UNCHANGED progress
    /\ UNCHANGED <<backend, purpose, pc, only, count, waiting, handle, token,
                   fdVars, kwinVars>>

(* dbus_response_wait() returns the answer with the awaited path.          *)
TakeAnswer(op, a) ==
    /\ pc = op /\ waiting # 0 /\ a \in answers /\ a.id = waiting
    /\ answers' = answers \ {a} /\ waiting' = 0
    /\ IF a.ok
       THEN /\ pc' = After(op) /\ UNCHANGED only
            /\ handle' = IF op = "create" THEN Session ELSE handle
            /\ token' = (token \/ op = "start")
       ELSE GiveUp(op) /\ UNCHANGED <<handle, token>>
    /\ UNCHANGED <<backend, purpose, count, requests, progress, fdVars, kwinVars>>

(* No answer in time: unsubscribe, and ask the portal to close the request *)
(* if it has not been answered yet.                                        *)
AnswerTimeout(op) ==
    /\ pc = op /\ waiting # 0
    /\ waiting' = 0
    /\ requests' \in {requests, {r \in requests : r.id # waiting}}
    /\ GiveUp(op)
    /\ UNCHANGED <<backend, purpose, count, answers, progress, handle, token,
                   fdVars, kwinVars>>

(* A signal nobody is subscribed to is dropped. *)
DropAnswer(a) ==
    /\ a \in answers /\ a.id # waiting
    /\ answers' = answers \ {a}
    /\ UNCHANGED <<backend, purpose, pc, only, count, waiting, requests,
                   progress, handle, token, fdVars, kwinVars>>

(* open_pipewire_remote(); the list of names needs nothing more.           *)
OpenRemote ==
    /\ backend = "portal" /\ pc = "remote" /\ file = "free"
    /\ \/ /\ dbusFd' = TRUE /\ file' = "portal"
          /\ pc' = IF purpose = "names" THEN "close" ELSE "configured"
       \/ pc' = "close" /\ UNCHANGED <<dbusFd, file>>
    /\ UNCHANGED <<backend, purpose, only, count, waiting, portalVars, handle,
                   token, coreFd, struck, kwinVars>>

(* close() of the number, whatever it refers to by now. *)
CloseFd ==
    /\ struck' = (struck \/ file = "other")
    /\ file' = "free"

(* pipewire_display_t::init(): without the GPU's formats the descriptor is *)
(* closed; else the core takes it over.                                    *)
InitDisplay ==
    /\ pc = "configured" /\ backend = "portal"
    /\ \/ /\ CloseFd /\ pc' = "close" /\ UNCHANGED coreFd
       \/ /\ coreFd' = TRUE /\ pc' = "running" /\ UNCHANGED <<file, struck>>
    /\ UNCHANGED <<backend, purpose, only, count, waiting, portalVars, handle,
                   token, dbusFd, kwinVars>>

EndDisplay ==
    /\ pc = "running" /\ pc' = "close"
    /\ UNCHANGED <<backend, purpose, only, count, waiting, portalVars, handle,
                   token, fdVars, kwinVars>>

(* ~dbus_t: the session it knows of and the descriptor are closed ...      *)
CloseBus ==
    /\ backend = "portal" /\ pc = "close"
    /\ progress' = [k \in Kinds |-> IF k = handle THEN "closed" ELSE progress[k]]
    /\ IF dbusFd THEN CloseFd ELSE UNCHANGED <<file, struck>>
    /\ dbusFd' = FALSE /\ pc' = "core"
    /\ UNCHANGED <<backend, purpose, only, count, waiting, requests, answers,
                   handle, token, coreFd, kwinVars>>

(* ... then ~pipewire_t disconnects the core, which closes it as well. *)
CloseCore ==
    /\ pc = "core"
    /\ IF coreFd THEN CloseFd ELSE UNCHANGED <<file, struck>>
    /\ coreFd' = FALSE /\ pc' = "done"
    /\ UNCHANGED <<backend, purpose, only, count, waiting, portalVars, handle,
                   token, dbusFd, kwinVars>>

(* Another thread opens a file and gets the free number. *)
OtherOpens ==
    /\ file = "free" /\ pc \in {"close", "core"} /\ file' = "other"
    /\ UNCHANGED <<backend, purpose, pc, only, count, waiting, portalVars,
                   handle, token, dbusFd, coreFd, struck, kwinVars>>

-----------------------------------------------------------------------------
(* KWin: a desktop file permits this executable, or one is written.        *)
KwinPermission ==
    /\ backend = "kwin" /\ pc = "begin" /\ pc' = "kwinInit"
    /\ UNCHANGED <<backend, purpose, only, count, waiting, portalVars, handle,
                   token, fdVars, kwinVars>>

KwinInit ==
    /\ pc = "kwinInit"
    /\ pc' \in {"kwinRegistry", "done"}
    /\ UNCHANGED <<backend, purpose, only, count, waiting, portalVars, handle,
                   token, fdVars, kwinVars>>

(* Two round trips bring the protocols KWin grants and the outputs.        *)
KwinRegistry ==
    /\ pc = "kwinRegistry"
    /\ bound' \in BOOLEAN
    /\ pc' = IF purpose = "names" THEN "done" ELSE "kwinStart"
    /\ UNCHANGED <<backend, purpose, only, count, waiting, portalVars, handle,
                   token, fdVars, events, ready, failed>>

(* start(): a stream for the output of that name, else for the first one. *)
KwinStart ==
    /\ pc = "kwinStart"
    /\ pc' = IF bound THEN "kwinWait" ELSE "done"
    /\ UNCHANGED <<backend, purpose, only, count, waiting, portalVars, handle,
                   token, fdVars, kwinVars>>

(* The events one wl_display_dispatch() hands over, in the order sent.     *)
KwinEvents(batch) ==
    /\ pc = "kwinWait" /\ ~ready /\ ~failed
    /\ "created" \notin events /\ "failed" \notin events
    /\ events' = events \cup batch
    /\ ready' = ("created" \in batch /\ "closed" \notin batch)
    /\ failed' = ("failed" \in batch)
    /\ UNCHANGED <<backend, purpose, pc, only, count, waiting, portalVars,
                   handle, token, fdVars, bound>>

(* start(): ready or failed, or the five seconds are over; without a node  *)
(* it fails.                                                               *)
KwinDone ==
    /\ pc = "kwinWait"
    /\ pc' = IF failed \/ "created" \notin events THEN "done" ELSE "kwinRunning"
    /\ UNCHANGED <<backend, purpose, only, count, waiting, portalVars, handle,
                   token, fdVars, kwinVars>>

Ops == {"create", "devices", "sources", "start"}

Next ==
    \/ OpenBus \/ OpenRemote \/ InitDisplay \/ EndDisplay \/ CloseBus
    \/ CloseCore \/ OtherOpens \/ KwinDone
    \/ KwinPermission \/ KwinInit \/ KwinRegistry \/ KwinStart
    \/ \E op \in Ops :
          Call(op) \/ AnswerTimeout(op) \/ \E a \in answers : TakeAnswer(op, a)
    \/ \E r \in requests : PortalAnswers(r)
    \/ \E a \in answers : DropAnswer(a)
    \/ \E batch \in {{"created"}, {"failed"}, {"created", "closed"}} :
          KwinEvents(batch)

Spec == Init /\ [][Next]_castVars

-----------------------------------------------------------------------------
(* The streams and outputs are put in the order of their positions.        *)
Before(a, b) == a.x < b.x \/ a.y < b.y

-----------------------------------------------------------------------------
(* A step is taken only when the portal granted the one before it: the     *)
(* late answer of a request that timed out is never taken for the answer   *)
(* of a later one.                                                         *)
GrantedBeforeUse ==
    /\ pc = "devices" /\ backend = "portal" => progress["remote"] # "none"
    /\ pc = "sources" => progress[Session] \in {"created", "devices", "sources"}
    /\ pc = "start" => progress[Session] \in {"sources", "started"}
    /\ pc \in {"remote", "configured", "running"} => progress[Session] = "started"

(* "Never close a potentially reused fd": no close() of the descriptor     *)
(* hits a file another thread has opened since.                            *)
ClosesOwnFd == ~struck

(* "Save it for the destructor to use during cleanup": once the bus is     *)
(* closed no session stays open in the portal.                             *)
EverySessionIsClosed ==
    pc = "done" /\ backend = "portal" =>
        \A k \in Kinds : progress[k] \in {"none", "closed"}

(* A screencast that start() reports as running has not been closed by     *)
(* KWin before it returned.                                                *)
StartedIsOpen == pc = "kwinRunning" => "closed" \notin events

(* What std::sort asks of the order. *)
StrictOrder ==
    \A a, b \in [x : {0, 1}, y : {0, 1}] : ~(Before(a, b) /\ Before(b, a))
=============================================================================
