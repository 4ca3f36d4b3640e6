--------------------------- MODULE StreamSession ---------------------------
(***************************************************************************)
(* The life of a stream session across the threads that share it: the RTSP *)
(* thread that announces, starts and reaps sessions, the HTTP threads that *)
(* end them, the control thread of the broadcast context, the session's    *)
(* own audio and video workers, and the recording API.                     *)
(*                                                                         *)
(*   src/src/stream.cpp      start, stop, join, controlBroadcastThread,    *)
(*                           videoThread, audioThread, end_broadcast       *)
(*   src/src/rtsp.cpp        cmd_announce, clear, clear_by_cert, start     *)
(*   src/src/thread_safe.h   shared_t (the broadcast context's references) *)
(*                                                                         *)
(* A session is allocated once.  The 10 s watchdog of join() is left out:  *)
(* it fires exactly where a join of this model never ends.                 *)
(***************************************************************************)
EXTENDS Integers, FiniteSets, TLC

CONSTANTS
    Sessions,  \* sessions that may be announced
    Exits,     \* what may end on its own: "app", "service"
    Clears     \* what HTTP threads do: "all", "cert", "stopped", "record"

ASSUME ExitsAssumption  == Exits \subseteq {"app", "service"}
ASSUME ClearsAssumption == Clears \subseteq {"all", "cert", "stopped", "record"}
ASSUME NamesAssumption  == "recording" \notin Sessions /\ "none" \notin Sessions

VARIABLES
    state,       \* session.state; "none" before alloc, "freed" after.
                 \* shutdown_event is raised with STOPPING
    reason,      \* session.disconnect_reason is no longer unknown
    deadline,    \* session.pingTimeout has been set
    workers,     \* live audio and video workers
    spawned,     \* the worker threads are joinable
    peer,        \* session.control.peer is set
    controlEnd,  \* session.controlEnd is raised
    gone,        \* the client no longer sends control traffic
    slots,       \* _session_slots
    list,        \* control_server._sessions
    running,     \* running_sessions
    platform,    \* streaming_will_start / streaming_will_stop
    refs,        \* holders of the broadcast context
    control,     \* where the control thread is
    awaiting,    \* its has_session_awaiting_peer
    at,          \* where the RTSP, HTTP and recording threads are
    on,          \* the session each works on
    todo,        \* slots a clear has still to visit
    op,          \* which clear a thread runs
    app,         \* proc::proc.running() > 0
    down         \* mail::shutdown is raised

session == <<state, reason>>
serving == <<deadline, workers, spawned, peer, controlEnd, gone>>
context == <<refs, control, awaiting, list>>
counted == <<running, platform>>
thread  == <<at, on, todo, op>>
world   == <<app, down>>
vars == <<session, serving, slots, context, counted, thread, world>>

Threads == {"rtsp", "http", "record"}
Starting == {"ref", "push", "deadline", "spawn", "run", "count", "respond",
             "remove"}
Clearing == {"visit", "join", "leave", "report", "erase", "ending"}
Ops      == {"none", "all", "stop", "cert", "count", "stopped"}

TypeOK ==
    /\ state \in [Sessions -> {"none", "STOPPED", "RUNNING", "STOPPING", "freed"}]
    /\ reason \in [Sessions -> BOOLEAN]
    /\ deadline \in [Sessions -> BOOLEAN]
    /\ workers \in [Sessions -> 0..2]
    /\ spawned \in [Sessions -> BOOLEAN]
    /\ peer \in [Sessions -> BOOLEAN]
    /\ controlEnd \in [Sessions -> BOOLEAN]
    /\ gone \in [Sessions -> BOOLEAN]
    /\ slots \subseteq Sessions
    /\ list \subseteq Sessions
    /\ running \in Int
    /\ platform \in {"started", "stopped"}
    /\ refs \subseteq Sessions \cup {"recording"}
    /\ control \in {"off", "pass", "check", "serve", "bye", "done"}
    /\ awaiting \in BOOLEAN
    /\ at \in [Threads -> {"idle", "reap", "lock", "scan", "dropping", "off"}
                            \cup Starting \cup Clearing]
    /\ on \in [Threads -> Sessions \cup {"none"}]
    /\ todo \in [Threads -> SUBSET Sessions]
    /\ op \in [Threads -> Ops]
    /\ app \in BOOLEAN
    /\ down \in BOOLEAN

Init ==
    /\ state = [s \in Sessions |-> "none"]
    /\ reason = [s \in Sessions |-> FALSE]
    /\ deadline = [s \in Sessions |-> FALSE]
    /\ workers = [s \in Sessions |-> 0]
    /\ spawned = [s \in Sessions |-> FALSE]
    /\ peer = [s \in Sessions |-> FALSE]
    /\ controlEnd = [s \in Sessions |-> FALSE]
    /\ gone = [s \in Sessions |-> FALSE]
    /\ slots = {}
    /\ list = {}
    /\ running = 0
    /\ platform = "stopped"
    /\ refs = {}
    /\ control = "off"
    /\ awaiting = FALSE
    /\ at = [t \in Threads |-> "idle"]
    /\ on = [t \in Threads |-> "none"]
    /\ todo = [t \in Threads |-> {}]
    /\ op = [t \in Threads |-> "none"]
    /\ app \in {TRUE, "app" \notin Exits}
    /\ down = FALSE

-----------------------------------------------------------------------------
Goto(t, from, to) == at[t] = from /\ at' = [at EXCEPT ![t] = to]

(* The two locks: _session_slots, and the one of the broadcast context,    *)
(* which end_broadcast holds while it joins the control thread.            *)
SlotsFree   == \A t \in Threads : at[t] \notin Clearing
ContextFree == \A t \in Threads : at[t] \notin {"ending", "dropping"}

(* session::stop, for every session of S.  No session is ever STARTING, so *)
(* nothing waits; only a RUNNING session is stopped, and the first reason  *)
(* is kept even when it stopped nothing.                                   *)
StopAnyState(S) ==  \* mutant: a plain store instead of the exchange
    /\ reason' = [s \in Sessions |-> reason[s] \/ s \in S]
    /\ state' = [s \in Sessions |-> IF s \in S THEN "STOPPING" ELSE state[s]]

Stop(S) ==
    /\ reason' = [s \in Sessions |-> reason[s] \/ s \in S]
    /\ state' = [s \in Sessions |->
                    IF s \in S /\ state[s] = "RUNNING" THEN "STOPPING" ELSE state[s]]

(* The session object is destroyed, and what it held with it. *)
Free(s) ==
    /\ state' = [state EXCEPT ![s] = "freed"]
    /\ reason' = [reason EXCEPT ![s] = FALSE]
    /\ deadline' = [deadline EXCEPT ![s] = FALSE]
    /\ spawned' = [spawned EXCEPT ![s] = FALSE]
    /\ peer' = [peer EXCEPT ![s] = FALSE]
    /\ controlEnd' = [controlEnd EXCEPT ![s] = FALSE]
    /\ gone' = [gone EXCEPT ![s] = FALSE]

(* shared_t::release: the last reference ends the broadcast, in the thread *)
(* that drops it; others go on to `next`.                                  *)
ReleaseEnds(t, from, who, next) ==  \* mutant: the count is not looked at
    /\ ContextFree
    /\ refs' = refs \ {who}
    /\ Goto(t, from, IF refs = {} THEN next
                     ELSE IF next = "visit" THEN "ending" ELSE "dropping")

Release(t, from, who, next) ==
    /\ ContextFree
    /\ refs' = refs \ {who}
    /\ Goto(t, from, IF refs = {} \/ refs' # {} THEN next
                     ELSE IF next = "visit" THEN "ending" ELSE "dropping")

-----------------------------------------------------------------------------
(* cmd_announce and session::start, on the RTSP thread. *)
Announce(s) ==
    /\ state[s] = "none"
    /\ ~down
    /\ SlotsFree
    /\ Goto("rtsp", "idle", "ref")
    /\ on' = [on EXCEPT !["rtsp"] = s]
    /\ state' = [state EXCEPT ![s] = "STOPPED"]
    /\ slots' = slots \cup {s}
    /\ UNCHANGED <<reason, serving, context, counted, todo, op, world>>

(* broadcast.ref(): the first reference binds the sockets and starts the   *)
(* threads, or fails.                                                      *)
StartRef ==
    /\ ContextFree
    /\ \/ /\ Goto("rtsp", "ref", "push")
          /\ refs' = refs \cup {on["rtsp"]}
          /\ IF refs = {} THEN control' = "pass" /\ list' = {}
             ELSE UNCHANGED <<control, list>>
       \/ /\ refs = {}
          /\ Goto("rtsp", "ref", "remove")
          /\ UNCHANGED <<refs, control, list>>
    /\ UNCHANGED <<session, serving, slots, awaiting, counted, on, todo, op, world>>

StartRemove ==
    /\ SlotsFree
    /\ Goto("rtsp", "remove", "respond")
    /\ slots' = slots \ {on["rtsp"]}
    /\ UNCHANGED <<session, serving, context, counted, on, todo, op,
                   world>>

StartPush ==
    /\ Goto("rtsp", "push", "deadline")
    /\ list' = list \cup {on["rtsp"]}
    /\ UNCHANGED <<session, serving, slots, refs, control, awaiting, counted,
                   on, todo, op, world>>

StartDeadline ==
    /\ Goto("rtsp", "deadline", "spawn")
    /\ deadline' = [deadline EXCEPT ![on["rtsp"]] = TRUE]
    /\ UNCHANGED <<session, workers, spawned, peer, controlEnd, gone, slots,
                   context, counted, on, todo, op, world>>

StartSpawn ==
    /\ Goto("rtsp", "spawn", "run")
    /\ workers' = [workers EXCEPT ![on["rtsp"]] = 2]
    /\ spawned' = [spawned EXCEPT ![on["rtsp"]] = TRUE]
    /\ UNCHANGED <<session, deadline, peer, controlEnd, gone, slots, context,
                   counted, on, todo, op, world>>

StartRun ==
    /\ Goto("rtsp", "run", "count")
    /\ state' = [state EXCEPT ![on["rtsp"]] = "RUNNING"]
    /\ UNCHANGED <<reason, serving, slots, context, counted,
                   on, todo, op, world>>

StartCount ==
    /\ Goto("rtsp", "count", "respond")
    /\ running' = running + 1
    /\ platform' = IF running' = 1 THEN "started" ELSE platform
    /\ UNCHANGED <<session, serving, slots, context, on, todo, op, world>>

(* The announce drops its own reference: a session that left the slots     *)
(* meanwhile dies here.                                                    *)
StartRespond ==
    LET s == on["rtsp"] IN
    /\ on' = [on EXCEPT !["rtsp"] = "none"]
    /\ IF s \in slots
       THEN Goto("rtsp", "respond", "reap") /\ UNCHANGED <<session, serving, refs>>
       ELSE Release("rtsp", "respond", s, "reap") /\ Free(s) /\ UNCHANGED workers
    /\ UNCHANGED <<slots, control, awaiting, list, counted, todo, op, world>>

-----------------------------------------------------------------------------
(* The clears: one loop over the slots under their lock. *)
BeginClear(t, from, which) ==
    /\ Goto(t, from, "lock")
    /\ op' = [op EXCEPT ![t] = which]
    /\ UNCHANGED <<session, serving, slots, context, counted, on, todo, world>>

(* The RTSP loop, after every handler and every 500 ms: everything goes    *)
(* when the broadcast or the service ends, the stopped sessions otherwise. *)
RtspClear ==
    \E from \in {"idle", "reap"} :
        BeginClear("rtsp", from, IF ContextFree /\ ~down THEN "stopped" ELSE "all")

(* terminate_sessions, terminate_sessions_by_cert, session_count, and the  *)
(* server.stop() of the main thread once shutdown is raised.               *)
HttpClear ==
    \/ \E which \in Clears \cap {"all", "cert", "stopped"} : BeginClear("http", "idle", which)
    \/ down /\ BeginClear("http", "idle", "stop")

(* Every session has a certificate of its own. *)
ClearLock(t) ==
    /\ SlotsFree
    /\ Goto(t, "lock", "visit")
    /\ IF op[t] = "cert"
       THEN \E s \in Sessions : todo' = [todo EXCEPT ![t] = slots \cap {s}]
       ELSE todo' = [todo EXCEPT ![t] = slots]
    /\ UNCHANGED <<session, serving, slots, context, counted, on, op, world>>

Ends(t, s) == op[t] \in {"all", "cert", "stop"} \/ state[s] = "STOPPING"

(* Joining a thread that was never started throws: the clear is abandoned. *)
ClearVisit(t) ==
    /\ at[t] = "visit"
    /\ \E s \in todo[t] :
          \/ /\ ~Ends(t, s)
             /\ todo' = [todo EXCEPT ![t] = @ \ {s}]
             /\ UNCHANGED <<session, at, on, op>>
          \/ /\ Ends(t, s) /\ spawned[s]
             /\ Stop({s})
             /\ Goto(t, "visit", "join")
             /\ on' = [on EXCEPT ![t] = s]
             /\ todo' = [todo EXCEPT ![t] = @ \ {s}]
             /\ UNCHANGED op
          \/ /\ Ends(t, s) /\ ~spawned[s]
             /\ Stop({s})
             /\ Goto(t, "visit", "idle")
             /\ todo' = [todo EXCEPT ![t] = {}]
             /\ op' = [op EXCEPT ![t] = "none"]
             /\ UNCHANGED on
    /\ UNCHANGED <<serving, slots, context, counted, world>>

JoinWaitWorkers(t) ==  \* mutant: the control thread is not waited for
    /\ Goto(t, "join", "leave")
    /\ workers[on[t]] = 0
    /\ UNCHANGED <<session, serving, slots, context, counted, on, todo, op, world>>

(* session::join *)
JoinWait(t) ==
    /\ Goto(t, "join", "leave")
    /\ workers[on[t]] = 0
    /\ controlEnd[on[t]]
    /\ UNCHANGED <<session, serving, slots, context, counted, on, todo, op, world>>

JoinLeave(t) ==
    /\ Goto(t, "leave", IF running = 1 THEN "report" ELSE "erase")
    /\ running' = running - 1
    /\ UNCHANGED <<session, serving, slots, context, platform, on, todo, op, world>>

JoinReport(t) ==
    /\ Goto(t, "report", "erase")
    /\ platform' = "stopped"
    /\ UNCHANGED <<session, serving, slots, context, running, on, todo, op, world>>

(* The slot goes, and the session with it unless its announce still runs.  *)
ClearErase(t) ==
    LET s == on[t] IN
    /\ slots' = slots \ {s}
    /\ on' = [on EXCEPT ![t] = "none"]
    /\ IF t # "rtsp" /\ on["rtsp"] = s
       THEN Goto(t, "erase", "visit") /\ UNCHANGED <<session, serving, refs>>
       ELSE Release(t, "erase", s, "visit") /\ Free(s) /\ UNCHANGED workers
    /\ UNCHANGED <<control, awaiting, list, counted, todo, op, world>>

(* /cancel goes on to terminate the application, the certificate's caller  *)
(* does so when it counts no session any more; the RTSP thread leaves its  *)
(* loop on shutdown.                                                       *)
ClearEnd(t) ==
    /\ todo[t] = {}
    /\ Goto(t, "visit", IF t = "rtsp" /\ op[t] = "all" /\ down THEN "off"
                        ELSE IF op[t] = "cert" THEN "lock" ELSE "idle")
    /\ op' = [op EXCEPT ![t] = IF @ = "cert" THEN "count" ELSE "none"]
    /\ app' = (app /\ ~(t = "http" /\ (\/ op[t] = "all"
                                       \/ op[t] = "count" /\ slots = {})))
    /\ UNCHANGED <<session, serving, slots, context, counted, on, todo, down>>

(* end_broadcast, once the control thread is joined. *)
EndBroadcast(t) ==
    /\ control = "done"
    /\ Goto(t, "ending", "visit")
       \/ Goto(t, "dropping", IF t = "rtsp" THEN "reap" ELSE "idle")
    /\ control' = "off"
    /\ list' = {}
    /\ UNCHANGED <<session, serving, slots, refs, awaiting, counted, on, todo, op, world>>

-----------------------------------------------------------------------------
(* The control thread: a pass over the sessions under the list's lock, a   *)
(* look at the application, one ENet event.                                *)
ControlPassSilent ==  \* mutant: controlEnd is not raised
    /\ control = "pass"
    /\ ~down /\ ContextFree
    /\ control' = "check"
    /\ Stop({s \in list : gone[s] \/ ~deadline[s]})
    /\ list' = {s \in list : state'[s] # "STOPPING"}
    /\ awaiting' = \E s \in list' : ~peer[s]
    /\ UNCHANGED <<serving, slots, refs, counted, thread, world>>

ControlPassPatient ==  \* mutant: the deadline is looked at only before a peer
    /\ control = "pass"
    /\ ~down /\ ContextFree
    /\ control' = "check"
    /\ Stop({s \in list : ~peer[s] /\ (gone[s] \/ ~deadline[s])})
    /\ list' = {s \in list : state'[s] # "STOPPING"}
    /\ controlEnd' = [s \in Sessions |-> controlEnd[s] \/ s \in list \ list']
    /\ awaiting' = \E s \in list' : ~peer[s]
    /\ UNCHANGED <<deadline, workers, spawned, peer, gone, slots, refs, counted,
                   thread, world>>

ControlPass ==
    /\ control = "pass"
    /\ ~down /\ ContextFree
    /\ control' = "check"
    /\ Stop({s \in list : gone[s] \/ ~deadline[s]})
    /\ list' = {s \in list : state'[s] # "STOPPING"}
    /\ controlEnd' = [s \in Sessions |-> controlEnd[s] \/ s \in list \ list']
    /\ awaiting' = \E s \in list' : ~peer[s]
    /\ UNCHANGED <<deadline, workers, spawned, peer, gone, slots, refs, counted,
                   thread, world>>

ControlCheck ==
    /\ control = "check"
    /\ control' = IF app \/ awaiting THEN "serve" ELSE "bye"
    /\ UNCHANGED <<session, serving, slots, refs, awaiting, list, counted,
                   thread, world>>

ControlIdle ==
    /\ control = "serve"
    /\ control' = "pass"
    /\ UNCHANGED <<session, serving, slots, refs, awaiting, list, counted,
                   thread, world>>

ControlConnect(s) ==
    /\ control = "serve" /\ s \in list /\ ~peer[s]
    /\ control' = "pass"
    /\ peer' = [peer EXCEPT ![s] = TRUE]
    /\ gone' = [gone EXCEPT ![s] = FALSE]
    /\ UNCHANGED <<session, deadline, workers, spawned, controlEnd, slots, refs,
                   awaiting, list, counted, thread, world>>

(* A disconnect, or a message that does not verify. *)
ControlDisconnect(s) ==
    /\ control = "serve" /\ s \in list /\ peer[s]
    /\ control' = "pass"
    /\ Stop({s})
    /\ UNCHANGED <<serving, slots, refs, awaiting, list, counted, thread, world>>

(* The end of the thread: the list is left as it is. *)
ControlStop ==
    /\ control = "pass"
    /\ down \/ ~ContextFree
    /\ control' = "bye"
    /\ UNCHANGED <<session, serving, slots, refs, awaiting, list, counted,
                   thread, world>>

ControlBye ==
    /\ control = "bye"
    /\ control' = "done"
    /\ Stop(list)
    /\ controlEnd' = [s \in Sessions |-> controlEnd[s] \/ s \in list]
    /\ UNCHANGED <<deadline, workers, spawned, peer, gone, slots, refs, awaiting,
                   list, counted, thread, world>>

-----------------------------------------------------------------------------
(* videoThread and audioThread end on the shutdown event, without a first  *)
(* ping, or because capture failed; their guard stops the session.         *)
WorkerEnd(s) ==
    /\ workers[s] > 0
    /\ workers' = [workers EXCEPT ![s] = @ - 1]
    /\ Stop({s})
    /\ UNCHANGED <<deadline, spawned, peer, controlEnd, gone, slots, context,
                   counted, thread, world>>

(* request_recording_key_frame: a reference of its own, a scan of the list. *)
RecordRef ==
    /\ "record" \in Clears
    /\ ContextFree
    /\ Goto("record", "idle", "scan")
    /\ refs' = refs \cup {"recording"}
    /\ IF refs = {} THEN control' = "pass" /\ list' = {}
       ELSE UNCHANGED <<control, list>>
    /\ UNCHANGED <<session, serving, slots, awaiting, counted, on, todo, op, world>>

RecordRelease ==
    /\ Release("record", "scan", "recording", "idle")
    /\ UNCHANGED <<session, serving, slots, control, awaiting, list, counted, on,
                   todo, op, world>>

(* The world: a client's ping deadline passes, the application exits and   *)
(* is launched, the service is stopped.                                    *)
ClientGone(s) ==
    /\ deadline[s] /\ ~gone[s] /\ s \in list
    /\ gone' = [gone EXCEPT ![s] = TRUE]
    /\ UNCHANGED <<session, deadline, workers, spawned, peer, controlEnd, slots,
                   context, counted, thread, world>>

AppChange ==
    /\ \/ "app" \in Exits /\ app /\ app' = FALSE
       \/ ~app /\ app' = TRUE
    /\ UNCHANGED <<session, serving, slots, context, counted, thread, down>>

ServiceStop ==
    /\ "service" \in Exits /\ ~down
    /\ down' = TRUE
    /\ UNCHANGED <<session, serving, slots, context, counted, thread, app>>

-----------------------------------------------------------------------------
Start ==
    \/ StartRef \/ StartRemove \/ StartPush \/ StartDeadline \/ StartSpawn
    \/ StartRun \/ StartCount \/ StartRespond

Clear(t) ==
    \/ ClearVisit(t) \/ JoinWait(t) \/ JoinLeave(t)
    \/ JoinReport(t) \/ ClearErase(t) \/ ClearEnd(t) \/ EndBroadcast(t)

Control ==
    \/ ControlPass \/ ControlCheck \/ ControlIdle \/ ControlStop \/ ControlBye
    \/ \E s \in Sessions : ControlConnect(s) \/ ControlDisconnect(s)

Next ==
    \/ \E s \in Sessions : Announce(s) \/ WorkerEnd(s) \/ ClientGone(s)
    \/ Start \/ RtspClear \/ HttpClear \/ RecordRef \/ RecordRelease
    \/ \E t \in Threads : ClearLock(t) \/ Clear(t)
    \/ Control
    \/ AppChange \/ ServiceStop

Spec == Init /\ [][Next]_vars

(* Threads that can go on do; the slots lock is fair; a worker whose       *)
(* shutdown event is raised ends.  Clients, applications and requests are  *)
(* free.                                                                   *)
Fairness ==
    /\ WF_vars(RtspClear \/ Start \/ Clear("rtsp"))
    /\ WF_vars(Clear("http"))
    /\ \A t \in Threads : SF_vars(ClearLock(t))
    /\ WF_vars(Control)
    /\ \A s \in Sessions : WF_vars(state[s] = "STOPPING" /\ WorkerEnd(s))

FairSpec == Spec /\ Fairness

(* For TLC: sessions are interchangeable. *)
Symmetry == Permutations(Sessions)

-----------------------------------------------------------------------------
(* A session is destroyed only when nothing uses it any more: its workers  *)
(* have ended, and a control thread that still runs does not list it.      *)
FreedIsUnused ==
    \A s \in Sessions : state[s] = "freed" =>
        /\ workers[s] = 0
        /\ s \notin refs
        /\ control \in {"pass", "check", "serve", "bye"} => s \notin list

(* A session that was stopped stays stopped: start()'s plain store of      *)
(* RUNNING never revives one that another thread stopped.                  *)
StopIsFinal ==
    [][\A s \in Sessions : state[s] = "STOPPING" =>
          state'[s] \in {"STOPPING", "freed"}]_vars

(* The broadcast context, with its sockets and threads, is there for every *)
(* session whose workers run.                                              *)
ContextServesWorkers ==
    \A s \in Sessions : workers[s] > 0 =>
        s \in refs /\ control # "off" /\ ContextFree

(* A join ends: no thread waits for ever, with the slots locked, for a     *)
(* worker or for the control thread.  (join()'s comment expects its        *)
(* watchdog to fire for an encoder driver bug only.)                       *)
JoinEnds ==
    \A t \in Threads :
        at[t] = "join" ~> at[t] # "join"

(* A client that went silent does not keep its session: the control thread *)
(* stops it and the RTSP thread joins and destroys it.                     *)
SilentClientFreed ==
    \A s \in Sessions :
        gone[s] /\ state[s] = "RUNNING" ~> state[s] = "freed" \/ ~gone[s]

-----------------------------------------------------------------------------
(* What the repository says and this model contradicts (README,            *)
(* "Findings" and "Observations").                                         *)

(* "If this is the first session ... if this is the last session, invoke   *)
(* the platform callbacks": with no callback in progress the platform is   *)
(* prepared for streaming exactly while sessions are counted.              *)
CallbacksMatch ==
    (\A t \in Threads : at[t] # "report") =>
        (running > 0 <=> platform = "started")

(* "The server received no control traffic before its ping deadline": the  *)
(* pass of the control thread gives a session its reason,                  *)
(* control_ping_timeout, only when the client has been silent that long.   *)
PingTimeoutIsReal ==
    [][control = "pass" /\ control' = "check" =>
          \A s \in Sessions : reason'[s] # reason[s] => gone[s]]_vars

(* "All active sessions": what the recording API finds in the list of the  *)
(* context it holds is alive.                                              *)
ListedIsAlive ==
    at["record"] = "scan" => \A s \in list : state[s] # "freed"
=============================================================================
