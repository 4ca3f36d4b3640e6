--------------------------- MODULE VirtualSession ---------------------------
(***************************************************************************)
(* The virtual-session manager of one SteamShine process and the threads   *)
(* that drive it: the HTTPS thread (/launch, /resume, /cancel), whichever  *)
(* thread joins a stream session, the capture thread, and the world        *)
(* outside (applications and compositors that exit, the stock session).    *)
(*                                                                         *)
(*   src/src/steamos_virtual_session.cpp   prepare, stop, mark_*, recover  *)
(*   src/src/nvhttp.cpp                    launch, resume, cancel          *)
(*   src/src/stream.cpp                    join                            *)
(*                                                                         *)
(* manager.mutex makes each manager operation one step.  The manager and   *)
(* the compositor it forked are one record; prepare() is a set of outcomes *)
(* of that record, one for each thing that can go wrong on its way.  The   *)
(* reported stock_handoff_state is left out: no decision reads it.         *)
(***************************************************************************)
EXTENDS Naturals, SessionRoute

CONSTANTS
    Configs,     \* the configurations the process may have been started with
    Keys,        \* what a retained session must match: geometry, refresh,
                 \* HDR, GPU and the presentation the host offers
    NoKey,
    MaxStreams   \* bound: stream sessions at a time

ASSUME ConfigsAssumption ==
    Configs \subseteq [enabled : BOOLEAN, mode : Modes, policy : Policies,
                       presentation : Presentations, keepAlive : BOOLEAN]
ASSUME KeysAssumption == NoKey \notin Keys
ASSUME StreamsAssumption == MaxStreams \in Nat

VARIABLES
    config,    \* config::steamos_virtual_display, read at startup
    m,         \* the manager and its child compositor
    stock,     \* the stock Game Mode compositor runs
    http,      \* where the HTTPS thread is
    request,   \* the launch it serves
    app,       \* proc::proc.running() > 0
    pending,   \* a launch waits for its RTSP handshake
    streams,   \* running_sessions
    lost,      \* the running streams' capture failed: they are ending
    teardown   \* the thread in mark_streaming_disconnected is about to stop()

vars == <<config, m, stock, http, request, app, pending, streams, lost,
          teardown>>

States  == {"Disabled", "Idle", "WaitingForCapture", "Ready", "Streaming",
            "Failed"}
Origins == {"none", "owned_private", "attached_existing"}

Managers ==
    [current   : States,            \* between two operations
     origin    : Origins,           \* process_owned iff "owned_private"
     pg        : BOOLEAN,           \* process_group > 0
     alive     : BOOLEAN,           \* the forked compositor runs
     bound     : BOOLEAN,           \* the attached stock process runs
     key       : Keys \cup {NoKey},
     lease     : BOOLEAN,           \* stock_handoff_lease_active
     preflight : BOOLEAN,           \* startup_encoder_preflight
     requested : BOOLEAN,           \* stream_requested
     tracking  : BOOLEAN]           \* packet_tracking

(* appid 0 asks for no application, and one may be asked for that is not in *)
(* the list; every listed application prefers an owned session.             *)
Requests == [key : Keys, valid : BOOLEAN, appid : {"none", "listed", "unlisted"}]
Asks     == [key : Keys, valid : BOOLEAN, prefer : BOOLEAN, force : BOOLEAN]
Ask(q)   == [key |-> q.key, valid |-> q.valid, prefer |-> q.appid = "listed",
             force |-> FALSE]
Fallback(q) == [Ask(q) EXCEPT !.prefer = FALSE, !.force = TRUE]
Hosts    == [connected : BOOLEAN, scanout : BOOLEAN, kwin : BOOLEAN,
             hdrOk : BOOLEAN]
HttpLocations == {"boot", "idle", "prepared", "execute", "fallback",
                  "reprobe", "reexecute", "raise", "mark", "drain", "cancel",
                  "off"}

TypeOK ==
    /\ config \in Configs
    /\ m \in Managers
    /\ stock \in BOOLEAN
    /\ http \in HttpLocations
    /\ request \in Requests
    /\ app \in BOOLEAN
    /\ pending \in BOOLEAN
    /\ streams \in 0..MaxStreams
    /\ lost \in BOOLEAN
    /\ teardown \in BOOLEAN

-----------------------------------------------------------------------------
Rest == IF config.enabled THEN "Idle" ELSE "Disabled"
Owned(s) == s.origin = "owned_private"

(* restore_stock_session_locked, as far as the manager is concerned. *)
Restored(s) == [s EXCEPT !.lease = FALSE]

(* Mutant: the process group is forgotten before it is stopped. *)
RecoveredForgets(s, restore) ==
    [s EXCEPT !.bound     = FALSE,
              !.pg        = FALSE,
              !.origin    = "none",
              !.key       = NoKey,
              !.preflight = FALSE,
              !.requested = FALSE,
              !.lease     = @ /\ ~restore,
              !.current   = Rest]

(* recover_failed_session_locked *)
Recovered(s, restore) ==
    [s EXCEPT !.alive     = @ /\ ~(Owned(s) /\ s.pg),
              !.bound     = FALSE,
              !.pg        = FALSE,
              !.origin    = "none",
              !.key       = NoKey,
              !.preflight = FALSE,
              !.requested = FALSE,
              !.lease     = @ /\ ~restore,
              !.current   = Rest]

(* stop() *)
Stopped(s) ==
    Recovered([s EXCEPT !.tracking = @ /\ ~(Owned(s) /\ s.pg)], TRUE)

(* An error return of prepare() under its armed failure guard. *)
Refused(s) == Restored([s EXCEPT !.current = "Failed"])

Result(ok, s, stockLeft) == [ok |-> ok, m |-> s, stock |-> stockLeft]

(* retained_process_candidate and retained_session_compatible *)
RetainedBy(s, q) ==
    Owned(s) /\ s.pg /\ s.alive /\ s.current = "Ready" /\ s.key = q.key

(* The new compositor comes up, fails after its bookkeeping was written, or *)
(* one of the checks before that refuses.                                   *)
StartOwned(s, st, q) ==
    LET fresh == [s EXCEPT !.origin = "owned_private", !.key = q.key,
                           !.tracking = FALSE]
    IN  {Result(TRUE, [fresh EXCEPT !.pg = TRUE, !.alive = TRUE,
                                    !.current = "WaitingForCapture"], st),
         Result(FALSE, Refused(fresh), st),
         Result(FALSE, Refused(s), st)}

(* Attaching forks nothing; its return leaves the failure guard armed. *)
AttachExisting(s, st, q) ==
    {Result(TRUE, Restored([s EXCEPT !.origin = "attached_existing",
                                     !.key = q.key, !.pg = TRUE,
                                     !.bound = TRUE,
                                     !.tracking = FALSE,
                                     !.current = "WaitingForCapture"]), st),
     Result(FALSE, Refused(s), st)}

Backend(e) ==
    SelectOwnedBackend(config.presentation, e.kwin, e.connected, e.hdrOk)

(* prepare() after the handoff: reuse, release the previous source, refuse *)
(* when a session is in use, or bring a source up.                         *)
Resume(s, st, route, q, e, client, handedOff) ==
    LET free == IF \/ s.current = "Ready" /\ s.origin # "none"
                   \/ s.current = "Failed"
                THEN Recovered(s, ~client) ELSE s
    IN  IF \/ route = "reject"
           \/ route # "attached_existing" /\ Backend(e) = "none"
        THEN {Result(FALSE, Refused(s), st)}
        ELSE IF route = "retained_owned_private"
        THEN {Result(TRUE, [s EXCEPT !.tracking = FALSE], st)}
        ELSE IF free.current \notin {"Idle", "Disabled"}
        THEN {Result(FALSE, Restored(free), st)}
        ELSE IF route = "attached_existing" /\ ~handedOff
        THEN AttachExisting(free, st, q)
        ELSE StartOwned(free, st, q)

(* Take the lease unless it is held, stop the stock session; either may    *)
(* fail, and a stop that fails may have stopped it all the same.           *)
HandOff(s, st, q, e) ==
    LET own  == IF s.origin = "attached_existing" THEN Recovered(s, TRUE) ELSE s
        held == [own EXCEPT !.lease = TRUE]
        route == IF RetainedBy(s, q) THEN "retained_owned_private"
                 ELSE "new_owned_private"
    IN  (IF own.lease THEN {} ELSE {Result(FALSE, Refused(own), st)})
        \cup {Result(FALSE, Refused(held), left) : left \in {st, FALSE}}
        \cup Resume(held, FALSE, route, q, e, TRUE, TRUE)

RouteInput(s, st, q, e) ==
    [feature    |-> config.enabled \/ q.prefer,
     mode       |-> IF q.force \/ q.prefer THEN "force" ELSE config.mode,
     policy     |-> IF q.force \/ q.prefer THEN "owned_private"
                    ELSE config.policy,
     prefer     |-> q.prefer,
     desktop    |-> FALSE,
     preflight  |-> s.preflight /\ Owned(s),
     capturable |-> PhysicalDesktopCapturable(e.connected, e.scanout),
     kwin       |-> e.kwin,
     retained   |-> RetainedBy(s, q),
     supported  |-> TRUE,
     existing   |-> st /\ config.policy # "owned_private"]

Prepare(s0, st, q, e) ==
    LET s == [s0 EXCEPT !.preflight = @ /\ ~q.prefer]
        route == SelectSessionRoute(RouteInput(s, st, q, e))
    IN  IF ~q.valid
        THEN {Result(FALSE, [s EXCEPT !.key = q.key, !.current = "Failed"], st)}
        ELSE IF route = "physical_desktop"
        THEN {Result(TRUE, [(IF s.origin # "none" THEN Recovered(s, TRUE)
                             ELSE s) EXCEPT !.key = q.key,
                                            !.current = "Disabled"], st)}
        ELSE IF HandoffOwned(q.prefer, s.preflight)
        THEN HandOff(s, st, q, e)
        ELSE Resume(s, st, route, q, e, FALSE, s.lease)

(* What a request may come to, whatever the host looks like. *)
Outcomes(q) == UNION {Prepare(m, stock, q, e) : e \in Hosts}

-----------------------------------------------------------------------------
Init ==
    /\ config \in Configs
    /\ m = [current |-> "Disabled", origin |-> "none", pg |-> FALSE,
            alive |-> FALSE, bound |-> FALSE, key |-> NoKey, lease |-> FALSE,
            preflight |-> FALSE, requested |-> FALSE, tracking |-> FALSE]
    /\ stock \in BOOLEAN
    /\ http = "boot"
    /\ request \in {q \in Requests : q.valid /\ q.appid = "none"}
    /\ app = FALSE
    /\ pending = FALSE
    /\ streams = 0
    /\ lost = FALSE
    /\ teardown = FALSE

HttpTo(from, to) == http = from /\ http' = to

(* prepare_encoder_probe: the startup preflight of main(), kept for the    *)
(* first launch when it made an owned session; forced when the physical    *)
(* capture platform did not come up.                                       *)
Preflight ==
    /\ HttpTo("boot", "idle")
    /\ IF config.enabled /\ config.mode # "off"
       THEN \E force \in BOOLEAN :
            \E r \in Outcomes([Ask(request) EXCEPT !.force = force]) :
               /\ m' = IF r.ok THEN [r.m EXCEPT !.preflight = Owned(r.m)]
                       ELSE r.m
               /\ stock' = r.stock
       ELSE UNCHANGED <<m, stock>>
    /\ UNCHANGED <<config, request, app, pending, streams, lost, teardown>>

(* launch: refused while an application runs; a failed prepare() ends it. *)
Launch(q) ==
    /\ http = "idle" /\ ~app
    /\ \E r \in Outcomes(Ask(q)) :
          /\ m' = r.m
          /\ stock' = r.stock
          /\ request' = IF r.ok THEN q ELSE request
          /\ http' = IF r.ok THEN "prepared" ELSE "idle"
    /\ UNCHANGED <<config, app, pending, streams, lost, teardown>>

(* session_count() waits for a teardown in progress; with no other stream  *)
(* the encoders are probed.  A failed probe, or a client that cannot       *)
(* encrypt where it must, stops the session.                               *)
LaunchProbe ==
    /\ \/ ~teardown /\ HttpTo("prepared", "execute") /\ UNCHANGED m
       \/ HttpTo("reprobe", "reexecute") /\ UNCHANGED m
       \/ ~teardown /\ HttpTo("prepared", "idle") /\ m' = Stopped(m)
       \/ HttpTo("reprobe", "idle") /\ m' = Stopped(m)
    /\ UNCHANGED <<config, stock, request, app, pending, streams, lost,
                   teardown>>

(* should_retry_owned_virtual_display: a preparation command refused the   *)
(* physical mode and no session is there to be used instead.               *)
RetriesOwned ==
    config.enabled /\ config.mode = "auto" /\ m.origin = "none"

(* proc.execute: it runs, it fails, or it asks for the owned fallback,     *)
(* which is tried once.                                                    *)
LaunchExecute ==
    /\ \E from \in {"execute", "reexecute"} :
          \/ /\ request.appid = "none"
             /\ HttpTo(from, "raise")
             /\ UNCHANGED <<m, app>>
          \/ /\ request.appid = "listed"
             /\ HttpTo(from, "raise")
             /\ app' = TRUE
             /\ UNCHANGED m
          \/ /\ request.appid # "none"
             /\ HttpTo(from, "idle")
             /\ m' = Stopped(m)
             /\ UNCHANGED app
          \/ /\ request.appid = "listed" /\ from = "execute" /\ RetriesOwned
             /\ HttpTo(from, "fallback")
             /\ UNCHANGED <<m, app>>
    /\ UNCHANGED <<config, stock, request, pending, streams, lost, teardown>>

LaunchFallback ==
    /\ http = "fallback"
    /\ \E r \in Outcomes(Fallback(request)) :
          /\ m' = IF r.ok THEN r.m ELSE Stopped(r.m)
          /\ stock' = r.stock
          /\ http' = IF r.ok THEN "reprobe" ELSE "idle"
    /\ UNCHANGED <<config, request, app, pending, streams, lost, teardown>>

(* launch_session_raise keeps a launch that is still pending. *)
LaunchRaise ==
    /\ HttpTo("raise", "mark")
    /\ pending' = TRUE
    /\ UNCHANGED <<config, m, stock, request, app, streams, lost, teardown>>

(* mark_streaming *)
MarkStreaming ==
    /\ HttpTo("mark", "idle")
    /\ m' = [m EXCEPT !.preflight = FALSE, !.requested = TRUE,
                      !.tracking = TRUE,
                      !.current = IF @ = "Ready" THEN "Streaming" ELSE @]
    /\ UNCHANGED <<config, stock, request, app, pending, streams, lost,
                   teardown>>

(* resume: only with an application running; a failed probe changes        *)
(* nothing.                                                                *)
ResumeRequest ==
    /\ HttpTo("idle", "raise")
    /\ app
    /\ ~teardown
    /\ UNCHANGED <<config, m, stock, request, app, pending, streams, lost,
                   teardown>>

(* cancel: terminate_sessions joins every stream, then the application is   *)
(* terminated and the manager stopped.                                      *)
Cancel ==
    /\ HttpTo("idle", "drain")
    /\ UNCHANGED <<config, m, stock, request, app, pending, streams, lost,
                   teardown>>

CancelTerminate ==
    /\ HttpTo("drain", "cancel")
    /\ streams = 0
    /\ ~teardown
    /\ app' = FALSE
    /\ UNCHANGED <<config, m, stock, request, pending, streams, lost,
                   teardown>>

(* Mutant: the session is left to the stream teardown. *)
CancelLeaves ==
    /\ HttpTo("cancel", "idle")
    /\ UNCHANGED <<config, m, stock, request, app, pending, streams, lost,
                   teardown>>

CancelStop ==
    /\ HttpTo("cancel", "idle")
    /\ m' = Stopped(m)
    /\ UNCHANGED <<config, stock, request, app, pending, streams, lost,
                   teardown>>

(* Service stop: the server threads are joined, then the destructor of      *)
(* proc::init() terminates the application and stops the manager.           *)
Shutdown ==
    /\ HttpTo("idle", "off")
    /\ streams = 0
    /\ ~teardown
    /\ app' = FALSE
    /\ pending' = FALSE
    /\ m' = Stopped(m)
    /\ UNCHANGED <<config, stock, request, streams, lost, teardown>>

-----------------------------------------------------------------------------
(* A stream starts from the pending launch (or the launch times out), and  *)
(* is joined; the last one to go reports the disconnect.                   *)
StreamStart ==
    /\ pending
    /\ streams < MaxStreams
    /\ pending' = FALSE
    /\ streams' = streams + 1
    /\ UNCHANGED <<config, m, stock, http, request, app, lost, teardown>>

LaunchTimeout ==
    /\ pending
    /\ pending' = FALSE
    /\ UNCHANGED <<config, m, stock, http, request, app, streams, lost,
                   teardown>>

(* Mutant: only a dead compositor counts as failed. *)
StopsOnExitOnly(s) == Owned(s) /\ (~config.keepAlive \/ (s.pg /\ ~s.alive))

(* mark_streaming_disconnected decides under the mutex ... *)
StopsOnDisconnect(s) ==
    Owned(s) /\ (\/ ~config.keepAlive
                 \/ s.current = "Failed"
                 \/ s.pg /\ ~s.alive)

StreamJoin ==
    /\ streams > 0
    /\ ~teardown
    /\ streams' = streams - 1
    /\ lost' = (lost /\ streams' > 0)
    /\ IF streams' > 0 THEN UNCHANGED <<m, teardown>>
       ELSE /\ teardown' = StopsOnDisconnect(m)
            /\ m' = [m EXCEPT !.requested = FALSE, !.tracking = FALSE,
                        !.current = IF @ = "Streaming" /\ ~teardown'
                                    THEN "Ready" ELSE @]
    /\ UNCHANGED <<config, stock, http, request, app, pending>>

(* ... and stops after it let go of the mutex. *)
TeardownStop ==
    /\ teardown
    /\ teardown' = FALSE
    /\ m' = Stopped(m)
    /\ UNCHANGED <<config, stock, http, request, app, pending, streams, lost>>

-----------------------------------------------------------------------------
(* Mutant: a late report of a capture makes any state usable. *)
CaptureReadyLate ==
    /\ m' = [m EXCEPT !.current = IF m.requested THEN "Streaming" ELSE "Ready"]
    /\ UNCHANGED <<config, stock, http, request, app, pending, streams, lost,
                   teardown>>

(* The capture thread, of an encoder probe or of a stream. *)
CaptureReady ==
    /\ m.current = "WaitingForCapture"
    /\ m' = [m EXCEPT !.current = IF m.requested THEN "Streaming" ELSE "Ready"]
    /\ UNCHANGED <<config, stock, http, request, app, pending, streams, lost,
                   teardown>>

CaptureReinitializing ==
    /\ m.current \in {"Ready", "Streaming"}
    /\ m.pg
    /\ m.alive \/ m.bound
    /\ m' = [m EXCEPT !.tracking = FALSE, !.current = "WaitingForCapture"]
    /\ UNCHANGED <<config, stock, http, request, app, pending, streams, lost,
                   teardown>>

CaptureLost ==
    /\ m.current \in {"WaitingForCapture", "Ready", "Streaming"}
    /\ m.pg
    /\ m' = [m EXCEPT !.tracking = FALSE, !.current = "Failed"]
    /\ lost' = (streams > 0)
    /\ UNCHANGED <<config, stock, http, request, app, pending, streams,
                   teardown>>

(* Outside: the owned compositor dies, the application exits, the stock    *)
(* session ends, or starts when no lease holds its launcher.               *)
CompositorExit ==
    /\ m.alive
    /\ m' = [m EXCEPT !.alive = FALSE]
    /\ UNCHANGED <<config, stock, http, request, app, pending, streams, lost,
                   teardown>>

AppExit ==
    /\ app
    /\ app' = FALSE
    /\ UNCHANGED <<config, m, stock, http, request, pending, streams, lost,
                   teardown>>

StockStart ==
    /\ ~stock
    /\ ~m.lease
    /\ stock' = TRUE
    /\ UNCHANGED <<config, m, http, request, app, pending, streams, lost,
                   teardown>>

StockExit ==
    /\ stock
    /\ stock' = FALSE
    /\ m' = [m EXCEPT !.bound = FALSE]
    /\ UNCHANGED <<config, http, request, app, pending, streams, lost,
                   teardown>>

Http ==
    \/ Preflight \/ LaunchProbe \/ LaunchExecute \/ LaunchFallback
    \/ LaunchRaise \/ MarkStreaming \/ ResumeRequest \/ Cancel
    \/ CancelTerminate \/ CancelStop \/ Shutdown
    \/ \E q \in Requests : Launch(q)

Streams == StreamStart \/ LaunchTimeout \/ StreamJoin \/ TeardownStop
Capture == CaptureReady \/ CaptureReinitializing \/ CaptureLost
Outside == CompositorExit \/ AppExit \/ StockStart \/ StockExit

Next == Http \/ Streams \/ Capture \/ Outside

Spec == Init /\ [][Next]_vars

(* A begun HTTP request runs on, a stream whose source failed or that a     *)
(* /cancel terminates is joined, and a decided stop is carried out.  New    *)
(* requests, exits and capture events are not fair.                         *)
HttpOngoing ==
    /\ http \notin {"idle", "off"}
    /\ \/ Preflight \/ LaunchProbe \/ LaunchExecute \/ LaunchFallback
       \/ LaunchRaise \/ MarkStreaming \/ CancelTerminate \/ CancelStop
EndingStreamJoin == StreamJoin /\ (http = "drain" \/ lost)

Fairness ==
    /\ WF_vars(HttpOngoing)
    /\ WF_vars(EndingStreamJoin)
    /\ WF_vars(TeardownStop)

FairSpec == Spec /\ Fairness

-----------------------------------------------------------------------------
(* The manager never loses the compositor it forked: while it runs, the    *)
(* manager's origin and process group still name it, so stop() kills it.   *)
(* Nor does prepare(), stop() or the failure guard leave a held lease      *)
(* behind without such a process group, or with the stock compositor       *)
(* beside it.                                                              *)
NoOrphanCompositor ==
    /\ m.alive => Owned(m) /\ m.pg
    /\ m.lease => Owned(m) /\ m.pg /\ ~stock

(* A resting manager holds nothing, a usable one holds a source. *)
StateMatchesSource ==
    /\ m.current \in {"Idle", "Disabled"} =>
          ~m.alive /\ ~m.lease /\ m.origin = "none"
    /\ m.current \in {"WaitingForCapture", "Ready", "Streaming"} =>
          m.origin # "none" /\ m.pg

(* A /cancel that has begun ends with the manager at rest: no lease, no    *)
(* compositor, whatever streams, launches and captures did meanwhile.      *)
CancelReleases ==
    http = "drain" ~> m.current = Rest /\ ~m.lease /\ ~m.alive

(* mark_capture_lost leaves the cleanup to the stream teardown: once no new *)
(* streams join it, a failed owned session with a stream on it does not     *)
(* keep its compositor running.                                             *)
CaptureLossCleansUp ==
    <>[]~pending => ((lost /\ m.current = "Failed" /\ m.alive)
                        ~> (~m.alive \/ m.current # "Failed"))

-----------------------------------------------------------------------------
(* What the repository says and this model contradicts (README,            *)
(* "Findings" and "Observations").                                         *)

(* A disconnect does not stop an owned session that works: what            *)
(* mark_streaming_disconnected is about to stop is still the session it    *)
(* judged failed.                                                          *)
StopsOnlyFailedSession ==
    config.keepAlive /\ teardown => m.current = "Failed" \/ ~m.alive

(* The lease is released when the owned session is destroyed, not while it *)
(* runs on.                                                                *)
ReleaseEndsSession == [][m.lease /\ ~m'.lease => ~m'.alive]_vars
-----------------------------------------------------------------------------
(* For TLC: the configurations of the two runs.  Retained sessions that    *)
(* must be mirrored locally (which adds a refusal to every launch); always *)
(* an owned session, ended with its stream; a stock session or none; the   *)
(* feature switched off.                                                   *)
Config(enabled, mode, policy, presentation, keepAlive) ==
    [enabled |-> enabled, mode |-> mode, policy |-> policy,
     presentation |-> presentation, keepAlive |-> keepAlive]

MCConfigs == {Config(TRUE, "auto", "auto", "mirror", TRUE),
              Config(TRUE, "force", "owned_private", "off", FALSE),
              Config(TRUE, "auto", "existing_gamescope", "auto", TRUE),
              Config(FALSE, "auto", "auto", "auto", FALSE)}

(* The default configuration, with sessions retained across a disconnect. *)
MCRetaining == {Config(TRUE, "auto", "auto", "auto", TRUE)}
=============================================================================
