---------------------------- MODULE RateControl ----------------------------
(***************************************************************************)
(* How much and when the encoder sends.                                    *)
(*                                                                         *)
(* Adaptive bitrate (adaptive_bitrate.h and the controller's use in        *)
(* video.cpp): loss feedback of the control thread is collected in windows *)
(* of two seconds, each window moves the target inside its envelope, and   *)
(* the encoder thread applies a new target once, at a frame boundary.      *)
(* A window is one or two samples; rates are in units of 100 kbps.         *)
(*                                                                         *)
(* Frame pacing (video.cpp's encode_run(), frame_pacing.cpp): a new image  *)
(* or a requested IDR frame is encoded at once, otherwise a duplicate at   *)
(* the deadlines of the pacer, thinned out to the keepalive interval once  *)
(* the source has been still for a while.  Time is in ticks; the encoder   *)
(* is scheduled at most Lag ticks late.                                    *)
(*                                                                         *)
(* Recovery requests of the clients (stream.cpp's control handlers) on     *)
(* their way to the encoders (video.cpp): an IDR request passes the        *)
(* duplicate window of record_idr_request() and the session's one-place    *)
(* event; lost reference frames go through another one-place event; the    *)
(* encoding loop turns both into a key flag on its encode session, which   *)
(* the next frame answers.  A new encode session begins with a key frame.  *)
(***************************************************************************)
EXTENDS Integers

CONSTANTS
    Ceilings,      \* the bitrates a client may ask for
    AdminMax,      \* config::video.max_bitrate, 0 when it is not set
    MaxWindows,    \* bound on the windows of a stream
    Period,        \* ticks between the deadlines of duplicates
    StaticAfter,   \* static_after_: 500 ms
    Keepalive,     \* keepalive_interval_: 1 s
    Lag,           \* how late the encoding thread may run
    MaxTicks       \* bound on time

VARIABLES
    envelope,      \* minimum, target, maximum, peak; target 0 before a stream
    congestion,    \* state_
    half,          \* the window has a sample
    pressure,      \* worst pressure in the window so far: 0, 1 or 2
    clean,         \* clean_windows_
    cooldown,      \* cooldown_windows_
    burst,         \* bitrate_burst_event
    activeRate,    \* bitrate_active_kbps
    learned,       \* bitrate_learned_next_kbps
    attempted,     \* last_bitrate_update_attempt_kbps
    runtime,       \* what the encoder answers to an update
    windows,       \* windows of the stream so far
    calm,          \* history: windows without pressure or burst in a row
    last,          \* history: the last pressure of the stream
    grew,          \* history: the last window raised the target
    tick,          \* steady_clock::now()
    epoch,         \* epoch_ of the pacer
    index,         \* next_index_
    waiting,       \* the image event: "none", a "new" image or the "same" one
    idr,           \* an IDR request waits in idr_events
    observed,      \* observed_unique_
    lastUnique,    \* last_unique_
    lastOutput,    \* last_output_
    missed,        \* capture_deadline_misses
    turnDue        \* when the encoding thread has to run next

rateVars == <<envelope, congestion, half, pressure, clean, cooldown, burst,
              activeRate, learned, attempted, runtime, windows, calm, last, grew>>

MaxOf(a, b) == IF a > b THEN a ELSE b
MinOf(a, b) == IF a < b THEN a ELSE b

RateInit ==
    /\ envelope = [minimum |-> 0, target |-> 0, maximum |-> 0, peak |-> 0]
    /\ congestion = "unknown" /\ half = FALSE /\ pressure = 0
    /\ clean = 0 /\ cooldown = 0 /\ burst = FALSE
    /\ activeRate = 0 /\ learned = 0 /\ attempted = 0
    /\ runtime \in {"applied", "unsupported", "failed"}
    /\ windows = 0 /\ calm = 0 /\ last = 0 /\ grew = FALSE

(* make_envelope() of the client's rate under the administrator's: at      *)
(* least a quarter or 1000 kbps, and it starts at its maximum.             *)
EnvelopeOf(rate) ==
    LET most == MinOf(rate, IF AdminMax > 0 THEN AdminMax ELSE rate)
    IN  [minimum |-> MinOf(most, MaxOf(most \div 4, 10)), target |-> most,
         maximum |-> most, peak |-> most]

(* capture(): everything of the stream before is reset. *)
StartStream(rate) ==
    /\ envelope' = EnvelopeOf(rate)
    /\ congestion' = "unknown" /\ half' = FALSE /\ pressure' = 0
    /\ clean' = 0 /\ cooldown' = 0
    /\ burst' = TRUE
    /\ activeRate' = envelope'.target /\ learned' = envelope'.target
    /\ attempted' = envelope'.target
    /\ windows' = 0 /\ calm' = 0 /\ last' = 0 /\ grew' = FALSE
    /\ UNCHANGED runtime

(* An IDR frame asked for: the burst must not count as spare bandwidth. *)
RecordIdr ==
    /\ envelope.target > 0 /\ ~burst /\ burst' = TRUE
    /\ UNCHANGED <<envelope, congestion, half, pressure, clean, cooldown,
                   activeRate, learned, attempted, runtime, windows, calm,
                   last, grew>>

Reduced(percent) ==
    LET t == MaxOf(envelope.minimum,
                   envelope.target - MaxOf((envelope.target * percent) \div 100, 1))
    IN  [envelope EXCEPT !.target = t, !.peak = t]

Raised ==
    LET t == MinOf(envelope.maximum,
                   envelope.target + MaxOf(envelope.target \div 20, 1))
    IN  [envelope EXCEPT !.target = t, !.peak = t]

(* A sample before the end of the window is only collected. *)
Collect(level) ==
    /\ envelope.target > 0 /\ ~half /\ windows < MaxWindows
    /\ half' = TRUE /\ pressure' = level
    /\ cooldown' = IF burst THEN MaxOf(cooldown, 2) ELSE cooldown
    /\ calm' = IF burst THEN 0 ELSE calm
    /\ burst' = FALSE /\ grew' = FALSE
    /\ UNCHANGED <<envelope, congestion, clean, activeRate, learned, attempted,
                   runtime, windows, last>>

(* A bug: pressure does not restart the cooldown. *)
DecideHot(worst, waits) ==
    CASE worst = 2 ->
           /\ envelope' = Reduced(20) /\ congestion' = "congested"
           /\ clean' = 0 /\ cooldown' = waits
      [] worst = 1 ->
           /\ envelope' = Reduced(10) /\ congestion' = "warning"
           /\ clean' = 0 /\ cooldown' = waits
      [] worst = 0 /\ waits > 0 ->
           /\ congestion' = "recovering" /\ clean' = 0 /\ cooldown' = waits - 1
           /\ UNCHANGED envelope
      [] worst = 0 /\ waits = 0 ->
           /\ congestion' = "clean" /\ UNCHANGED cooldown
           /\ IF clean + 1 < 2 \/ envelope.target >= envelope.maximum
              THEN clean' = clean + 1 /\ UNCHANGED envelope
              ELSE clean' = 0 /\ envelope' = Raised

(* The end of a window: strong pressure takes 20 percent and two windows   *)
(* of cooldown, weak pressure 10 and at least one; after the cooldown the  *)
(* second clean window gives 5 percent back.                               *)
Decide(worst, waits) ==
    CASE worst = 2 ->
           /\ envelope' = Reduced(20) /\ congestion' = "congested"
           /\ clean' = 0 /\ cooldown' = 2
      [] worst = 1 ->
           /\ envelope' = Reduced(10) /\ congestion' = "warning"
           /\ clean' = 0 /\ cooldown' = MaxOf(waits, 1)
      [] worst = 0 /\ waits > 0 ->
           /\ congestion' = "recovering" /\ clean' = 0 /\ cooldown' = waits - 1
           /\ UNCHANGED envelope
      [] worst = 0 /\ waits = 0 ->
           /\ congestion' = "clean" /\ UNCHANGED cooldown
           /\ IF clean + 1 < 2 \/ envelope.target >= envelope.maximum
              THEN clean' = MinOf(clean + 1, 2) /\ UNCHANGED envelope
              ELSE clean' = 0 /\ envelope' = Raised

Close(level) ==
    /\ envelope.target > 0 /\ windows < MaxWindows
    /\ LET worst == MaxOf(pressure, level)
       IN  /\ Decide(worst, IF burst THEN MaxOf(cooldown, 2) ELSE cooldown)
           /\ calm' = IF worst > 0 THEN 0 ELSE IF burst THEN 1 ELSE calm + 1
           /\ last' = IF worst > 0 THEN worst ELSE last
    /\ grew' = (envelope'.target > envelope.target)
    /\ half' = FALSE /\ pressure' = 0 /\ burst' = FALSE
    /\ windows' = windows + 1
    /\ UNCHANGED <<activeRate, learned, attempted, runtime>>

(* apply_pending_bitrate_target(): a target is tried once. *)
ApplyTarget ==
    LET wanted == envelope.target
    IN  /\ wanted > 0 /\ attempted # wanted
        /\ attempted' = wanted
        /\ activeRate' = IF runtime = "applied" THEN wanted ELSE activeRate
        /\ learned' = IF runtime = "failed" THEN activeRate ELSE wanted
        /\ UNCHANGED <<envelope, congestion, half, pressure, clean, cooldown,
                       burst, runtime, windows, calm, last, grew>>

RateNext ==
    \/ \E rate \in Ceilings : StartStream(rate)
    \/ RecordIdr
    \/ \E level \in 0..2 : Collect(level) \/ Close(level)
    \/ ApplyTarget

RateSpec == RateInit /\ [][RateNext]_rateVars

-----------------------------------------------------------------------------
(* controller_t::observe(): the target stays in the envelope and is raised *)
(* only after two clean windows beyond the cooldown: four windows without  *)
(* pressure after congestion, three after weak pressure, four after an IDR *)
(* burst; and what the encoder runs at or hands to the next session never  *)
(* exceeds the ceiling, even when feedback overtakes the encoder.          *)
SlowRecovery ==
    /\ envelope.minimum <= envelope.target /\ envelope.target <= envelope.maximum
    /\ activeRate <= envelope.maximum /\ learned <= envelope.maximum
    /\ grew => calm >= IF last = 1 THEN 3 ELSE 4

-----------------------------------------------------------------------------
(* Frame pacing. *)

paceVars == <<tick, epoch, index, waiting, idr, observed, lastUnique,
              lastOutput, missed, turnDue>>

NextDeadline(base, i) == base + i * Period

PaceInit ==
    /\ tick = 0 /\ epoch = 0 /\ index = 1
    /\ waiting = "none" /\ idr = FALSE
    /\ observed = FALSE /\ lastUnique = 0 /\ lastOutput = 0
    /\ missed = 0 /\ turnDue = Period + Lag

Tick ==
    /\ tick < MaxTicks /\ tick < turnDue
    /\ tick' = tick + 1
    /\ UNCHANGED <<epoch, index, waiting, idr, observed, lastUnique,
                   lastOutput, missed, turnDue>>

Earlier(a, b) == IF a < b THEN a ELSE b

(* An image wakes the wait of the encoding thread, an IDR request only     *)
(* ends it at the next turn.                                               *)
ImageArrives(image) ==
    /\ waiting = "none" /\ waiting' = image
    /\ turnDue' = Earlier(turnDue, tick + Lag)
    /\ UNCHANGED <<tick, epoch, index, idr, observed, lastUnique, lastOutput,
                   missed>>

IdrRequested ==
    /\ ~idr /\ idr' = TRUE
    /\ UNCHANGED <<tick, epoch, index, waiting, observed, lastUnique,
                   lastOutput, missed, turnDue>>

(* poll(): skip the deadlines that have passed and count them. *)
Polled ==
    IF tick < NextDeadline(epoch, index)
    THEN [next |-> index, late |-> 0]
    ELSE LET gone == (tick - epoch) \div Period
             due == IF gone > index THEN gone ELSE index
         IN  [next |-> due + 1, late |-> due - index]

StaticMode(seen, unique) == seen /\ tick - unique >= StaticAfter

(* A bug: a still source is only sent again when it changes. *)
ShouldEncodeStill(force, seen, unique) == force \/ ~StaticMode(seen, unique)

ShouldEncode(force, seen, unique) ==
    force \/ ~StaticMode(seen, unique) \/ tick - lastOutput >= Keepalive

(* One turn of the loop: take the image or the end of the wait, decide,    *)
(* encode, and restart the pacer after an immediate output.                *)
Turn ==
    /\ waiting # "none" \/ idr \/ tick >= NextDeadline(epoch, index)
    /\ LET unique == waiting = "new"
           polls == ~idr /\ ~unique
           step == IF polls THEN Polled ELSE [next |-> index, late |-> 0]
           seen == observed \/ unique
           when == IF unique THEN tick ELSE lastUnique
           encodes == ShouldEncode(idr, seen, when)
           immediate == encodes /\ (unique \/ idr)
       IN  /\ observed' = seen /\ lastUnique' = when
           /\ missed' = missed + step.late
           /\ lastOutput' = IF encodes THEN tick ELSE lastOutput
           /\ epoch' = IF immediate THEN tick ELSE epoch
           /\ index' = IF immediate THEN 1 ELSE step.next
    /\ waiting' = "none" /\ idr' = FALSE
    /\ turnDue' = NextDeadline(epoch', index') + Lag
    /\ UNCHANGED tick

PaceNext ==
    \/ Tick \/ IdrRequested \/ Turn
    \/ \E image \in {"new", "same"} : ImageArrives(image)

PaceSpec == PaceInit /\ [][PaceNext]_paceVars

-----------------------------------------------------------------------------
(* "A one-second pre-frame gap can make a Moonlight client classify an     *)
(* otherwise healthy stream as disconnected": before the first image the   *)
(* output keeps the pacer's rate, and later, whatever images and IDR       *)
(* requests arrive and however deadlines are skipped, the client waits no  *)
(* longer than the keepalive interval, one deadline and the thread's lag.  *)
NoOutputGap ==
    /\ tick - lastOutput <= Keepalive + Period + Lag
    /\ ~observed => tick - lastOutput <= Period + Lag

-----------------------------------------------------------------------------
CONSTANTS
    Viewers,       \* the sessions
    Window,        \* duplicate_window_microseconds, in ticks
    MaxMoments,    \* bound on time
    MaxLosses      \* bound on the losses reported

VARIABLES
    moment,        \* steady_clock::now()
    lastClient,    \* last_client_idr_request_microseconds, 0 for none
    idrEvent,      \* session -> value of its IDR event, or "none"
    lossEvent,     \* session -> the loss in its invalidation event, or 0
    key,           \* session -> the key flag of its encode session
    coder,         \* session -> "none", "fresh" (no frame yet) or "open"
    recovers,      \* session -> its encoder can invalidate references
    turn,          \* session -> where its encoding loop is
    submitted,     \* pending_idr_reason
    owed,          \* session -> an accepted request has no key frame yet
    losses,        \* losses reported so far
    unheard        \* losses no encoder was told of

idrVars == <<moment, lastClient, idrEvent, lossEvent, key, coder, recovers,
             turn, submitted, owed, losses, unheard>>

IdrInit ==
    /\ moment = 1 /\ lastClient = 0
    /\ idrEvent = [v \in Viewers |-> "none"]
    /\ lossEvent = [v \in Viewers |-> 0]
    /\ key = [v \in Viewers |-> FALSE]
    /\ coder = [v \in Viewers |-> "none"]
    /\ recovers \in [Viewers -> BOOLEAN]
    /\ turn = [v \in Viewers |-> "top"]
    /\ submitted = "none"
    /\ owed = [v \in Viewers |-> FALSE]
    /\ losses = 0 /\ unheard = {}

(* capture() of a new session asks for a key frame of its own accord. *)
Connect(v) ==
    /\ coder[v] = "none" /\ ~owed[v]
    /\ idrEvent' = [idrEvent EXCEPT ![v] = "reconnect"]
    /\ owed' = [owed EXCEPT ![v] = TRUE]
    /\ coder' = [coder EXCEPT ![v] = "closed"]
    /\ UNCHANGED <<moment, lastClient, lossEvent, key, recovers, turn,
                   submitted, losses, unheard>>

(* The window of record_idr_request() is shared by all sessions. *)
Fresh == lastClient = 0 \/ moment - lastClient >= Window

RequestIdr(v) ==
    /\ coder[v] # "none" /\ Fresh
    /\ lastClient' = moment
    /\ idrEvent' = [idrEvent EXCEPT ![v] = "client_request"]
    /\ owed' = [owed EXCEPT ![v] = TRUE]
    /\ UNCHANGED <<moment, lossEvent, key, coder, recovers, turn, submitted,
                   losses, unheard>>

ReportLoss(v) ==
    /\ coder[v] # "none" /\ losses < MaxLosses
    /\ losses' = losses + 1
    /\ unheard' = unheard \cup ({lossEvent[v]} \ {0})
    /\ lossEvent' = [lossEvent EXCEPT ![v] = losses']
    /\ UNCHANGED <<moment, lastClient, idrEvent, key, coder, recovers, turn,
                   submitted, owed>>

OpenCoder(v) ==
    /\ coder[v] = "closed"
    /\ coder' = [coder EXCEPT ![v] = "fresh"]
    /\ key' = [key EXCEPT ![v] = FALSE]
    /\ turn' = [turn EXCEPT ![v] = "top"]
    /\ UNCHANGED <<moment, lastClient, idrEvent, lossEvent, recovers,
                   submitted, owed, losses, unheard>>

Encoding(v) == coder[v] \in {"fresh", "open"}

(* References that cannot be invalidated are answered by a key frame. *)
TakeLoss(v) ==
    /\ Encoding(v) /\ turn[v] = "top" /\ lossEvent[v] # 0
    /\ lossEvent' = [lossEvent EXCEPT ![v] = 0]
    /\ \/ /\ recovers[v] /\ UNCHANGED <<key, submitted>>
       \/ /\ key' = [key EXCEPT ![v] = TRUE]
          /\ submitted' = "recovery"
    /\ UNCHANGED <<moment, lastClient, idrEvent, coder, recovers, turn, owed,
                   losses, unheard>>

(* A bug: the request is taken and the encoder is not told. *)
TakeIdrOnly(v) ==
    /\ Encoding(v) /\ turn[v] = "top" /\ lossEvent[v] = 0
    /\ turn' = [turn EXCEPT ![v] = "wait"]
    /\ idrEvent' = [idrEvent EXCEPT ![v] = "none"]
    /\ UNCHANGED <<moment, lastClient, lossEvent, key, coder, recovers,
                   submitted, owed, losses, unheard>>

TakeIdr(v) ==
    /\ Encoding(v) /\ turn[v] = "top" /\ lossEvent[v] = 0
    /\ turn' = [turn EXCEPT ![v] = "wait"]
    /\ idrEvent' = [idrEvent EXCEPT ![v] = "none"]
    /\ IF idrEvent[v] = "none" THEN UNCHANGED <<key, submitted>>
       ELSE /\ key' = [key EXCEPT ![v] = TRUE]
            /\ submitted' = idrEvent[v]
    /\ UNCHANGED <<moment, lastClient, lossEvent, coder, recovers, owed,
                   losses, unheard>>

(* The frame is encoded and queued for the network; the reason is cleared, *)
(* the session asked for normal frames again.                              *)
EncodeFrame(v) ==
    /\ Encoding(v) /\ turn[v] = "wait"
    /\ LET isIdr == key[v] \/ coder[v] = "fresh"
       IN  /\ submitted' = IF isIdr THEN "none" ELSE submitted
           /\ owed' = [owed EXCEPT ![v] = @ /\ (~isIdr \/ idrEvent[v] # "none")]
    /\ key' = [key EXCEPT ![v] = FALSE]
    /\ coder' = [coder EXCEPT ![v] = "open"]
    /\ turn' = [turn EXCEPT ![v] = "top"]
    /\ UNCHANGED <<moment, lastClient, idrEvent, lossEvent, recovers, losses,
                   unheard>>

(* A static source: the turn ends without a frame, unless one is forced. *)
SkipFrame(v) ==
    /\ Encoding(v) /\ turn[v] = "wait" /\ ~key[v] /\ coder[v] = "open"
    /\ turn' = [turn EXCEPT ![v] = "top"]
    /\ UNCHANGED <<moment, lastClient, idrEvent, lossEvent, key, coder,
                   recovers, submitted, owed, losses, unheard>>

(* A renewed display or a failed frame ends the encode session; another    *)
(* one follows.                                                            *)
CloseCoder(v) ==
    /\ Encoding(v) /\ turn[v] = "wait"
    /\ coder' = [coder EXCEPT ![v] = "closed"]
    /\ UNCHANGED <<moment, lastClient, idrEvent, lossEvent, key, recovers,
                   turn, submitted, owed, losses, unheard>>

Pass ==
    /\ moment < MaxMoments /\ moment' = moment + 1
    /\ UNCHANGED <<lastClient, idrEvent, lossEvent, key, coder, recovers, turn,
                   submitted, owed, losses, unheard>>

IdrNext ==
    \/ \E v \in Viewers :
          \/ Connect(v) \/ RequestIdr(v) \/ ReportLoss(v) \/ OpenCoder(v)
          \/ TakeLoss(v) \/ TakeIdr(v) \/ EncodeFrame(v) \/ SkipFrame(v)
          \/ CloseCoder(v)
    \/ Pass

IdrSpec == IdrInit /\ [][IdrNext]_idrVars

-----------------------------------------------------------------------------
(* Once record_idr_request() accepts a request, no later request, skipped  *)
(* frame, failed encode call or renewed encoder loses it: until a key      *)
(* frame answers it, it is in the session's event, on the key flag of its  *)
(* encode session, or a new encode session is on its way.                  *)
AcceptedIdrIsKept ==
    \A v \in Viewers :
        owed[v] => \/ idrEvent[v] # "none" \/ key[v]
                   \/ coder[v] \in {"closed", "fresh"}

(* Every loss a client reports reaches its encoder. *)
EveryLossIsHeard == unheard = {}
=============================================================================
