-------------------------------- MODULE MCMedia -------------------------------
(***************************************************************************)
(* Input, video and rate control on small instances, checked as the        *)
(* services are in MCServices: a behaviour runs the component named by     *)
(* focus and leaves the others where they started.                         *)
(***************************************************************************)
EXTENDS Integers, Sequences, InputQueue

CONSTANTS
    Checked,                         \* the components this run is about
    LettersTyped, MaxKeyEvents,      \* InputKeys
    PadSessions, PadOwners, PadSlots, Controllers, MaxPadInputs, MaxPadTasks,
                                     \* InputPads
    PadButtons, TurboTargets, TurboModifiers, SavedShortcuts, MaxShortcuts,
    MaxReports, MaxEdits,            \* PadShortcuts
    Streams, MaxDisplays,            \* VideoCapture
    Players, MaxChanges,             \* VideoHdr
    Order, Modes, MaxProbes,         \* VideoHdr: probing
    Ceilings, AdminMax, MaxWindows, Period, StaticAfter, Keepalive, Lag, MaxTicks,
                                     \* RateControl
    Viewers, Window, MaxMoments, MaxLosses   \* RateControl: key frames

(* What the code gives these numbers and sets: 0 stands for no gamepad     *)
(* slot, a shortcut that validates sends at least one key, rates are       *)
(* natural numbers, a frame and stillness take some time, the other delays *)
(* may be none; the encoders are a list, of which none is called "none".   *)
ASSUME RateAssumption == Ceilings \subseteq Nat /\ AdminMax \in Nat
ASSUME PaceAssumption ==
    /\ Period \in Nat \ {0} /\ StaticAfter \in Nat \ {0}
    /\ Keepalive \in Nat /\ Lag \in Nat
ASSUME PadAssumption ==
    /\ 0 \notin PadSlots /\ "none" \notin PadSessions /\ MaxPadInputs \in Nat
ASSUME ShortcutAssumption ==
    \A s \in SavedShortcuts : s.output # <<>> /\ s.output \in Seq(PadButtons \cup {"home"})
ASSUME ProbeAssumption == Order # <<>> /\ "none" \notin {Order[i] : i \in DOMAIN Order}

VARIABLES
    focus,   \* the component that runs
    keyPress, hostKeys, modHeld, flags, repeating, mousePress,
    hostButtons, leftTimeout, leftTask, live, resetTask, events, retained,
    holder, pads, mask, device, pool, back, inputs, shortcuts, settings,
    edits, edited, plugged, reports, reported, stale, usedShortcuts, padState,
    shown, armed, suppressed, timers, timeouts, backUp, backTimers, backTimeout,
    turbo, turboTick, ctxQueue, waitingCtxs, refs, capture, ctxs, display,
    published, created, reinit, switching, images, frame, stream, held, sent,
    shut, undefined, policy, codecPolicy, recovery, tested, source, changes,
    request, range, saw, color, signal, step, hdrActive, able, claims,
    chosen, previous, hevcMode, wantMode, wantEncoder, owned, left, place,
    phase, probes, probed, envelope, congestion, half, pressure, clean,
    cooldown, burst, activeRate, learned, attempted, runtime, windows, calm,
    last, grew, tick, epoch, index, waiting, idr, observed, lastUnique,
    lastOutput, missed, turnDue, moment, lastClient, idrEvent, lossEvent,
    key, coder, recovers, turn, submitted, owed, losses, unheard

Packet(kind, from, how, amount) ==
    [magic |-> kind, device |-> from, mode |-> how, value |-> amount]

MCMoveAndPress == {Packet("relative", 0, "", 1), Packet("edge", 0, "", 0)}

MCPackets ==
    MCMoveAndPress \cup
    {Packet("malformed", 0, "", 0), Packet("relative", 0, "", 2),
     Packet("scroll", 0, "", 1), Packet("absolute", 0, "a", 0),
     Packet("controller", 1, "both", 0), Packet("controller", 2, "both", 0),
     Packet("touch", 1, "move", 0), Packet("touch", 2, "move", 0),
     Packet("touch", 1, "down", 0), Packet("pen", 0, "move", 0),
     Packet("padtouch", 1, "move", 0), Packet("padtouch", 2, "move", 0),
     Packet("motion", 1, "gyro", 0), Packet("motion", 2, "gyro", 0)}

MCLetters == {<<"letter">>}

MCOrder == <<"vulkan", "software">>

MCClientOf == [s \in {"c1", "c2", "d1"} |-> IF s = "d1" THEN "d" ELSE "c"]

Shortcut(name, keys, output, on) ==
    [id |-> name, keys |-> keys, output |-> output, enabled |-> on]

MCShortcuts ==
    {Shortcut("x", {"start", "back"}, <<"home", "a">>, TRUE),
     Shortcut("x", {"a"}, <<"home">>, TRUE),
     Shortcut("y", {"back", "a"}, <<"home">>, TRUE),
     Shortcut("y", {"back", "a"}, <<"home">>, FALSE)}

-----------------------------------------------------------------------------
Key == INSTANCE InputKeys WITH Keys <- LettersTyped, MaxEvents <- MaxKeyEvents

Pad == INSTANCE InputPads WITH
    Sessions <- PadSessions, ClientOf <- PadOwners, Slots <- PadSlots,
    Pads <- Controllers, MaxInputs <- MaxPadInputs, MaxTasks <- MaxPadTasks

Combos == INSTANCE PadShortcuts WITH
    Inputs <- PadButtons, Targets <- TurboTargets, Modifiers <- TurboModifiers,
    Saved <- SavedShortcuts, tick <- turboTick, state <- padState,
    list <- usedShortcuts

Capture == INSTANCE VideoCapture

Hdr == INSTANCE VideoHdr

Rate == INSTANCE RateControl

keysVars ==
    <<keyPress, hostKeys, modHeld, flags, repeating, mousePress, hostButtons,
      leftTimeout, leftTask, live, resetTask, events>>
padsVars ==
    <<retained, holder, pads, mask, device, pool, back, inputs>>
combosVars ==
    <<shortcuts, settings, edits, edited, plugged, reports, reported, stale,
      usedShortcuts, padState, shown, armed, suppressed, timers,
      timeouts, backUp, backTimers, backTimeout, turbo, turboTick>>
captureVars ==
    <<ctxQueue, waitingCtxs, refs, capture, ctxs, display, published, created,
      reinit, switching, images, frame, stream, held, sent, shut,
      undefined>>
hdrVars ==
    <<policy, codecPolicy, recovery, tested, source, changes, request, range,
      saw, color, signal, step, hdrActive>>
probeVars ==
    <<able, claims, chosen, previous, hevcMode, wantMode, wantEncoder, owned,
      left, place, phase, probes, probed>>
rateVars ==
    <<envelope, congestion, half, pressure, clean, cooldown, burst,
      activeRate, learned, attempted, runtime, windows, calm, last, grew>>
paceVars ==
    <<tick, epoch, index, waiting, idr, observed, lastUnique, lastOutput,
      missed, turnDue>>
idrVars ==
    <<moment, lastClient, idrEvent, lossEvent, key, coder, recovers, turn,
      submitted, owed, losses, unheard>>

HdrAsStarted ==
    /\ policy = "auto" /\ codecPolicy = "auto" /\ recovery
    /\ tested["hevc"] = {"passed"} /\ tested["av1"] = {"passed"}
    /\ ~source.hdr /\ ~source.metadata
    /\ request = CHOOSE r \in [Players -> Hdr!Requests] : TRUE

ProbeAsStarted ==
    /\ able = [e \in Hdr!Encoders |-> {}]
    /\ wantMode = 0 /\ wantEncoder = "none"

-----------------------------------------------------------------------------
(* Each component starts as it does on its own; the ones that are not     *)
(* looked at start in one of their states and stay there.                  *)
Start ==
    /\ focus \in Checked
    /\ QueueInit
    /\ Key!Init
    /\ Pad!Init
    /\ Combos!Init
    /\ Capture!Init
    /\ Hdr!Init
    /\ focus # "hdr" => HdrAsStarted
    /\ Hdr!ProbeInit
    /\ focus # "probe" => ProbeAsStarted
    /\ Rate!RateInit
    /\ focus # "rate" => runtime = "applied"
    /\ Rate!PaceInit
    /\ Rate!IdrInit
    /\ focus # "idr" => recovers = [v \in Viewers |-> TRUE]

(* Every other component stands still. *)
OnlyFocus ==
    /\ UNCHANGED focus
    /\ IF focus = "queue" THEN TRUE ELSE UNCHANGED queueVars
    /\ IF focus = "keys" THEN TRUE ELSE UNCHANGED keysVars
    /\ IF focus = "pads" THEN TRUE ELSE UNCHANGED padsVars
    /\ IF focus = "combos" THEN TRUE ELSE UNCHANGED combosVars
    /\ IF focus = "capture" THEN TRUE ELSE UNCHANGED captureVars
    /\ IF focus = "hdr" THEN TRUE ELSE UNCHANGED hdrVars
    /\ IF focus = "probe" THEN TRUE ELSE UNCHANGED probeVars
    /\ IF focus = "rate" THEN TRUE ELSE UNCHANGED rateVars
    /\ IF focus = "pace" THEN TRUE ELSE UNCHANGED paceVars
    /\ IF focus = "idr" THEN TRUE ELSE UNCHANGED idrVars

Steps ==
    \/ focus = "queue" /\ QueueNext /\ OnlyFocus
    \/ focus = "keys" /\ Key!Next /\ OnlyFocus
    \/ focus = "pads" /\ Pad!Next /\ OnlyFocus
    \/ focus = "combos" /\ Combos!Next /\ OnlyFocus
    \/ focus = "capture" /\ Capture!Next /\ OnlyFocus
    \/ focus = "hdr" /\ Hdr!Next /\ OnlyFocus
    \/ focus = "probe" /\ Hdr!ProbeNext /\ OnlyFocus
    \/ focus = "rate" /\ Rate!RateNext /\ OnlyFocus
    \/ focus = "pace" /\ Rate!PaceNext /\ OnlyFocus
    \/ focus = "idr" /\ Rate!IdrNext /\ OnlyFocus

allVars ==
    <<focus, queueVars, keysVars, padsVars, combosVars, captureVars, hdrVars,
      probeVars, rateVars, paceVars, idrVars>>

SuiteSpec == Start /\ [][Steps]_allVars

-----------------------------------------------------------------------------
(* InputQueue: presses and releases are injected in the order they came.   *)
(* InputKeys: a key or button held on the host is one the session tracks.  *)
(* InputPads: a gamepad slot is held by one live pad, and only by one.     *)
(* PadShortcuts: an input that a shortcut or a turbo gesture took stays    *)
(* hidden until it is released, a combination fires only while it is held  *)
(* and is the largest, and the game sees no button nobody holds.           *)
InputIsAccounted ==
    /\ focus = "queue" => EdgesInOrder
    /\ focus = "keys" => Key!HeldIsTracked
    /\ focus = "pads" => Pad!SlotsAccounted
    /\ focus = "combos" => Combos!CombosHold

(* VideoCapture: a stream that waits for frames has a capture thread. *)
NoStreamWithoutCapture == focus = "capture" => Capture!NoStreamWithoutCapture

(* VideoHdr: a stream that requires HDR never falls back to SDR late.      *)
(* It probes encoders, too: an owned session is never encoded in software. *)
SessionPolicyHolds ==
    /\ focus = "hdr" => Hdr!NoLateFallback
    /\ focus = "probe" => Hdr!NoSoftwareForOwnedSession

(* RateControl: the rate does not grow again right after congestion, and a *)
(* client is never left without a frame for too long.                      *)
RateIsSteady ==
    /\ focus = "rate" => Rate!SlowRecovery
    /\ focus = "pace" => Rate!NoOutputGap

(* RateControl: a request for a key frame that was accepted is answered. *)
AcceptedIdrIsKept == focus = "idr" => Rate!AcceptedIdrIsKept
=============================================================================
