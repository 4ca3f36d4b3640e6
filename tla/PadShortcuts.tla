---------------------------- MODULE PadShortcuts ----------------------------
(***************************************************************************)
(* What a game sees of one gamepad (input.cpp, passthrough of a controller *)
(* packet): the Back button that becomes Home when it is held, the saved   *)
(* shortcuts (steamshine_gamepad_shortcuts.cpp) whose combination is taken *)
(* from the game once it was held long enough, and the buttons in turbo    *)
(* (steamshine_gamepad_turbo.cpp).  Packets, timers and turbo ticks run on *)
(* the one worker of the input pool; the Web page saves shortcuts and      *)
(* settings from other threads.  How long a combination must be held and   *)
(* the turbo speed are settings, so a timer may end and a pulse may change *)
(* at any time.  A trigger past the threshold counts as a button held.     *)
(***************************************************************************)
EXTENDS Naturals, Sequences, SequencesExt, FiniteSets

CONSTANTS
    Inputs,         \* buttons and triggers of the pad
    Targets,        \* the buttons that may be put in turbo
    Modifiers,      \* the turbo combination buttons tried
    Saved,          \* shortcuts the page saves: [id, keys, output, enabled]
    MaxShortcuts,   \* MAX_SHORTCUTS
    MaxReports,     \* bound: packets of the controller
    MaxEdits        \* bound: saves and removals on the page

VARIABLES
    shortcuts,      \* g_current
    settings,       \* the turbo settings
    edits,          \* changes made on the page so far
    edited,         \* history: shortcuts changed while a hold timer was pending
    plugged,        \* gamepad.id >= 0
    reports,        \* packets taken so far
    reported,       \* what the last packet holds down, Back emulation applied
    stale,          \* the pad was removed since the last packet
    list,           \* the shortcuts the last packet was filtered with
    state,          \* gamepad_state
    shown,          \* what the virtual device shows
    armed,          \* shortcuts.armed
    suppressed,     \* inputs of fired shortcuts, until they are released
    timers,         \* hold timers in the pool
    timeouts,       \* shortcut_timeout_ids: id -> timer, or 0
    backUp,         \* back_button_state is UP
    backTimers,     \* Back timers in the pool
    backTimeout,    \* back_timeout_id
    turbo,          \* the turbo tracker
    tick            \* turbo_tick_id

webVars == <<shortcuts, settings, edits>>
backVars == <<backUp, backTimers, backTimeout>>
packetVars == <<reports, reported, stale, list>>
comboVars == <<webVars, edited, packetVars, backVars, plugged, state, shown,
               armed, suppressed, timers, timeouts, turbo, tick>>

Back == "back"
Ids == {s.id : s \in Saved}
NoTurbo == [active |-> {}, since |-> {}, hidden |-> {}, previous |-> {},
            input |-> {}]

Init ==
    /\ shortcuts = {} /\ edits = 0 /\ edited = FALSE
    /\ settings = [on |-> FALSE, modifier |-> CHOOSE m \in Modifiers : TRUE]
    /\ plugged = FALSE /\ reports = 0 /\ reported = {} /\ stale = FALSE
    /\ list = {} /\ state = {} /\ shown = {} /\ armed = {} /\ suppressed = {}
    /\ timers = {} /\ timeouts = [i \in Ids |-> 0]
    /\ backUp = FALSE /\ backTimers = {} /\ backTimeout = 0
    /\ turbo = NoTurbo /\ tick = FALSE

-----------------------------------------------------------------------------
(* The Web page.  A list that does not validate, and a configuration file  *)
(* that cannot be replaced, leave everything as it was.                    *)
Validates(ss) ==
    /\ Cardinality(ss) <= MaxShortcuts
    /\ \A s, o \in ss : s # o =>
          /\ s.id # o.id
          /\ ~(s.enabled /\ o.enabled /\ s.keys = o.keys)

WithId(i) == {s \in shortcuts : s.id = i}

Publish(ss) ==
    /\ edits < MaxEdits /\ edits' = edits + 1
    /\ shortcuts' = ss
    /\ edited' = (edited \/ timers # {})
    /\ UNCHANGED <<settings, packetVars, backVars, plugged, state, shown,
                   armed, suppressed, timers, timeouts, turbo, tick>>

(* upsert(): a new identifier, or one that is in the list. *)
Upsert(s) ==
    LET ss == (shortcuts \ WithId(s.id)) \cup {s}
    IN  Validates(ss) /\ Publish(ss)

RemoveShortcut(i) == WithId(i) # {} /\ Publish(shortcuts \ WithId(i))

SetTurbo ==
    /\ edits < MaxEdits /\ edits' = edits + 1
    /\ settings' \in [on : BOOLEAN, modifier : Modifiers]
    /\ UNCHANGED <<shortcuts, edited, packetVars, backVars, plugged, state,
                   shown, armed, suppressed, timers, timeouts, turbo, tick>>

-----------------------------------------------------------------------------
(* steamshine_gamepad_shortcuts *)
Held(s, down) == s.keys # {} /\ s.keys \subseteq down

RawHeld(ss, down) == {s \in ss : s.enabled /\ Held(s, down)}

(* The shortcuts a packet arms: held, none of their inputs taken by one    *)
(* that fired, and no larger combination held.                             *)
Armable(ss, down, hidden) ==
    {s \in RawHeld(ss, down) :
        /\ s.keys \cap hidden = {}
        /\ ~\E o \in RawHeld(ss, down) : o.keys # s.keys
                                          /\ s.keys \subseteq o.keys}

(* output_frames(): keys are pressed in order and released in reverse. *)
OutputFrames(output, base) ==
    [n \in 1..(2 * Len(output)) |->
        base \cup ToSet(SubSeq(output, 1,
                               IF n <= Len(output) THEN n
                               ELSE 2 * Len(output) - n))]

-----------------------------------------------------------------------------
(* steamshine_gamepad_turbo *)

(* update(): turbo switched off, a gesture that toggles, or neither. *)
Toggled(down) ==
    IF settings.on /\ settings.modifier \in down
    THEN ((down \ turbo.previous) \ {settings.modifier}) \cap Targets
    ELSE {}

Updated(down) ==
    LET on == IF settings.on
              THEN (turbo.active \ Toggled(down))
                   \cup (Toggled(down) \ turbo.active)
              ELSE {}
        hidden == (turbo.hidden \cup Toggled(down)) \cap down
    IN  [active |-> on, hidden |-> hidden, previous |-> down,
         input |-> down \ hidden, since |-> on \cap (down \ hidden)]

(* render(): a held turbo button is released in every second half period,  *)
(* and pressed when its hold begins.                                       *)
Rendered(t, begun) ==
    {t.input \ off : off \in SUBSET ((t.since \cap t.active) \ begun)}

Ticking(t) == t.active \cap t.input # {}

-----------------------------------------------------------------------------
(* A packet of the controller, as the Back emulation leaves it. *)
AfterBack(r) == IF backUp THEN r \ {Back} ELSE r

(* A Back that differs from what the game was last shown starts a timer or *)
(* cancels the last one.                                                   *)
BackPacket(r) ==
    LET down    == Back \in AfterBack(r)
        changed == down # (Back \in state)
    IN  /\ backUp' = (backUp /\ Back \in r)
        /\ backTimeout' = IF ~changed THEN backTimeout
                          ELSE IF down THEN reports + 1 ELSE 0
        /\ backTimers' = IF ~changed THEN backTimers
                         ELSE IF down THEN backTimers \cup {reports + 1}
                         ELSE backTimers \ {backTimeout}

(* A change of the list is forgotten once no timer is left of before.      *)
StillEdited == edited' = (edited /\ timers' # {})

(* The changes filter() reports: whatever was pending for a shortcut that  *)
(* begins or ends to be armed is cancelled; one that begins gets a timer.  *)
HoldTimers(now) ==
    LET began == {s \in now : s.id \notin armed}
        ended == armed \ {s.id : s \in now}
        over(t) == /\ t.fired.id \in ended \cup {s.id : s \in began}
                   /\ t.n = timeouts[t.fired.id]
    IN  /\ timers' = {t \in timers : ~over(t)}
                     \cup {[n |-> reports + 1, fired |-> s,
                            list |-> shortcuts] : s \in began}
        /\ timeouts' = [i \in Ids |->
               IF i \in {s.id : s \in began} THEN reports + 1
               ELSE IF i \in ended THEN 0 ELSE timeouts[i]]

(* passthrough() of a controller packet; a pad that was not announced is   *)
(* created by its first packet.                                            *)
Report(r) ==
    LET down   == AfterBack(r)
        hidden == suppressed \cap down
        now    == Armable(shortcuts, down, hidden)
        pulse  == Updated(down \ hidden)
    IN  /\ reports < MaxReports /\ reports' = reports + 1
        /\ reported' = down /\ stale' = FALSE /\ list' = shortcuts
        /\ plugged' = TRUE
        /\ BackPacket(r)
        /\ suppressed' = hidden
        /\ HoldTimers(now) /\ armed' = {s.id : s \in now}
        /\ StillEdited
        /\ turbo' = pulse
        /\ state' \in Rendered(pulse, pulse.since \ turbo.since)
        /\ shown' = state'
        /\ tick' = (tick \/ Ticking(pulse))
        /\ UNCHANGED webVars

(* The packet that no longer names the pad frees its device and nothing    *)
(* else.                                                                   *)
Unplug ==
    /\ plugged /\ plugged' = FALSE /\ shown' = {} /\ stale' = TRUE
    /\ UNCHANGED <<webVars, edited, backVars, reports, reported, list, state,
                   armed, suppressed, timers, timeouts, turbo, tick>>

(* A controller arrival packet. *)
Arrival ==
    /\ ~plugged /\ plugged' = TRUE /\ shown' = {}
    /\ UNCHANGED <<webVars, edited, packetVars, backVars, state, armed,
                   suppressed, timers, timeouts, turbo, tick>>

(* reset_gamepads() when the stream ends, destroy_gamepads() when the      *)
(* retained input is dropped.                                              *)
ResetPad ==
    /\ reports > 0
    /\ plugged' \in {FALSE, plugged}
    /\ state' = {} /\ shown' = {} /\ reported' = {} /\ stale' = FALSE
    /\ list' = {} /\ armed' = {} /\ suppressed' = {}
    /\ timers' = {t \in timers : t.n # timeouts[t.fired.id]}
    /\ timeouts' = [i \in Ids |-> 0] /\ StillEdited
    /\ backTimers' = backTimers \ {backTimeout}
    /\ backTimeout' = 0 /\ backUp' = FALSE
    /\ turbo' = NoTurbo /\ tick' = FALSE
    /\ UNCHANGED <<webVars, reports>>

-----------------------------------------------------------------------------
(* A bug: the turbo ticks keep their own copy of the combination. *)
FireKeepsTurbo(t) ==
    LET fired == t.fired
        taken == suppressed \cup fired.keys
    IN  /\ suppressed' = taken
        /\ state' = state \ fired.keys
        /\ shown' = Last(OutputFrames(fired.output, state'))
        /\ armed' = {i \in armed \ {fired.id} :
                       \A s \in t.list : s.id = i => s.keys \cap taken = {}}
        /\ UNCHANGED turbo

(* fire(), then the output keys; other armed shortcuts that use an input   *)
(* it took are disarmed.                                                   *)
Fire(t) ==
    LET fired == t.fired
        taken == suppressed \cup fired.keys
    IN  /\ suppressed' = taken
        /\ state' = state \ fired.keys
        /\ shown' = Last(OutputFrames(fired.output, state'))
        /\ armed' = {i \in armed \ {fired.id} :
                       \A s \in t.list : s.id = i => s.keys \cap taken = {}}
        /\ turbo' = [turbo EXCEPT !.input = @ \ fired.keys]

(* A hold timer ends. *)
HoldEnds(t) ==
    /\ timers' = timers \ {t}
    /\ timeouts' = [timeouts EXCEPT ![t.fired.id] = 0]
    /\ StillEdited
    /\ IF plugged /\ t.fired.id \in armed THEN Fire(t)
       ELSE UNCHANGED <<suppressed, state, shown, armed, turbo>>
    /\ UNCHANGED <<webVars, packetVars, backVars, plugged, tick>>

(* A Back timer ends: Back goes up until it is released, Home is tapped. *)
BackEnds(n) ==
    /\ backTimers' = backTimers \ {n} /\ backTimeout' = 0
    /\ backUp' = TRUE
    /\ state' = state \ {Back, "home"}
    /\ shown' = IF plugged THEN state' ELSE shown
    /\ UNCHANGED <<webVars, edited, packetVars, plugged, armed, suppressed,
                   timers, timeouts, turbo, tick>>

(* The tick of schedule_turbo_tick(). *)
TurboTick ==
    LET now == IF settings.on THEN turbo
               ELSE [turbo EXCEPT !.active = {}, !.since = {}]
    IN  /\ tick
        /\ IF ~plugged
           THEN tick' = FALSE /\ UNCHANGED <<turbo, state, shown>>
           ELSE /\ turbo' = now
                /\ state' \in Rendered(now, {})
                /\ shown' = IF state' # state THEN state' ELSE shown
                /\ tick' = Ticking(now)
        /\ UNCHANGED <<webVars, edited, packetVars, backVars, plugged, armed,
                       suppressed, timers, timeouts>>

Next ==
    \/ \E s \in Saved : Upsert(s)
    \/ \E i \in Ids : RemoveShortcut(i)
    \/ SetTurbo
    \/ \E r \in SUBSET Inputs : Report(r)
    \/ Unplug \/ Arrival \/ ResetPad
    \/ \E t \in timers : HoldEnds(t)
    \/ \E n \in backTimers : BackEnds(n)
    \/ TurboTick

Spec == Init /\ [][Next]_comboVars

-----------------------------------------------------------------------------
(* "Release the held inputs for the host first so games never see the long *)
(* press": an input taken by a fired shortcut, or by a turbo gesture, is   *)
(* not shown to the game until the player lets go of it, whatever packets, *)
(* ticks and timers come in between.                                       *)
TakenStaysHidden == shown \cap (suppressed \cup turbo.hidden) = {}

(* The game never keeps seeing a button that the player does not hold: the *)
(* keys a shortcut or the Back emulation taps are released again, and no   *)
(* turbo pulse outlives its button.                                        *)
NoPhantomPress == shown \subseteq reported

(* A timer that would act belongs to a combination that is held, that no   *)
(* larger held combination takes precedence over, and whose inputs no      *)
(* other shortcut has taken, unless the shortcuts were changed while one   *)
(* was held; it is the only one of its shortcut.                           *)
FiresOnlyWhenHeld ==
    \A t \in timers :
        /\ t.fired.id \in armed /\ t.fired \in list =>
              /\ t.fired.keys \subseteq reported
              /\ edited \/ t.fired.keys \cap suppressed = {}
              /\ ~\E o \in list : o.enabled /\ o.keys \subseteq reported
                                  /\ t.fired.keys \subseteq o.keys
                                  /\ o.keys # t.fired.keys
        /\ \A u \in timers : u.fired.id = t.fired.id => u = t

(* A held turbo button keeps pulsing: it never stays released because no   *)
(* tick is scheduled.                                                      *)
PulseGoesOn == plugged /\ ~stale /\ Ticking(turbo) => tick

(* What shortcuts, turbo and the Back emulation do to a pad together. *)
CombosHold == TakenStaysHidden /\ NoPhantomPress /\ FiresOnlyWhenHeld
              /\ PulseGoesOn

-----------------------------------------------------------------------------
(* Not true of the code.  "Turbo buttons belong to one connected           *)
(* controller and reset when it reconnects" (docs/configuration.md:321):   *)
(* the packet that removes a pad leaves its trackers as they are.          *)
TurboResetsOnReconnect == plugged /\ stale => turbo.active = {}

(* Not true of the code.  "Any other armed shortcut sharing one of those   *)
(* inputs is disarmed" (steamshine_gamepad_shortcuts.h:250): fire() looks  *)
(* through the list its timer was started with, and does not disarm a      *)
(* shortcut that was saved, and armed by a later packet, after that.       *)
SharersAreDisarmed ==
    \A t \in timers : t.fired.id \in armed /\ t.fired \in list =>
                         t.fired.keys \cap suppressed = {}

(* Not true of the code: an armed shortcut has a timer.  One whose timer   *)
(* ended while the pad was away stays armed and never fires.               *)
ArmedHasTimer == \A i \in armed : \E t \in timers : t.fired.id = i

(* Not true of the code: a pad that was plugged in again and has sent      *)
(* nothing yet shows nothing.                                              *)
NothingBeforeFirstPacket == plugged /\ stale => shown = {}

(* Not true of the code: a Back timer means that Back is held.  Back is    *)
(* compared with what the game was shown, not with the last packet, so one *)
(* that a shortcut took gets a new timer with every packet, and none of    *)
(* them is cancelled when it is released.                                  *)
HomeNeedsBack == backTimers # {} => Back \in reported

(* Not true of the code: what a timer would send is what is saved.  A      *)
(* shortcut that is edited or removed while it is held fires as it was.    *)
FiresAsSaved == \A t \in timers : t.fired.id \in armed => t.fired \in shortcuts
=============================================================================
