------------------------------ MODULE InputKeys ------------------------------
(***************************************************************************)
(* Keyboard and mouse buttons (input.cpp): what the host sees, the tables  *)
(* that remember what is held, key repeat, the delayed release of the left *)
(* button, and the reset at the end of a session.  Packets, timers and the *)
(* reset run one after the other on the pool's worker; reset() itself runs *)
(* on the thread that joins the session and cancels timers at once.        *)
(***************************************************************************)
EXTENDS Naturals, FiniteSets

CONSTANTS
    Keys,        \* plain keys
    MaxEvents    \* bound: packets handled

VARIABLES
    keyPress,    \* key_press: keys tracked as held
    hostKeys,    \* keys the host sees held
    modHeld,     \* shift_keys, control_keys, alt_keys of the client's input
    flags,       \* shortcutFlags
    repeating,   \* the key a pending repeat_key task repeats, or none
    mousePress,  \* mouse_press
    hostButtons, \* buttons the host sees held
    leftTimeout, \* mouse_left_button_timeout: "none" (null), "off", "task"
    leftTask,    \* the delayed release of the left button is pending
    live,        \* a session uses the input
    resetTask,   \* reset_input_state is in the pool
    events       \* packets handled

keyVars == <<keyPress, hostKeys, modHeld, flags, repeating, mousePress,
             hostButtons, leftTimeout, leftTask, live, resetTask, events>>

Modifiers == {"shift", "ctrl", "alt"}
Sides == {"left", "right"}
ModKeys == Modifiers \X Sides
AllKeys == Keys \cup ModKeys
Buttons == {"left", "right"}
None == <<>>

Init ==
    /\ keyPress = {} /\ hostKeys = {} /\ modHeld = {} /\ flags = {}
    /\ repeating = None
    /\ mousePress = {} /\ hostButtons = {}
    /\ leftTimeout = "off" /\ leftTask = FALSE
    /\ live = TRUE /\ resetTask = FALSE /\ events = 0

(* A packet of the live session, taken from the queue by the worker. *)
Packet == live /\ events < MaxEvents /\ events' = events + 1

-----------------------------------------------------------------------------
(* update_modifier_state, before anything is filtered. *)
ModifierState(k, release) ==
    modHeld' = IF k \notin ModKeys THEN modHeld
               ELSE IF release THEN modHeld \ {k} ELSE modHeld \cup {k}

(* update_shortcutFlags: a flag falls when its last key is released. *)
ShortcutFlags(k, release) ==
    flags' = IF k \notin ModKeys THEN flags
             ELSE IF ~release THEN flags \cup {k[1]}
             ELSE IF \E m \in modHeld' : m[1] = k[1] THEN flags
             ELSE flags \ {k[1]}

(* Ctrl, Alt and Shift with a key that apply_shortcut() knows: swallowed.  *)
ApplyShortcut(k) == flags = Modifiers /\ k \in Keys

(* send_key_and_modifiers: synthetic modifiers are pressed and released    *)
(* around the key, so only the key itself changes what is held.            *)
SendKey(k, release) ==
    hostKeys' = IF release THEN hostKeys \ {k} ELSE hostKeys \cup {k}

(* A bug: a shortcut's key is marked as held. *)
KeyDownMarks(k) ==
    /\ Packet /\ ModifierState(k, FALSE)
    /\ IF k \in keyPress
       THEN UNCHANGED <<keyPress, hostKeys, flags, repeating>>
       ELSE /\ repeating' = k
            /\ IF ApplyShortcut(k) THEN UNCHANGED keyPress
               ELSE keyPress' = keyPress \cup {k}
            /\ SendKey(k, FALSE) /\ ShortcutFlags(k, FALSE)
    /\ UNCHANGED <<mousePress, hostButtons, leftTimeout, leftTask, live,
                   resetTask>>

KeyDown(k) ==
    /\ Packet /\ ModifierState(k, FALSE)
    /\ IF k \in keyPress \/ ApplyShortcut(k)
       THEN UNCHANGED <<keyPress, hostKeys, flags, repeating>>
       ELSE /\ repeating' = k
            /\ keyPress' = keyPress \cup {k}
            /\ SendKey(k, FALSE) /\ ShortcutFlags(k, FALSE)
    /\ UNCHANGED <<mousePress, hostButtons, leftTimeout, leftTask, live,
                   resetTask>>

KeyUp(k) ==
    /\ Packet /\ ModifierState(k, TRUE)
    /\ IF k \notin keyPress
       THEN UNCHANGED <<keyPress, hostKeys, flags>>
       ELSE /\ keyPress' = keyPress \ {k}
            /\ SendKey(k, TRUE) /\ ShortcutFlags(k, TRUE)
    /\ UNCHANGED <<repeating, mousePress, hostButtons, leftTimeout, leftTask,
                   live, resetTask>>

(* repeat_key: a key that was released meanwhile ends the repetition. *)
RepeatKey ==
    /\ repeating # None
    /\ IF repeating \in keyPress
       THEN SendKey(repeating, FALSE) /\ UNCHANGED repeating
       ELSE repeating' = None /\ UNCHANGED hostKeys
    /\ UNCHANGED <<keyPress, modHeld, flags, mousePress, hostButtons,
                   leftTimeout, leftTask, live, resetTask, events>>

-----------------------------------------------------------------------------
(* Relative motion switches the delayed release off, absolute motion on.   *)
MoveMouse(relative) ==
    /\ Packet
    /\ leftTimeout' = IF relative THEN "off"
                      ELSE IF leftTimeout = "off" THEN "none"
                      ELSE leftTimeout
    /\ UNCHANGED <<keyPress, hostKeys, modHeld, flags, repeating, mousePress,
                   hostButtons, leftTask, live, resetTask>>

ButtonDown(b) ==
    /\ Packet
    /\ b \notin mousePress
    /\ IF b = "right" /\ leftTimeout = "task"
       THEN UNCHANGED <<mousePress, hostButtons>>       \* a full click
       ELSE /\ mousePress' = mousePress \cup {b}
            /\ hostButtons' = hostButtons \cup {b}
    /\ UNCHANGED <<keyPress, hostKeys, modHeld, flags, repeating, leftTimeout,
                   leftTask, live, resetTask>>

(* After absolute motion the left button's release waits ten milliseconds. *)
ButtonUp(b) ==
    /\ Packet
    /\ b \in mousePress
    /\ mousePress' = mousePress \ {b}
    /\ IF b = "left" /\ leftTimeout = "none"
       THEN leftTimeout' = "task" /\ leftTask' = TRUE /\ UNCHANGED hostButtons
       ELSE hostButtons' = hostButtons \ {b} /\ UNCHANGED <<leftTimeout, leftTask>>
    /\ UNCHANGED <<keyPress, hostKeys, modHeld, flags, repeating, live,
                   resetTask>>

(* The delayed task: a left button pressed again meanwhile stays pressed.  *)
LeftRelease ==
    /\ leftTask /\ leftTask' = FALSE
    /\ IF "left" \in mousePress
       THEN UNCHANGED <<hostButtons, leftTimeout>>
       ELSE hostButtons' = hostButtons \ {"left"} /\ leftTimeout' = "none"
    /\ UNCHANGED <<keyPress, hostKeys, modHeld, flags, repeating, mousePress,
                   live, resetTask, events>>

-----------------------------------------------------------------------------
(* reset(): cancels the two timers, the repeat one unless it is just       *)
(* running, and hands the rest to the worker.                              *)
Reset ==
    /\ live /\ live' = FALSE
    /\ repeating' \in {None, repeating} /\ leftTask' = FALSE
    /\ resetTask' = TRUE
    /\ UNCHANGED <<keyPress, hostKeys, modHeld, flags, mousePress,
                   hostButtons, leftTimeout, events>>

(* reset_mouse_buttons, reset_keyboard_keys: release what is tracked.      *)
ResetState ==
    /\ resetTask /\ resetTask' = FALSE
    /\ hostButtons' = hostButtons \ mousePress /\ mousePress' = {}
    /\ hostKeys' = hostKeys \ keyPress /\ keyPress' = {}
    /\ UNCHANGED <<modHeld, flags, repeating, leftTimeout, leftTask, live,
                   events>>

(* refresh_virtual_input: the configuration was saved. *)
Refresh ==
    /\ repeating' = None
    /\ hostButtons' = hostButtons \ mousePress /\ mousePress' = {}
    /\ hostKeys' = hostKeys \ keyPress /\ keyPress' = {}
    /\ UNCHANGED <<modHeld, flags, leftTimeout, leftTask, live, resetTask,
                   events>>

(* alloc() of the same client's next session: the retained input. *)
Resume ==
    /\ ~live /\ events < MaxEvents /\ live' = TRUE
    /\ UNCHANGED <<keyPress, hostKeys, modHeld, flags, repeating, mousePress,
                   hostButtons, leftTimeout, leftTask, resetTask, events>>

Next ==
    \/ \E k \in AllKeys : KeyDown(k) \/ KeyUp(k)
    \/ \E b \in Buttons : ButtonDown(b) \/ ButtonUp(b)
    \/ \E relative \in BOOLEAN : MoveMouse(relative)
    \/ RepeatKey \/ LeftRelease \/ Reset \/ ResetState \/ Refresh \/ Resume

Spec == Init /\ [][Next]_keyVars

-----------------------------------------------------------------------------
(* No key is left held on the host without being tracked, so that a reset  *)
(* or a refresh releases it, whatever repeat timer is pending; the same    *)
(* holds for a button, the left one aside (see ResetIsComplete).           *)
HeldIsTracked ==
    /\ hostKeys = keyPress
    /\ hostButtons \ {"left"} = mousePress \ {"left"}

(* "Reset the object to its initial empty state": once the reset has run   *)
(* and before the next session, nothing of the ended session is held.      *)
ResetIsComplete ==
    ~live /\ ~resetTask => hostKeys = {} /\ hostButtons = {} /\ flags = {}
=============================================================================
