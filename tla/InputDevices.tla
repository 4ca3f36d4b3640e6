---------------------------- MODULE InputDevices ----------------------------
(***************************************************************************)
(* Where a client's input ends up on Linux: the libei sender bound to the  *)
(* selected Gamescope session (linux/input/gamescope_eis_input.cpp), the   *)
(* virtual desktop devices (virtualhid_input.cpp), the primary button that *)
(* touch and pen share (gamescope_pointer_state.h), and the feedback of a  *)
(* virtual gamepad.  The virtual session is a generation that others       *)
(* select, lose and replace while input arrives.                           *)
(***************************************************************************)
EXTENDS Naturals

CONSTANTS
    MaxGenerations,  \* bound: sessions selected
    Pauses,          \* BOOLEAN: the compositor may pause its devices
    Padders,         \* sessions a gamepad is bound to
    Levels           \* what a game asks of a gamepad, none of them 0

VARIABLES
    generation,  \* of the selected session, 0 without one
    used,        \* generations handed out
    alive,       \* the selected compositor is the process that was selected
    conn,        \* the generation the sender is connected to, or 0
    offered,     \* the compositor has resumed its devices
    active,      \* ready_locked()
    backoff,     \* now < retry_after_
    pressed,     \* what this connection holds in the compositor
    desk,        \* what is held on the desktop devices
    touchHeld, penHeld,  \* gamescope_pointer_state_t
    steady,      \* ghost: the connection began with nothing held
    client,      \* what the client holds
    event,       \* the touch or pen event between its route and its button
    pad,         \* "none", or the session the gamepad's feedback goes to
    level,       \* what the game last asked of the bound gamepad, or 0
    last,        \* has_last_rumble with its value, or 0
    told         \* the level that session has been sent, or 0

eisVars == <<conn, offered, active, backoff, pressed, steady>>
sessionVars == <<generation, used, alive>>
padVars == <<pad, level, last, told>>
holdVars == <<touchHeld, penHeld>>
inputVars == <<generation, used, alive, conn, offered, active, backoff,
               pressed, desk, touchHeld, penHeld, steady, client, event, pad,
               level, last, told>>

Keys == {"key", "mouse"}     \* transitions that are sent as they are
Pointers == {"touch", "pen"} \* transitions folded into the primary button
NoEvent == <<"none", "none">>

Init ==
    /\ generation = 0 /\ used = 0 /\ alive = FALSE
    /\ conn = 0 /\ offered = FALSE /\ active = FALSE /\ backoff = FALSE
    /\ pressed = {} /\ desk = {} /\ touchHeld = FALSE /\ penHeld = FALSE
    /\ steady = TRUE /\ client = {} /\ event = NoEvent
    /\ pad = "none" /\ level = 0 /\ last = 0 /\ told = 0

-----------------------------------------------------------------------------
(* The virtual session, seen from here: gamescope_input_required() and     *)
(* gamescope_input_generation().                                           *)
Select ==
    /\ used < MaxGenerations
    /\ used' = used + 1 /\ generation' = used + 1 /\ alive' = TRUE
    /\ UNCHANGED <<eisVars, holdVars, desk, client, event, padVars>>

Lose ==
    /\ generation # 0 /\ generation' = 0 /\ alive' = FALSE
    /\ UNCHANGED <<eisVars, holdVars, used, desk, client, event, padVars>>

Die ==
    /\ alive /\ alive' = FALSE
    /\ UNCHANGED <<eisVars, holdVars, generation, used, desk, client, event,
                   padVars>>

(* The compositor resumes the devices it announced, and may pause them. *)
Offer ==
    /\ conn # 0 /\ alive
    /\ offered' = ~offered /\ (offered => Pauses)
    /\ UNCHANGED <<sessionVars, conn, active, backoff, pressed, steady,
                   holdVars, desk, client, event, padVars>>

RetryDue ==
    /\ backoff /\ backoff' = FALSE
    /\ UNCHANGED <<sessionVars, conn, offered, active, pressed, steady,
                   holdVars, desk, client, event, padVars>>

-----------------------------------------------------------------------------
(* disconnect_locked(): the compositor releases what the connection held. *)
Closed(retry) ==
    [conn |-> 0, offered |-> FALSE, active |-> FALSE, backoff |-> retry,
     pressed |-> {}, steady |-> TRUE]

Same == [conn |-> conn, offered |-> offered, active |-> active,
         backoff |-> backoff, pressed |-> pressed, steady |-> steady]

(* open_verified_gamescope_input() and the libei context on its socket. *)
Opened(ready) ==
    [conn |-> generation, offered |-> ready, active |-> ready,
     backoff |-> FALSE, pressed |-> {},
     steady |-> ~touchHeld /\ ~penHeld /\ event = NoEvent]

(* pump_locked(): the devices the compositor resumed or paused so far. *)
Pumped == [Same EXCEPT !.active = offered]

(* The route of refresh_locked() and what becomes of the connection. *)
Current == conn # 0 /\ alive /\ conn = generation
Outcome(route, eis) == [route |-> route, eis |-> eis]

Desktop == {Outcome("desktop", Closed(FALSE))}

WithContext(wait) ==
    {Outcome("blocked", Closed(TRUE))}       \* the compositor hung up
    \cup IF offered THEN {Outcome("delivered", Pumped)}
         ELSE IF wait
              THEN {Outcome("delivered",
                            [Pumped EXCEPT !.active = TRUE, !.offered = TRUE,
                                           !.backoff = FALSE])}
              ELSE {Outcome("blocked", Pumped)}

WithoutContext(wait) ==
    {Outcome("blocked", Closed(TRUE))}       \* refused, or no devices
    \cup IF ~alive THEN {}
         ELSE IF wait THEN {Outcome("delivered", Opened(TRUE))}
                      ELSE {Outcome("blocked", Opened(FALSE))}

Refresh(wait) ==
    IF generation = 0 THEN Desktop
    ELSE IF conn = 0 /\ backoff THEN {Outcome("blocked", Same)}
    ELSE IF Current THEN WithContext(wait)
    ELSE WithoutContext(wait)

Becomes(eis) ==
    /\ conn' = eis.conn /\ offered' = eis.offered /\ active' = eis.active
    /\ backoff' = eis.backoff /\ pressed' = eis.pressed
    /\ steady' = eis.steady

Change(held, what, down) == IF down THEN held \cup {what} ELSE held \ {what}

(* send_locked(): a transition reaches the compositor or it does not. *)
Sent(r, what, down) ==
    IF r.route = "delivered"
    THEN [r.eis EXCEPT !.pressed = Change(@, what, down)] ELSE r.eis

-----------------------------------------------------------------------------
(* keyboard_update() and button_mouse(). *)
Key(k, down) ==
    /\ event = NoEvent /\ (k \in client) # down
    /\ client' = Change(client, k, down)
    /\ \E r \in Refresh(FALSE) :
          /\ Becomes(Sent(r, k, down))
          /\ desk' = IF r.route = "desktop" THEN Change(desk, k, down)
                                            ELSE desk
    /\ UNCHANGED <<sessionVars, holdVars, event, padVars>>

(* unicode(), and a key without a Linux code, move_mouse(), scroll(): the  *)
(* route is refreshed and nothing is held.                                 *)
Unheld(wait) ==
    /\ event = NoEvent
    /\ \E r \in Refresh(wait) : Becomes(r.eis)
    /\ UNCHANGED <<sessionVars, holdVars, desk, client, event, padVars>>

(* touch_update() and pen_update(): the route is asked for first. *)
Route(p, down) ==
    /\ event = NoEvent /\ (p \in client) # down
    /\ client' = Change(client, p, down)
    /\ \E r \in Refresh(TRUE) :
          /\ Becomes(r.eis)
          /\ event' = IF r.route = "delivered"
                      THEN <<p, IF down THEN "down" ELSE "up">> ELSE NoEvent
          /\ desk' = IF r.route = "desktop" THEN Change(desk, p, down)
                                            ELSE desk
          /\ IF r.route = "blocked"
             THEN touchHeld' = FALSE /\ penHeld' = FALSE
             ELSE UNCHANGED holdVars
    /\ UNCHANGED <<sessionVars, padVars>>

(* update(): the transition of the combined hold, if there is one. *)
Combined(touch, pen) == touch \/ pen
TransitionAlways(p, down) == TRUE
Transition(p, down) ==
    LET touch == IF p = "touch" THEN down ELSE touchHeld
        pen   == IF p = "pen" THEN down ELSE penHeld
    IN  Combined(touch, pen) # Combined(touchHeld, penHeld)

Button ==
    /\ event # NoEvent
    /\ LET p == event[1]
           down == event[2] = "down"
       IN  /\ touchHeld' = IF p = "touch" THEN down ELSE touchHeld
           /\ penHeld' = IF p = "pen" THEN down ELSE penHeld
           /\ IF Transition(p, down)
              THEN \E r \in Refresh(FALSE) : Becomes(Sent(r, "left", down))
              ELSE \E r \in Refresh(FALSE) : Becomes(r.eis)  \* move_absolute
    /\ event' = NoEvent
    /\ UNCHANGED <<sessionVars, desk, client, padVars>>

(* ~client_context_t: the button is released and its devices go away. *)
Leave ==
    /\ event = NoEvent
    /\ IF touchHeld \/ penHeld
       THEN \E r \in Refresh(FALSE) : Becomes(Sent(r, "left", FALSE))
       ELSE UNCHANGED eisVars
    /\ touchHeld' = FALSE /\ penHeld' = FALSE
    /\ desk' = desk \ Pointers /\ client' = client \ Pointers
    /\ UNCHANGED <<sessionVars, event, padVars>>

-----------------------------------------------------------------------------
(* alloc_gamepad(), rebind_gamepad() and free_gamepad(). *)
BindKeepsLast(s) ==
    /\ pad # s
    /\ pad' = s /\ told' = 0 /\ UNCHANGED last
    /\ level' = 0
    /\ UNCHANGED <<sessionVars, eisVars, holdVars, desk, client, event>>
Bind(s) ==
    /\ pad # s
    /\ pad' = s /\ told' = 0 /\ last' = 0
    /\ level' = 0
    /\ UNCHANGED <<sessionVars, eisVars, holdVars, desk, client, event>>

Free ==
    /\ pad # "none" /\ pad' = "none"
    /\ level' = 0 /\ last' = 0 /\ told' = 0
    /\ UNCHANGED <<sessionVars, eisVars, holdVars, desk, client, event>>

(* handle_output(): what has not changed is not sent again. *)
Output(l) ==
    /\ pad # "none" /\ level' = l
    /\ IF last = l THEN UNCHANGED <<last, told>>
                   ELSE last' = l /\ told' = l
    /\ UNCHANGED <<sessionVars, eisVars, holdVars, desk, client, event, pad>>

-----------------------------------------------------------------------------
Next ==
    \/ Select \/ Lose \/ Die \/ Offer \/ RetryDue \/ Button \/ Leave \/ Free
    \/ \E k \in Keys, d \in BOOLEAN : Key(k, d)
    \/ \E p \in Pointers, d \in BOOLEAN : Route(p, d)
    \/ \E w \in BOOLEAN : Unheld(w)
    \/ \E s \in Padders : Bind(s)
    \/ \E l \in Levels : Output(l)

-----------------------------------------------------------------------------
(* Touch and pen hold one button: as long as a connection that began with  *)
(* neither held lasts, the compositor sees the button down exactly while   *)
(* one of them is, whichever of them was released first.                   *)
HoldIsShared ==
    conn # 0 /\ steady /\ event = NoEvent =>
        (("left" \in pressed) <=> (touchHeld \/ penHeld))

(* The session a gamepad is bound to has been sent what the game asked of  *)
(* it last, if the game asked since the pad was bound.                     *)
FeedbackIsCurrent == level # 0 => told = level

(* The code does not promise these two.  A tap presses the button:         *)
(* touchHeld survives the end of a session, because the route to the       *)
(* desktop does not reset it, and the first tap of the next session is no  *)
(* transition.                                                             *)
TapPresses ==
    [][event # NoEvent /\ event[2] = "down" /\ conn # 0 /\ conn' = conn =>
         "left" \in pressed']_inputVars

(* What the client let go of is not held on the desktop: a release goes    *)
(* where input is routed then, not where the press went.                   *)
NoStuckDesktopKey == desk \subseteq client
=============================================================================
