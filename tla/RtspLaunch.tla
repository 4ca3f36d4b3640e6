----------------------------- MODULE RtspLaunch -----------------------------
(***************************************************************************)
(* The one launch that waits for its RTSP handshake: raised by the HTTPS   *)
(* thread, discarded by a timer on the RTSP thread, cleared by the control *)
(* thread once the client's control stream connects.                       *)
(*                                                                         *)
(*   src/src/rtsp.cpp        session_raise, session_clear, handle_accept   *)
(*   src/src/stream.cpp      control_server_t::get_session                 *)
(*   src/src/thread_safe.h   event_t (launch_event)                        *)
(*                                                                         *)
(* Launch identifiers are counted from 1; 0 stands for none.               *)
(***************************************************************************)
EXTENDS Naturals

CONSTANTS
    Clients,
    Plain,      \* the clients without RTSP encryption and session IDs
    MaxLaunch   \* bound on session_id_counter

ASSUME PlainAssumption  == Plain \subseteq Clients
ASSUME LaunchAssumption == MaxLaunch \in Nat

VARIABLES
    count,      \* session_id_counter
    owner,      \* the client of each launch
    pending,    \* launch_event
    https,      \* the HTTPS thread: "idle", or in session_raise before "arm"
    armed,      \* the launch raised_timer was armed for
    expired,    \* launches whose timer expired: handlers not yet run
    socket,     \* the launch each client's RTSP connection was given
    sessions,   \* announced sessions: <<client, launch>>
    connected,  \* those with a control peer
    ctl         \* the control thread in session_clear: "idle", "cancel", "pop"

vars == <<count, owner, pending, https, armed, expired, socket, sessions,
          connected, ctl>>

Launches == 1..MaxLaunch

TypeOK ==
    /\ count \in 0..MaxLaunch
    /\ owner \in [Launches -> Clients]
    /\ pending \in 0..MaxLaunch
    /\ https \in {"idle", "arm"}
    /\ armed \in 0..MaxLaunch
    /\ expired \subseteq Launches
    /\ socket \in [Clients -> 0..MaxLaunch]
    /\ sessions \subseteq Clients \X Launches
    /\ connected \subseteq sessions
    /\ ctl \in {"idle", "cancel", "pop"}

Init ==
    /\ count = 0
    /\ owner \in [Launches -> Clients]
    /\ pending = 0
    /\ https = "idle"
    /\ armed = 0
    /\ expired = {}
    /\ socket = [c \in Clients |-> 0]
    /\ sessions = {}
    /\ connected = {}
    /\ ctl = "idle"

-----------------------------------------------------------------------------
(* /launch and /resume: session_raise keeps a launch that is pending, and  *)
(* drops the new one; the client is answered 200 either way.               *)
Launch ==
    /\ https = "idle"
    /\ count < MaxLaunch
    /\ count' = count + 1
    /\ IF pending = 0 THEN pending' = count' /\ https' = "arm"
                      ELSE UNCHANGED <<pending, https>>
    /\ UNCHANGED <<owner, armed, expired, socket, sessions, connected, ctl>>

(* expires_after and async_wait: an earlier wait is cancelled, not one     *)
(* whose handler is queued already.                                        *)
ArmForgets ==  \* mutant: the timer is armed the first time only
    /\ https = "arm"
    /\ https' = "idle"
    /\ armed' = IF count = 1 THEN count ELSE armed
    /\ UNCHANGED <<count, owner, pending, expired, socket, sessions, connected, ctl>>

Arm ==
    /\ https = "arm"
    /\ https' = "idle"
    /\ armed' = count
    /\ UNCHANGED <<count, owner, pending, expired, socket, sessions, connected, ctl>>

(* ping_timeout passes: the handler is queued for the RTSP thread. *)
TimerExpires ==
    /\ armed # 0
    /\ armed' = 0
    /\ expired' = expired \cup {armed}
    /\ UNCHANGED <<count, owner, pending, https, socket, sessions, connected, ctl>>

(* The handler pops whatever is pending by now. *)
Discard ==
    /\ \E l \in expired : expired' = expired \ {l}
    /\ pending' = 0
    /\ UNCHANGED <<count, owner, https, armed, socket, sessions, connected, ctl>>

(* A client has been answered: one of its launches is behind it. *)
Answered(c) ==
    \E l \in 1..count : owner[l] = c /\ ~(https = "arm" /\ l = count)

(* handle_accept: the connection is given the pending launch, whoever      *)
(* connects.  Without one it is closed.                                    *)
Accept(c) ==
    /\ Answered(c)
    /\ pending # 0 /\ socket[c] # pending
    /\ socket' = [socket EXCEPT ![c] = pending]
    /\ UNCHANGED <<count, owner, pending, https, armed, expired, sessions,
                   connected, ctl>>

(* ANNOUNCE on that connection; a request encrypted for another launch     *)
(* does not decrypt.                                                       *)
Announce(c) ==
    /\ socket[c] # 0
    /\ socket' = [socket EXCEPT ![c] = 0]
    /\ sessions' = IF c \in Plain \/ owner[socket[c]] = c
                   THEN sessions \cup {<<c, socket[c]>>} ELSE sessions
    /\ UNCHANGED <<count, owner, pending, https, armed, expired, connected, ctl>>

(* get_session: the client's control stream meets its session, by address  *)
(* (plain clients) or by its own launch's connect data.  The launch is     *)
(* cleared when it is the one that is pending.                             *)
Matches(c, l) == <<c, l>> \in sessions \ connected /\ (c \in Plain \/ owner[l] = c)

ControlConnect(c, l) ==
    /\ ctl = "idle"
    /\ Matches(c, l)
    /\ connected' = connected \cup {<<c, l>>}
    /\ ctl' = IF pending = l THEN "cancel" ELSE "idle"
    /\ UNCHANGED <<count, owner, pending, https, armed, expired, socket, sessions>>

ClearCancelOnly ==  \* mutant: the launch is not popped
    /\ ctl = "cancel"
    /\ ctl' = "idle"
    /\ armed' = 0
    /\ UNCHANGED <<count, owner, pending, https, expired, socket, sessions, connected>>

ClearCancel ==
    /\ ctl = "cancel"
    /\ ctl' = "pop"
    /\ armed' = 0
    /\ UNCHANGED <<count, owner, pending, https, expired, socket, sessions, connected>>

(* launch_event.pop() without a delay: it waits for a launch. *)
ClearPop ==
    /\ ctl = "pop"
    /\ pending # 0
    /\ ctl' = "idle"
    /\ pending' = 0
    /\ UNCHANGED <<count, owner, https, armed, expired, socket, sessions, connected>>

(* A session ends, with the list's lock held. *)
SessionEnds(c, l) ==
    /\ ctl = "idle"
    /\ <<c, l>> \in sessions
    /\ sessions' = sessions \ {<<c, l>>}
    /\ connected' = connected \ {<<c, l>>}
    /\ UNCHANGED <<count, owner, pending, https, armed, expired, socket, ctl>>

-----------------------------------------------------------------------------
Next ==
    \/ Launch \/ Arm \/ TimerExpires \/ Discard \/ ClearCancel \/ ClearPop
    \/ \E c \in Clients : Accept(c) \/ Announce(c)
    \/ \E c \in Clients, l \in Launches : ControlConnect(c, l) \/ SessionEnds(c, l)

Spec == Init /\ [][Next]_vars

(* Time passes, and threads go on.  What clients do is free. *)
Fairness ==
    /\ WF_vars(Arm)
    /\ WF_vars(TimerExpires)
    /\ WF_vars(Discard)
    /\ WF_vars(ClearCancel)
    /\ WF_vars(ClearPop)

FairSpec == Spec /\ Fairness

-----------------------------------------------------------------------------
(* A launch never stays pending with nobody left to remove it: its timer   *)
(* is armed or about to be, an expired handler is queued, or the control   *)
(* thread is about to pop it.  A launch that stayed would make             *)
(* session_raise drop every later one.                                     *)
PendingIsRemoved ==
    pending # 0 => armed # 0 \/ https = "arm" \/ expired # {} \/ ctl = "pop"

(* session_raise: "If the client does not begin streaming within the       *)
(* ping_timeout, the session will be discarded": no launch stays pending.  *)
LaunchDiscarded == \A l \in Launches : pending = l ~> pending # l

-----------------------------------------------------------------------------
(* What the repository says and this model contradicts (README,            *)
(* "Findings" and "Observations").                                         *)

(* session_raise: "Arm the timer to expire this launch session";           *)
(* session_clear: "The ID of the session to clear": a pending launch is    *)
(* removed only when its own timer expired or its own client connected.    *)
OnlyOwnLaunchRemoved ==
    [][pending # 0 /\ pending' = 0 =>
          \/ pending \in expired
          \/ \E c \in Clients : <<c, pending>> \in connected]_vars

(* session_clear: "the ID should always match": when a control stream      *)
(* connects, no other launch is pending.                                   *)
ClearedIdMatches ==
    [][\A c \in Clients, l \in Launches :
          <<c, l>> \in connected' \ connected => pending \in {0, l}]_vars
=============================================================================
