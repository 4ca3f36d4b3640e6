----------------------------- MODULE WebSessions -----------------------------
(***************************************************************************)
(* Credentials, browser sessions, login limits and lifecycle requests of   *)
(* the web interface (confighttp.cpp, web_services.cpp). Handlers run one  *)
(* at a time on the server's thread; lifecycle actions run on threads of   *)
(* their own. Sessions are kept in a file that outlives the process.       *)
(***************************************************************************)
EXTENDS Naturals, Sequences, FiniteSets

CONSTANTS
    Ids,          \* session identifiers, each issued once
    Lifetime,     \* of a session, in ticks
    Limit,        \* failed logins allowed per window (5)
    Window,       \* of the login limit, in ticks
    MaxTime,      \* bound: ticks
    MaxCreds      \* bound: credentials ever set

VARIABLES
    creds,        \* config::sunshine credentials: 0 unset, else a version
    issued,       \* identifiers used up
    sessions,     \* sessions_: id -> [creds, until], absent ids unmapped
    stored,       \* the session file
    attempts,     \* steamshine_login_attempts of one address
    token,        \* the client's CSRF token: <<>> or <<creds-client, until>>
    changing,     \* credentials saved, sessions not invalidated yet
    pending,      \* steamshine_lifecycle_pending
    actions,      \* lifecycle threads: kind -> number running
    now,
    ended,        \* history: sessions logged out or invalidated
    unsaved       \* history: sessions whose removal the disk never saw

webVars == <<creds, issued, sessions, stored, attempts, token, changing,
             pending, actions, now, ended, unsaved>>

Kinds == {"restart", "quit", "shutdown"}
Empty == [i \in {} |-> 0]

Init ==
    /\ creds = 0 /\ issued = {} /\ sessions = Empty /\ stored = Empty
    /\ attempts = <<>> /\ token = <<>> /\ changing = FALSE
    /\ pending = FALSE /\ actions = [k \in Kinds |-> 0]
    /\ now = 0 /\ ended = {} /\ unsaved = {}

Only(f, S) == [i \in S \cap DOMAIN f |-> f[i]]

(* purge_expired() *)
Unexpired(f) == Only(f, {i \in DOMAIN f : f[i].until > now})

(* persist_locked(): a temporary file renamed over the old one, or nothing *)
(* when a step fails; the callers carry on.                                *)
Persist(f) ==
    \/ stored' = f /\ unsaved' = unsaved \cap DOMAIN f
    \/ stored' = stored /\ unsaved' = unsaved \cup (DOMAIN stored \ DOMAIN f)

(* What validate() leaves: expired sessions gone, and the session itself   *)
(* when it was issued for other credentials.                               *)
Valid(i) == LET f == Unexpired(sessions)
            IN  i \in DOMAIN f /\ f[i].creds = creds
AfterValidate(i) ==
    LET f == Unexpired(sessions)
    IN  IF i \in DOMAIN f /\ f[i].creds # creds
        THEN Only(f, Ids \ {i}) ELSE f

(* require_steamshine_session() and _mutation(): origin, address and CSRF  *)
(* token are the caller's; what can be stale is the session.               *)
Refuse(i) ==
    /\ i \in issued /\ ~Valid(i) /\ ~changing
    /\ sessions' = AfterValidate(i)
    /\ IF sessions' = sessions THEN UNCHANGED <<stored, unsaved>>
       ELSE Persist(sessions')
    /\ UNCHANGED <<creds, issued, attempts, token, changing, pending,
                   actions, now, ended>>

Recent == SelectSeq(attempts, LAMBDA t : t + Window > now)
Exhausted == Len(Recent) >= Limit

(* steamshine_login(): refused at the limit, recorded when it fails.       *)
LoginRefused ==
    /\ creds # 0 /\ ~changing /\ Exhausted /\ attempts' = Recent
    /\ UNCHANGED <<creds, issued, sessions, stored, token, changing,
                   pending, actions, now, ended, unsaved>>

LoginFails ==
    /\ ~changing /\ ~Exhausted
    /\ attempts' = Append(Recent, now)
    /\ UNCHANGED <<creds, issued, sessions, stored, token, changing,
                   pending, actions, now, ended, unsaved>>

Login(i) ==
    /\ creds # 0 /\ ~changing /\ ~Exhausted /\ i \notin issued
    /\ issued' = issued \cup {i} /\ attempts' = <<>>
    /\ sessions' = [j \in {i} \cup DOMAIN Unexpired(sessions) |->
                      IF j = i THEN [creds |-> creds, until |-> now + Lifetime]
                      ELSE sessions[j]]
    /\ Persist(sessions')
    /\ UNCHANGED <<creds, token, changing, pending, actions, now, ended>>

Logout(i) ==
    /\ Valid(i) /\ ~changing
    /\ sessions' = Only(AfterValidate(i), Ids \ {i})
    /\ Persist(sessions')
    /\ ended' = ended \cup {i}
    /\ UNCHANGED <<creds, issued, attempts, token, changing, pending,
                   actions, now>>

(* A bug: a new password keeps the version sessions are compared with. *)
SaveCredsSame ==
    /\ ~changing /\ creds < MaxCreds
    /\ creds' = (IF creds = 0 THEN 1 ELSE creds) /\ changing' = TRUE
    /\ ended' = ended \cup issued
    /\ UNCHANGED <<issued, sessions, stored, attempts, token, pending,
                   actions, now, unsaved>>

(* CredentialService::save() for savePassword() and the first setup: the   *)
(* credentials file is written and reloaded.                               *)
SaveCreds ==
    /\ ~changing /\ creds < MaxCreds
    /\ creds' = creds + 1 /\ changing' = TRUE
    /\ ended' = ended \cup issued
    /\ UNCHANGED <<issued, sessions, stored, attempts, token, pending,
                   actions, now, unsaved>>

(* invalidate_all(), the handler's next step. *)
Invalidate ==
    /\ changing /\ changing' = FALSE
    /\ sessions' = Empty /\ Persist(Empty)
    /\ UNCHANGED <<creds, issued, attempts, token, pending, actions, now,
                   ended>>

(* generate_csrf_token() for the upstream pages, one per client.           *)
IssueToken ==
    /\ creds # 0 /\ ~changing /\ token' = <<creds, now + Lifetime>>
    /\ UNCHANGED <<creds, issued, sessions, stored, attempts, changing,
                   pending, actions, now, ended, unsaved>>

(* validate_stored_csrf_token(): an expired token is forgotten.            *)
UseToken ==
    /\ token # <<>> /\ ~changing
    /\ token' = IF token[2] < now THEN <<>> ELSE token
    /\ UNCHANGED <<creds, issued, sessions, stored, attempts, changing,
                   pending, actions, now, ended, unsaved>>

-----------------------------------------------------------------------------
(* steamshine_lifecycle() and steamshine_shutdown_host(): the flag is      *)
(* taken once, the answer sent and a detached thread started.              *)
Lifecycle(k) ==
    /\ \E i \in Ids : Valid(i)
    /\ ~changing /\ ~pending /\ pending' = TRUE
    /\ actions' = [actions EXCEPT ![k] = @ + 1]
    /\ UNCHANGED <<creds, issued, sessions, stored, attempts, token, changing,
                   now, ended, unsaved>>

(* request_host_shutdown() was refused: the flag is given back.            *)
ShutdownRejected ==
    /\ actions["shutdown"] > 0
    /\ actions' = [actions EXCEPT !["shutdown"] = @ - 1]
    /\ pending' = FALSE
    /\ UNCHANGED <<creds, issued, sessions, stored, attempts, token, changing,
                   now, ended, unsaved>>

(* load_persisted(): the process ends, by such an action or a crash, and   *)
(* its successor reads the credentials and the sessions not yet expired.   *)
Restart ==
    /\ sessions' = Unexpired(stored)
    /\ attempts' = <<>> /\ token' = <<>> /\ changing' = FALSE
    /\ pending' = FALSE /\ actions' = [k \in Kinds |-> 0]
    /\ UNCHANGED <<creds, issued, stored, now, ended, unsaved>>

Tick ==
    /\ now < MaxTime /\ now' = now + 1
    /\ UNCHANGED <<creds, issued, sessions, stored, attempts, token, changing,
                   pending, actions, ended, unsaved>>

Next ==
    \/ \E i \in Ids : Refuse(i) \/ Login(i) \/ Logout(i)
    \/ LoginRefused \/ LoginFails \/ SaveCreds \/ Invalidate
    \/ IssueToken \/ UseToken
    \/ \E k \in Kinds : Lifecycle(k)
    \/ ShutdownRejected \/ Restart \/ Tick

Spec == Init /\ [][Next]_webVars

-----------------------------------------------------------------------------
(* A session that was logged out, or that belongs to credentials replaced  *)
(* since, is never accepted again: not between the save of the new         *)
(* credentials and the invalidation, and not by a successor process that   *)
(* reads an old session file. The exception is a logout whose save to disk *)
(* failed, which a restart undoes.                                         *)
EndedStaysEnded ==
    \A i \in Ids : Valid(i) => i \notin ended \/ i \in unsaved
=============================================================================
