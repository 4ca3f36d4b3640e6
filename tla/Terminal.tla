------------------------------ MODULE Terminal ------------------------------
(***************************************************************************)
(* The web terminal (steamshine_terminal.cpp and the WebSocket side of     *)
(* confighttp.cpp): shells kept by tmux or by this process, one attachment *)
(* and reader thread per shell, one thread per browser connection, the     *)
(* server's thread that creates and ends shells, and the shutdown.         *)
(***************************************************************************)
EXTENDS Naturals, FiniteSets

CONSTANTS
    Shells,       \* terminal sessions, each created once
    Persistent,   \* the ones tmux keeps outside this process
    Conns         \* browser connections

VARIABLES
    backend,      \* shell -> "none", "up", "down": tmux session or process
    known,        \* the sessions map
    attached,     \* shell -> master_fd and pid are set
    reader,       \* shell -> "none", "reading", "eof"
    stopping,     \* shell -> explicit end or shutdown has begun
    subs,         \* shell -> connections subscribed to its output
    conn,         \* connection -> where its thread is
    target,       \* connection -> the shell it asked for
    peer,         \* connection -> its transport is open
    registered,   \* terminal_connection_registry_t
    webOp,        \* the server thread's stop(): <<step, shell>>, <<>> idle
    service,      \* "up", "stop", "closed", "detach", "down"
    acceptor      \* "loop", "join", "done"

termVars == <<backend, known, attached, reader, stopping, subs, conn, target,
              peer, registered, webOp, service, acceptor>>

Idle == <<>>
Any == CHOOSE s \in Shells : TRUE

Init ==
    /\ backend = [s \in Shells |-> "none"] /\ known = {}
    /\ attached = [s \in Shells |-> FALSE]
    /\ reader = [s \in Shells |-> "none"]
    /\ stopping = [s \in Shells |-> FALSE]
    /\ subs = [s \in Shells |-> {}]
    /\ conn = [c \in Conns |-> "none"] /\ target = [c \in Conns |-> Any]
    /\ peer = [c \in Conns |-> FALSE] /\ registered = {}
    /\ webOp = Idle /\ service = "up" /\ acceptor = "loop"

shellVars == <<backend, known, attached, reader, stopping>>
connVars == <<subs, conn, target, peer, registered>>

(* create(): a tmux session, or a shell with its attachment and reader.    *)
Create(s) ==
    /\ webOp = Idle /\ service = "up" /\ backend[s] = "none"
    /\ backend' = [backend EXCEPT ![s] = "up"] /\ known' = known \cup {s}
    /\ IF s \in Persistent THEN UNCHANGED <<attached, reader>>
       ELSE /\ attached' = [attached EXCEPT ![s] = TRUE]
            /\ reader' = [reader EXCEPT ![s] = "reading"]
    /\ UNCHANGED <<stopping, webOp, service, acceptor>> /\ UNCHANGED connVars

(* The user leaves the shell: its processes go. *)
ShellExit(s) ==
    /\ backend[s] = "up" /\ backend' = [backend EXCEPT ![s] = "down"]
    /\ UNCHANGED <<known, attached, reader, stopping, webOp, service,
                   acceptor>> /\ UNCHANGED connVars

(* reader_loop(): read() fails once the shell or the attaching tmux client *)
(* is gone or killed; then, under pty_mutex, the descriptor is closed and  *)
(* the child collected.                                                    *)
ReaderEof(s) ==
    /\ reader[s] = "reading" /\ (backend[s] = "down" \/ stopping[s])
    /\ reader' = [reader EXCEPT ![s] = "eof"]
    /\ UNCHANGED <<backend, known, attached, stopping, webOp, service,
                   acceptor>> /\ UNCHANGED connVars

ReaderClose(s) ==
    /\ reader[s] = "eof" /\ reader' = [reader EXCEPT ![s] = "none"]
    /\ attached' = [attached EXCEPT ![s] = FALSE]
    /\ backend' = [backend EXCEPT ![s] =
                      IF s \in Persistent THEN @ ELSE "down"]
    /\ UNCHANGED <<known, stopping, webOp, service, acceptor>>
    /\ UNCHANGED connVars

(* synchronize_tmux_sessions(), from list(), stop() and running(): a tmux  *)
(* session that is not in the map is recovered.                            *)
Recovered == known \cup {s \in Persistent : backend[s] = "up"}

Synchronize ==
    /\ service # "down" /\ known' = Recovered /\ known' # known
    /\ UNCHANGED <<backend, attached, reader, stopping, webOp, service,
                   acceptor>> /\ UNCHANGED connVars

(* stop(): kill the tmux session; stop_attachment() marks the session and  *)
(* kills the attachment, waits for the reader and drops the subscribers;   *)
(* then the map forgets the session.                                       *)
StopKill(s) ==
    /\ webOp = Idle /\ service = "up" /\ s \in known
    /\ webOp' = <<"mark", s>>
    /\ backend' = [backend EXCEPT ![s] =
                      IF s \in Persistent THEN "down" ELSE @]
    /\ UNCHANGED <<known, attached, reader, stopping, service, acceptor>>
    /\ UNCHANGED connVars

StopMark ==
    /\ webOp # Idle /\ webOp[1] = "mark" /\ webOp' = <<"join", webOp[2]>>
    /\ stopping' = [stopping EXCEPT ![webOp[2]] = TRUE]
    /\ UNCHANGED <<backend, known, attached, reader, service, acceptor>>
    /\ UNCHANGED connVars

(* A bug: the reader's thread is not waited for. *)
StopJoinUnwaited ==
    /\ webOp # Idle /\ webOp[1] = "join"
    /\ subs' = [subs EXCEPT ![webOp[2]] = {}]
    /\ known' = known \ {webOp[2]} /\ webOp' = Idle
    /\ UNCHANGED <<backend, attached, reader, stopping, conn, target, peer,
                   registered, service, acceptor>>

StopJoin ==
    /\ webOp # Idle /\ webOp[1] = "join" /\ reader[webOp[2]] = "none"
    /\ subs' = [subs EXCEPT ![webOp[2]] = {}]
    /\ known' = known \ {webOp[2]} /\ webOp' = Idle
    /\ UNCHANGED <<backend, attached, reader, stopping, conn, target, peer,
                   registered, service, acceptor>>

-----------------------------------------------------------------------------
At(c, step) == conn[c] = step
Go(c, step) == conn' = [conn EXCEPT ![c] = step]

(* The acceptor starts a thread per connection. *)
AcceptConn(c) ==
    /\ acceptor = "loop" /\ service = "up" /\ At(c, "none")
    /\ Go(c, "accepted") /\ peer' = [peer EXCEPT ![c] = TRUE]
    /\ UNCHANGED <<subs, target, registered, webOp, service, acceptor>>
    /\ UNCHANGED shellVars

Register(c) ==
    /\ At(c, "accepted") /\ Go(c, "open")
    /\ registered' = registered \cup {c}
    /\ UNCHANGED <<subs, target, peer, webOp, service, acceptor>>
    /\ UNCHANGED shellVars

(* The first message names a shell; running() looks at it. *)
Authenticate(c, s) ==
    /\ At(c, "open") /\ peer[c]
    /\ known' = Recovered /\ s \in known'
    /\ IF s \in Persistent THEN backend[s] = "up"
       ELSE attached[s] /\ ~stopping[s]
    /\ Go(c, "found") /\ target' = [target EXCEPT ![c] = s]
    /\ UNCHANGED <<backend, attached, reader, stopping, subs, peer,
                   registered, webOp, service, acceptor>>

(* ensure_tmux_attachment() *)
Attach(c) ==
    LET s == target[c]
    IN  /\ At(c, "found")
        /\ \/ /\ s \notin Persistent \/ (~stopping[s] /\ attached[s])
              /\ Go(c, "attached") /\ UNCHANGED <<attached, reader>>
           \/ /\ s \in Persistent /\ ~stopping[s] /\ ~attached[s]
              /\ backend[s] = "up" /\ Go(c, "attached")
              /\ attached' = [attached EXCEPT ![s] = TRUE]
              /\ reader' = [reader EXCEPT ![s] = "reading"]
           \/ /\ s \in Persistent
              /\ stopping[s] \/ (~attached[s] /\ backend[s] # "up")
              /\ Go(c, "leave") /\ UNCHANGED <<attached, reader>>
        /\ UNCHANGED <<backend, known, stopping, subs, target, peer,
                       registered, webOp, service, acceptor>>

Subscribe(c) ==
    /\ At(c, "attached") /\ Go(c, "subscribed")
    /\ subs' = [subs EXCEPT ![target[c]] = @ \cup {c}]
    /\ UNCHANGED <<target, peer, registered, webOp, service, acceptor>>
    /\ UNCHANGED shellVars

(* The ready message: when its write throws, authenticated is still false. *)
Ready(c) ==
    /\ At(c, "subscribed")
    /\ Go(c, IF peer[c] THEN "authenticated" ELSE "leave")
    /\ UNCHANGED <<subs, target, peer, registered, webOp, service, acceptor>>
    /\ UNCHANGED shellVars

(* The read loop ends with the transport. unsubscribe() needs the session  *)
(* in the map.                                                             *)
Unsubscribe(c) ==
    /\ At(c, "authenticated") /\ ~peer[c] /\ Go(c, "leave")
    /\ subs' = IF target[c] \in known
               THEN [subs EXCEPT ![target[c]] = @ \ {c}] ELSE subs
    /\ UNCHANGED <<target, peer, registered, webOp, service, acceptor>>
    /\ UNCHANGED shellVars

LeaveConn(c) ==
    /\ At(c, "leave") \/ (At(c, "open") /\ ~peer[c])
    /\ Go(c, "gone") /\ registered' = registered \ {c}
    /\ peer' = [peer EXCEPT ![c] = FALSE]
    /\ UNCHANGED <<subs, target, webOp, service, acceptor>>
    /\ UNCHANGED shellVars

(* The browser closes or loses the connection. *)
PeerCloses(c) ==
    /\ peer[c] /\ peer' = [peer EXCEPT ![c] = FALSE]
    /\ UNCHANGED <<subs, conn, target, registered, webOp, service, acceptor>>
    /\ UNCHANGED shellVars

-----------------------------------------------------------------------------
ServiceStops ==
    /\ service = "up" /\ service' = "stop"
    /\ UNCHANGED <<webOp, acceptor>> /\ UNCHANGED <<shellVars, connVars>>

(* close_all(), by start() once it sees the shutdown and by the acceptor   *)
(* once its loop is over.                                                  *)
CloseAll == peer' = [c \in Conns |-> peer[c] /\ c \notin registered]

CloseServer ==
    /\ service = "stop" /\ service' = "closed" /\ CloseAll
    /\ UNCHANGED <<subs, conn, target, registered, webOp, acceptor>>
    /\ UNCHANGED shellVars

AcceptorEnds ==
    /\ acceptor = "loop" /\ service # "up" /\ acceptor' = "join" /\ CloseAll
    /\ UNCHANGED <<subs, conn, target, registered, webOp, service>>
    /\ UNCHANGED shellVars

JoinConns ==
    /\ acceptor = "join" /\ \A c \in Conns : conn[c] \in {"none", "gone"}
    /\ acceptor' = "done"
    /\ UNCHANGED <<webOp, service>> /\ UNCHANGED <<shellVars, connVars>>

(* tcp and acceptor joined, detach_all() stops every attachment but leaves *)
(* the tmux sessions.                                                      *)
DetachAll ==
    /\ service = "closed" /\ webOp = Idle /\ acceptor = "done"
    /\ service' = "detach"
    /\ stopping' = [s \in Shells |-> s \in known \/ stopping[s]]
    /\ UNCHANGED <<backend, known, attached, reader, webOp, acceptor>>
    /\ UNCHANGED connVars

DetachEnds ==
    /\ service = "detach" /\ \A s \in known : reader[s] = "none"
    /\ service' = "down" /\ known' = {}
    /\ subs' = [s \in Shells |-> IF s \in known THEN {} ELSE subs[s]]
    /\ UNCHANGED <<backend, attached, reader, stopping, conn, target, peer,
                   registered, webOp, acceptor>>

Next ==
    \/ \E s \in Shells : Create(s) \/ ShellExit(s) \/ ReaderEof(s)
                         \/ ReaderClose(s) \/ StopKill(s)
    \/ StopMark \/ StopJoin \/ Synchronize
    \/ \E c \in Conns : \/ AcceptConn(c) \/ Register(c) \/ Attach(c)
                        \/ Subscribe(c) \/ Ready(c) \/ Unsubscribe(c)
                        \/ LeaveConn(c) \/ PeerCloses(c)
                        \/ \E s \in Shells : Authenticate(c, s)
    \/ ServiceStops \/ CloseServer \/ AcceptorEnds \/ JoinConns
    \/ DetachAll \/ DetachEnds

Spec == Init /\ [][Next]_termVars

-----------------------------------------------------------------------------
(* However connections, explicit ends and the shutdown interleave, a       *)
(* service that is down has no attachment, reader or shell of its own      *)
(* left, and a shell that was ended keeps none either; tmux sessions are   *)
(* only detached.                                                          *)
NoShellLeftBehind ==
    /\ service = "down" =>
          \A s \in Shells : /\ ~attached[s] /\ reader[s] = "none"
                            /\ s \notin Persistent => backend[s] # "up"
    /\ \A s \in Shells : stopping[s] /\ s \notin known =>
          ~attached[s] /\ reader[s] = "none"

(* The subscribers of a shell are connections that still exist, as the     *)
(* field's comment says; a connection whose ready message cannot be sent   *)
(* leaves its callback behind.                                             *)
SubscribersAreLive ==
    \A s \in known, c \in Conns : c \in subs[s] => conn[c] # "gone"
=============================================================================
