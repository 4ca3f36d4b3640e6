--------------------------- MODULE SourceIdentity ---------------------------
(***************************************************************************)
(* Which compositor a session is about (steamos_virtual_session.cpp and    *)
(* platform/linux/gamescope_source.cpp).  Processes are known by pid and   *)
(* start time, because a pid is used again: the Gamescope that was forked  *)
(* or found in the PipeWire registry, the bootstrap child that reports its *)
(* display in the session's directory, and the service that owns both.     *)
(* The service may die and start again; the new one clears what the old    *)
(* one left.                                                               *)
(***************************************************************************)
EXTENDS Naturals, FiniteSets

CONSTANTS Pids,               \* process ids
          MaxBorn, MaxLaunch, \* bounds on processes started, on launches of one service
          Crashes,            \* the service may die
          CleansUp            \* cleanup_orphan_sessions is configured

VARIABLES
    procs,    \* pid -> the process
    started,  \* start time of the youngest process
    service,  \* the service's identity, Nobody when it is not running
    launches, \* launches of this service: next_display_generation, session ids
    session,  \* manager: the session's compositor, as the code knows it
    truth,    \* the compositor this session was started with or attached to
    dirs,     \* runtime directories on disk: <<service pid, launch>> -> report
    nodes,    \* nodes of PipeWire: the client's pid and the node's serial
    consumer, \* the capture that opens a PipeWire stream
    handed,   \* the identities given out by the last step
    cleanup   \* what the cleanup at the start of the service is doing

identityVars == <<procs, started, service, launches, session, truth, dirs, nodes,
                  consumer, handed, cleanup>>

Free == [role |-> "none", born |-> 0, dir |-> <<>>, group |-> 0, owner |-> [pid |-> 0, born |-> 0]]
Nobody == [pid |-> 0, born |-> 0]
NoSession == [state |-> "Idle", pid |-> 0, born |-> 0, dir |-> <<>>, generation |-> 0,
              source |-> Nobody, serial |-> 0]
NoConsumer == [step |-> "idle", pid |-> 0, born |-> 0, serial |-> 0]
NoCleanup == [step |-> "done", dir |-> <<>>, found |-> {}]

Alive == {p \in Pids : procs[p].role # "none"}
With(p, role, dir, group, owner) ==
    [procs EXCEPT ![p] = [role |-> role, born |-> started + 1, dir |-> dir,
                          group |-> group, owner |-> owner]]
Without(S) == [p \in Pids |-> IF p \in S THEN Free ELSE procs[p]]

(* read_process_identity(): nothing for a pid that is not in use. *)
Identity(p) == IF p \in Alive THEN [pid |-> p, born |-> procs[p].born] ELSE Nobody

SameProcessByPid(id) == id.pid \in Alive

(* The process is still the one it was: the pid and the start time agree. *)
SameProcess(id) == id.pid \in Alive /\ procs[id.pid].born = id.born

Serving == service.pid # 0

Init ==
    /\ procs = [p \in Pids |-> Free] /\ started = 0 /\ service = Nobody /\ launches = 0
    /\ session = NoSession /\ truth = Nobody /\ dirs = {} /\ nodes = {}
    /\ consumer = NoConsumer /\ handed = {} /\ cleanup = NoCleanup

-----------------------------------------------------------------------------
(* Processes of the host: one that has nothing to do with the sessions,    *)
(* the stock Gamescope of Game Mode, and any that ends.                    *)
StartOther(p, role) ==
    /\ p \notin Alive /\ started < MaxBorn /\ started' = started + 1
    /\ procs' = With(p, role, <<>>, p, Nobody)
    /\ handed' = {}
    /\ UNCHANGED <<service, launches, session, truth, dirs, nodes, consumer, cleanup>>

Die(p) ==
    /\ p \in Alive /\ procs[p].role # "service"
    /\ procs' = Without({p}) /\ handed' = {}
    /\ UNCHANGED <<started, service, launches, session, truth, dirs, nodes, consumer, cleanup>>

(* A process of a session starts another one: an application. *)
Spawn(q, p) ==
    /\ q \in Alive /\ procs[q].dir # <<>> /\ p \notin Alive
    /\ started < MaxBorn /\ started' = started + 1
    /\ procs' = With(p, "app", procs[q].dir, procs[q].group, Nobody)
    /\ handed' = {}
    /\ UNCHANGED <<service, launches, session, truth, dirs, nodes, consumer, cleanup>>

(* A Gamescope offers its picture; PipeWire drops the node of a client     *)
(* that is gone when it notices.                                           *)
Publish(p) ==
    /\ procs[p].role \in {"gamescope", "stock"} /\ ~\E n \in nodes : n.pid = p
    /\ nodes' = nodes \cup {[pid |-> p, serial |-> procs[p].born]} /\ handed' = {}
    /\ UNCHANGED <<procs, started, service, launches, session, truth, dirs, consumer, cleanup>>

Unpublish(n) ==
    /\ ~SameProcess([pid |-> n.pid, born |-> n.serial])
    /\ nodes' = nodes \ {n} /\ handed' = {}
    /\ UNCHANGED <<procs, started, service, launches, session, truth, dirs, consumer, cleanup>>

-----------------------------------------------------------------------------
(* The service starts: it first looks for the directories of sessions that *)
(* carry its mark.                                                         *)
Serve(p) ==
    /\ ~Serving /\ p \notin Alive /\ started < MaxBorn /\ started' = started + 1
    /\ procs' = With(p, "service", <<>>, p, Nobody)
    /\ service' = [pid |-> p, born |-> started + 1] /\ launches' = 0
    /\ cleanup' = IF CleansUp THEN [NoCleanup EXCEPT !.step = "next"] ELSE NoCleanup
    /\ handed' = {}
    /\ UNCHANGED <<session, truth, dirs, nodes, consumer>>

Crash ==
    /\ Crashes /\ Serving
    /\ procs' = Without({service.pid}) /\ service' = Nobody
    /\ session' = NoSession /\ truth' = Nobody /\ consumer' = NoConsumer
    /\ cleanup' = NoCleanup /\ handed' = {}
    /\ UNCHANGED <<started, launches, dirs, nodes>>

(* processes_using_runtime_directory(): those whose environment names the  *)
(* directory, and their descendants, which inherit it.                     *)
Using(d) == {p \in Alive : procs[p].dir = d}

(* cleanup_orphan_sessions() *)
CleanupNext ==
    /\ cleanup.step = "next"
    /\ IF dirs = {} THEN cleanup' = NoCleanup
       ELSE \E d \in dirs : cleanup' = [step |-> "term", dir |-> d.dir,
                                        found |-> {Identity(p) : p \in Using(d.dir)}]
    /\ handed' = {}
    /\ UNCHANGED <<procs, started, service, launches, session, truth, dirs, nodes, consumer>>

(* stop_processes_using_runtime_directory(): the first signal goes to the  *)
(* pids as they were found; each process obeys or does not.                *)
CleanupTerm ==
    /\ cleanup.step = "term"
    /\ \E obeys \in SUBSET ({id.pid : id \in cleanup.found} \cap Alive) : procs' = Without(obeys)
    /\ cleanup' = [cleanup EXCEPT !.step = "kill"] /\ handed' = {}
    /\ UNCHANGED <<started, service, launches, session, truth, dirs, nodes, consumer>>

(* The second one goes to those that are still the same processes, and the *)
(* directory is removed.                                                   *)
CleanupKill ==
    /\ cleanup.step = "kill"
    /\ procs' = Without({id.pid : id \in {i \in cleanup.found : SameProcess(i)}})
    /\ dirs' = {d \in dirs : d.dir # cleanup.dir}
    /\ cleanup' = [NoCleanup EXCEPT !.step = "next"] /\ handed' = {}
    /\ UNCHANGED <<started, service, launches, session, truth, nodes, consumer>>

-----------------------------------------------------------------------------
Ready == Serving /\ cleanup.step = "done"

(* The owned session: a directory of its own, with an authority file that  *)
(* must not be there yet, then Gamescope is forked into a process group of *)
(* its own and its start time is read.                                     *)
NewDir == <<service.pid, launches + 1>>

StartOwned(p) ==
    /\ Ready /\ session.state = "Idle" /\ launches < MaxLaunch
    /\ launches' = launches + 1
    /\ IF \E d \in dirs : d.dir = NewDir
       THEN /\ dirs' = {d \in dirs : d.dir # NewDir}
            /\ UNCHANGED <<procs, started, session, truth>>
       ELSE /\ p \notin Alive /\ started < MaxBorn /\ started' = started + 1
            /\ procs' = With(p, "gamescope", NewDir, p, Nobody)
            /\ truth' = [pid |-> p, born |-> started + 1]
            /\ dirs' = dirs \cup {[dir |-> NewDir, generation |-> 0, source |-> Nobody]}
            /\ session' = [NoSession EXCEPT !.state = "WaitingForDisplay", !.pid = p,
                             !.born = started + 1, !.dir = NewDir, !.generation = launches + 1]
    /\ handed' = {}
    /\ UNCHANGED <<service, nodes, consumer, cleanup>>

(* run_display_endpoint_bootstrap(): the child of Gamescope checks its     *)
(* owner and writes the report under a temporary name first.               *)
Bootstrap(g, p) ==
    /\ procs[g].role = "gamescope" /\ p \notin Alive /\ started < MaxBorn
    /\ Serving /\ session.pid = g
    /\ \E d \in dirs : d.dir = procs[g].dir /\ d.generation = 0
    /\ started' = started + 1
    /\ procs' = With(p, "bootstrap", procs[g].dir, g, service)
    /\ dirs' = {IF d.dir = procs[g].dir
                THEN [dir |-> d.dir, generation |-> d.dir[2], source |-> [pid |-> p, born |-> started + 1]]
                ELSE d : d \in dirs}
    /\ handed' = {}
    /\ UNCHANGED <<service, launches, session, truth, nodes, consumer, cleanup>>

(* It stays until its owner is gone, and Gamescope ends with its child. *)
OwnerGoneByPid(p) == ~SameProcessByPid(procs[p].owner)

OwnerGone(p) == ~SameProcess(procs[p].owner)

BootstrapEnds(p) ==
    /\ procs[p].role = "bootstrap" /\ OwnerGone(p)
    /\ procs' = Without({p}) /\ handed' = {}
    /\ UNCHANGED <<started, service, launches, session, truth, dirs, nodes, consumer, cleanup>>

GamescopeEnds(g) ==
    /\ procs[g].role = "gamescope"
    /\ ~\E q \in Alive : procs[q].role = "bootstrap" /\ procs[q].group = g
    /\ ~(Serving /\ session.pid = g)
    /\ procs' = Without({g}) /\ handed' = {}
    /\ UNCHANGED <<started, service, launches, session, truth, dirs, nodes, consumer, cleanup>>

(* read_owned_display_endpoint(): the report is of this launch, its writer *)
(* runs in the compositor's process group, and the compositor is the one   *)
(* that was forked.                                                        *)
Verified(d) ==
    /\ d.dir = session.dir /\ d.generation = session.generation
    /\ SameProcess(d.source) /\ procs[d.source.pid].group = session.pid
    /\ SameProcess([pid |-> session.pid, born |-> session.born])

ReadEndpoint ==
    /\ Ready /\ session.state = "WaitingForDisplay"
    /\ \E d \in dirs :
        /\ Verified(d)
        /\ session' = [session EXCEPT !.state = "WaitingForCapture", !.source = d.source]
    /\ handed' = {}
    /\ UNCHANGED <<procs, started, service, launches, truth, dirs, nodes, consumer, cleanup>>

(* stop_owned_process_group() *)
StopGroup(group) == Without({p \in Alive : procs[p].group = group})

(* The end of a session, and of a start that failed or took too long: the  *)
(* process group is stopped and the directory removed.  Only an owned      *)
(* session has either.                                                     *)
Stop ==
    /\ Ready /\ session.state # "Idle"
    /\ procs' = IF session.dir = <<>> THEN procs
                ELSE StopGroup(session.pid)
    /\ dirs' = {d \in dirs : d.dir # session.dir}
    /\ session' = NoSession /\ truth' = Nobody /\ handed' = {}
    /\ UNCHANGED <<started, service, launches, nodes, consumer, cleanup>>

-----------------------------------------------------------------------------
(* snapshot(): the nodes whose client is a Gamescope, with the identity of *)
(* the process that has the client's pid now.                              *)
Sources ==
    {[pid |-> n.pid, born |-> procs[n.pid].born, serial |-> n.serial,
      stock |-> procs[n.pid].role = "stock"] :
        n \in {m \in nodes : m.pid \in Alive /\ procs[m.pid].role \in {"gamescope", "stock"}}}

(* select_unique(): the one verified Game Mode source. *)
Selected == LET found == {s \in Sources : s.stock}
            IN  IF Cardinality(found) = 1 THEN found ELSE {}

(* prepare() on the attached route: the source is chosen, then the         *)
(* environment of the Steam in that session is waited for.                 *)
Attach ==
    /\ Ready /\ session.state = "Idle" /\ launches < MaxLaunch
    /\ launches' = launches + 1
    /\ \E s \in Selected :
        /\ session' = [NoSession EXCEPT !.state = "Selecting", !.pid = s.pid,
                         !.born = s.born, !.generation = launches + 1,
                         !.source = [pid |-> s.pid, born |-> s.born], !.serial = s.serial]
        /\ truth' = [pid |-> s.pid, born |-> s.born]
    /\ handed' = {}
    /\ UNCHANGED <<procs, started, service, dirs, nodes, consumer, cleanup>>

(* attached_display_endpoint(): accepted while the compositor is still the *)
(* one that was chosen.                                                    *)
AttachEndpoint ==
    /\ Ready /\ session.state = "Selecting"
    /\ SameProcess([pid |-> session.pid, born |-> session.born])
    /\ session' = [session EXCEPT !.state = "WaitingForCapture"]
    /\ handed' = {}
    /\ UNCHANGED <<procs, started, service, launches, truth, dirs, nodes, consumer, cleanup>>

(* application_environment(): both processes are still the same. *)
AskEnvironment ==
    /\ Ready /\ session.state = "WaitingForCapture"
    /\ SameProcess([pid |-> session.pid, born |-> session.born]) /\ SameProcess(session.source)
    /\ handed' = {Identity(session.pid)}
    /\ UNCHANGED <<procs, started, service, launches, session, truth, dirs, nodes, consumer, cleanup>>

(* open_verified_gamescope_pipewire_consumer(): the session is copied      *)
(* under the lock, the registry is asked without it.                       *)
ConsumerStarts ==
    /\ Ready /\ session.state = "WaitingForCapture" /\ consumer.step = "idle"
    /\ consumer' = [step |-> "discover", pid |-> session.pid, born |-> session.born,
                    serial |-> session.serial]
    /\ handed' = {}
    /\ UNCHANGED <<procs, started, service, launches, session, truth, dirs, nodes, cleanup>>

MatchAny == {s \in Sources : s.pid = consumer.pid}

Match ==
    {s \in Sources : /\ s.pid = consumer.pid /\ s.born = consumer.born
                     /\ consumer.serial \in {0, s.serial}}

ConsumerOpens ==
    /\ consumer.step = "discover"
    /\ consumer' = NoConsumer
    /\ IF Match = {} THEN handed' = {} /\ UNCHANGED session
       ELSE \E s \in Match :
                /\ handed' = {[pid |-> s.pid, born |-> s.born]}
                /\ session' = IF session.state = "WaitingForCapture" /\ s.pid = session.pid
                              THEN [session EXCEPT !.serial = s.serial] ELSE session
    /\ UNCHANGED <<procs, started, service, launches, truth, dirs, nodes, cleanup>>

-----------------------------------------------------------------------------
Next ==
    \/ \E p \in Pids : \/ StartOther(p, "other") \/ StartOther(p, "stock")
                       \/ Die(p) \/ Publish(p) \/ Serve(p) \/ StartOwned(p)
                       \/ BootstrapEnds(p) \/ GamescopeEnds(p)
                       \/ \E g \in Pids : Bootstrap(g, p) \/ Spawn(g, p)
    \/ \E n \in nodes : Unpublish(n)
    \/ Crash \/ CleanupNext \/ CleanupTerm \/ CleanupKill
    \/ ReadEndpoint \/ Stop \/ Attach \/ AttachEndpoint \/ AskEnvironment
    \/ ConsumerStarts \/ ConsumerOpens

Fairness == \A p \in Pids : WF_identityVars(BootstrapEnds(p)) /\ WF_identityVars(GamescopeEnds(p))

Spec == Init /\ [][Next]_identityVars /\ Fairness

-----------------------------------------------------------------------------
(* An environment or a stream is only given out for the compositor a       *)
(* session was started with or attached to, never for a process that got   *)
(* its pid in between.                                                     *)
NoStaleIdentity ==
    \A id \in handed : /\ procs[id.pid].role \in {"gamescope", "stock"}
                       /\ id.pid = truth.pid => id = truth

(* After the service died, the compositors it owned end by themselves:     *)
(* their bootstrap notices that the owner's identity is gone, whoever has  *)
(* the owner's pid now.                                                    *)
OrphansEnd ==
    \A p \in Pids :
        (procs[p].role = "bootstrap" /\ procs[p].owner # service)
            ~> procs[p].role # "bootstrap"

(* A stream is opened for the session there is. *)
ConsumerOfThisSession ==
    [][ConsumerOpens => handed' \subseteq {[pid |-> session.pid, born |-> session.born]}]_identityVars

(* The cleanup ends only the processes of the session it clears, and when  *)
(* the directory is gone none of them is left.                             *)
CleanupSparesOthers ==
    [][CleanupTerm \/ CleanupKill =>
        \A p \in Alive : procs'[p] # procs[p] => procs[p].dir = cleanup.dir]_identityVars
CleanupIsComplete ==
    [][CleanupKill => \A p \in Pids : procs'[p].role # "none" => procs'[p].dir # cleanup.dir]_identityVars
=============================================================================
