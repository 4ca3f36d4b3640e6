--------------------------- MODULE HostLifecycle ---------------------------
(***************************************************************************)
(* The life of the process (main.cpp): privileges handed to two workers    *)
(* and dropped, the configuration read, orphans cleaned up, services       *)
(* started, and the way out that a signal, the web or the tray asks for,   *)
(* with the watchdog behind it.  With it, what the process opens on the    *)
(* network (upnp.cpp, publish.cpp) and which screen source it picks        *)
(* (linux/misc.cpp).                                                       *)
(***************************************************************************)
EXTENDS Naturals, Sequences, FiniteSetsExt, SessionRoute

CONSTANTS
    Texts,       \* configuration files: sequences of lines
    ArgLists,    \* command lines: sequences of arguments
    Boots,       \* main() goes on once the configuration is read; if not,
                 \* the network and the sources are looked at on their own
    Services,    \* the server threads, "config" and "x52" among them
    Ports,       \* the ports UPnP maps
    MaxRounds,   \* UPnP refreshes; 0: one round, and no mDNS
    Captures,    \* config::video.capture, "auto" when it is empty
    Virtuals,    \* the virtual display: "disabled" or its mode
    Hosts,       \* states of the screens the process may meet
    MaxChanges   \* changes of the host's screens and uses of the sources

VARIABLES
    text, args,  \* the configuration file and the command line
    options,     \* config:: after parse()
    pc,          \* where main() is
    exit,        \* how main() returned
    caps,        \* thread -> its capabilities
    pool,        \* task_pool: "none", "running" or "stopped"
    watchdog,    \* the forced shutdown is queued
    shutdown,    \* mail::shutdown is raised
    handler,     \* signal -> where its handler is, on which thread, and
                 \* whether it read a display guard that was not null
    guard,       \* display_device_deinit_guard: "none", "up" or "down"
    freed,       \* how often the display guard was destroyed
    service,     \* server thread -> its state
    tray,        \* "none", "on", "off", or "lost" when its loop ended
    undone,      \* proc_deinit_guard ran the undo commands
    upnp,        \* the UPnP thread
    router,      \* port -> whose mapping the router holds
    mdns,        \* the Avahi client, its entry group and the service name
    setting,     \* the capture setting and the virtual display's
    host,        \* the screens: what works, what is connected, who uses them
    window,      \* window_system
    sources,     \* the backends found usable
    verified,    \* the backends whose check passed when it was last made
    compositor,  \* physical_compositor_capture_available
    named,       \* the backend display_names() asked last
    opened,      \* the backend display() used last, and what held then
    changes

configVars == <<text, args, options>>
threadVars == <<caps, pool, watchdog, shutdown, handler, guard, freed,
                service, tray, undone>>
networkVars == <<upnp, router, mdns>>
sourceVars == <<setting, host, window, sources, verified, compositor, named,
                opened, changes>>
lifeVars == <<configVars, pc, exit, threadVars, networkVars, sourceVars>>

Capabilities == {"admin", "nice"}
Signals == {"int", "term"}
Ended == pc \in {"exited", "trapped"}

-----------------------------------------------------------------------------
(* A line of the file is an option or, with an empty name, anything        *)
(* parse_option() passes over: a comment, no "=", no value.  A value "["   *)
(* opens a list that is never closed; the list reaches to the end of the   *)
(* file, and is dropped only when nothing follows it.                      *)
Readable(file) ==
    LET opens == {i \in DOMAIN file : file[i].name # "" /\ file[i].value = "["}
    IN  IF opens = {} THEN file
        ELSE SubSeq(file, 1, Min(opens) - IF Min(opens) = Len(file) THEN 1
                                                                    ELSE 0)

(* parse_config(): the first line that names an option. *)
FileVars(file) ==
    LET lines == Readable(file)
        at(n) == {i \in DOMAIN lines : lines[i].name = n}
    IN  [n \in {lines[i].name : i \in DOMAIN lines} \ {""} |->
            lines[Min(at(n))].value]

(* The command line up to the argument that ends it: help, one that is     *)
(* not understood, or a command, which owns the rest.                      *)
LastArg(line) ==
    LET ends == {i \in DOMAIN line : line[i].kind \in {"help", "bad", "command"}}
    IN  IF ends = {} THEN Len(line) ELSE Min(ends)

(* Its options: of two with one name the later.                            *)
LineVars(line) ==
    LET at(n) == {i \in 1 .. LastArg(line) :
                    line[i].kind = "option" /\ line[i].name = n}
    IN  [n \in {line[i].name : i \in {j \in 1 .. LastArg(line) :
                                        line[j].kind = "option"}} |->
            line[Max(at(n))].value]

(* apply_flags() flips a bit, so a flag that is given twice is off.        *)
Flips(line) ==
    Cardinality({i \in 1 .. LastArg(line) : line[i].kind = "upnpFlag"}) % 2 = 1

(* to_bool(): the lower-case copy is thrown away and any 1 counts.         *)
ToBool(v) == v \in {"true", "on", "1", "10"}

BoolF(vars, name, default) ==
    IF name \in DOMAIN vars THEN ToBool(vars[name]) ELSE default

(* int_between_f(): a value outside the range leaves the setting alone.    *)
BetweenF(vars, name, range, default) ==
    IF name \in DOMAIN vars /\ vars[name] \in range THEN vars[name] ELSE default

(* apply_config() throws on a policy it does not know, on a preparation    *)
(* command that is no JSON and on a path it cannot create.                 *)
Rejected(vars) ==
    \/ "mode" \in DOMAIN vars /\ vars["mode"] \notin Modes
    \/ "global_prep_cmd" \in DOMAIN vars /\ vars["global_prep_cmd"] = "["
    \/ "log_path" \in DOMAIN vars /\ vars["log_path"] = "unwritable"

(* The two web interfaces: a configuration that turns both off keeps the   *)
(* upstream one, and neither is a default or a link once it is off.        *)
InterfacesWithoutRecovery(ui, upstream, default, visible) ==
    [ui |-> ui, upstream |-> upstream, default |-> default /\ ui,
     visible |-> visible /\ upstream]

Interfaces(ui, upstream, default, visible) ==
    LET kept == upstream \/ ~ui
    IN  [ui |-> ui, upstream |-> kept, default |-> default /\ ui,
         visible |-> visible /\ kept]

Applied(vars, flipped) ==
    [web |-> Interfaces(BoolF(vars, "ui", TRUE), BoolF(vars, "upstream", TRUE),
                        BoolF(vars, "default", FALSE),
                        BoolF(vars, "visible", TRUE)),
     port |-> BetweenF(vars, "port", {"1029", "65514"}, "47989"),
     tray |-> BoolF(vars, "tray", TRUE),
     virtual |-> BoolF(vars, "virtual", FALSE),
     wan |-> BetweenF(vars, "origin", {"pc", "lan", "wan"}, "lan") = "wan",
     upnp |-> BoolF(vars, "upnp", FALSE) # flipped,
     command |-> "none"]

NoOptions == Applied([n \in {} |-> ""], FALSE)

(* parse(): the command line over the file. *)
Parse(file, line) ==
    LET last == IF line = <<>> THEN "none" ELSE line[LastArg(line)].kind
        given == LineVars(line)
        read == FileVars(file)
        vars == [n \in DOMAIN read \cup DOMAIN given |->
                    IF n \in DOMAIN given THEN given[n] ELSE read[n]]
    IN  IF last \in {"help", "bad"} \/ Rejected(vars)
        THEN [ok |-> FALSE, options |-> NoOptions]
        ELSE [ok |-> TRUE,
              options |-> [Applied(vars, Flips(line)) EXCEPT
                             !.command = IF last = "command"
                                         THEN line[LastArg(line)].name
                                         ELSE "none"]]

-----------------------------------------------------------------------------
Init ==
    /\ text \in Texts /\ args \in ArgLists /\ options = NoOptions
    /\ pc = (IF Boots THEN "start" ELSE "config") /\ exit = "none"
    /\ caps \in {[t \in {"main", "drm", "egl"} \cup Services |->
                    IF t = "main" THEN c ELSE {}] :
                 c \in IF Boots THEN {{}, Capabilities} ELSE {{}}}
    /\ pool = "none" /\ watchdog = FALSE /\ shutdown = FALSE
    /\ handler = [s \in Signals |-> [at |-> "idle", on |-> "none", mine |-> FALSE]]
    /\ guard = "none" /\ freed = 0
    /\ service = [t \in Services |-> "none"]
    /\ tray = "none" /\ undone = FALSE
    /\ upnp = [at |-> "off", mapped |-> FALSE, todo |-> {}, refused |-> {},
               holes |-> FALSE, rounds |-> 0]
    /\ router \in [Ports -> {"none", "other", "static"}]
    /\ mdns = [at |-> "off", group |-> "none", name |-> 0, published |-> 0]
    /\ setting \in [capture : Captures, virtual : Virtuals]
    /\ host \in Hosts
    /\ window = "unknown" /\ sources = {} /\ verified = {} /\ compositor = FALSE
    /\ named = "none"
    /\ opened = [by |-> "none", verified |-> FALSE, required |-> FALSE, connected |-> TRUE,
                 worker |-> TRUE]
    /\ changes = 0

Return(how) == exit' = how /\ pc' = "unwind"

(* A signal that interrupts the main thread keeps it until its handler     *)
(* returns.                                                                *)
InHandler(s) == handler[s].at \notin {"idle", "done"}
MainFree == \A s \in Signals : handler[s].on = "main" => ~InHandler(s)

Go(from, to) ==
    /\ pc = from /\ MainFree /\ pc' = to
    /\ UNCHANGED <<exit, networkVars, sourceVars>>

-----------------------------------------------------------------------------
(* has_elevated_privileges() and drop_elevated_privileges(all).            *)
Drop(all) ==
    caps' = [caps EXCEPT !["main"] = @ \ IF all THEN Capabilities ELSE {"admin"}]

(* A thread that is started has the capabilities of the one starting it.   *)
Inherit(threads) ==
    caps' = [t \in DOMAIN caps |-> IF t \in threads THEN caps["main"] ELSE caps[t]]

(* A privileged process removes the GUI variables from its environment, or *)
(* does not start.                                                         *)
Sanitize ==
    /\ pc = "start" /\ MainFree
    /\ \/ pc' = "drm" /\ UNCHANGED exit
       \/ caps["main"] # {} /\ pc' = "exited" /\ exit' = "sanitize"
    /\ UNCHANGED <<configVars, threadVars, networkVars, sourceVars>>

PrivilegesEarly ==
    /\ \/ Go("drm", "dropAdmin") /\ Inherit({"drm"})
       \/ Go("dropAdmin", "egl") /\ Drop(TRUE)
       \/ Go("egl", "dropNice") /\ Inherit({"egl"})
       \/ Go("dropNice", "config") /\ Drop(TRUE)
    /\ UNCHANGED <<configVars, pool, watchdog, shutdown, handler, guard, freed,
                   service, tray, undone>>

(* The DRM worker starts with both capabilities, the EGL worker with the   *)
(* priority alone, and everything later with none.                         *)
Privileges ==
    /\ \/ Go("drm", "dropAdmin") /\ Inherit({"drm"})
       \/ Go("dropAdmin", "egl") /\ Drop(FALSE)
       \/ Go("egl", "dropNice") /\ Inherit({"egl"})
       \/ Go("dropNice", "config") /\ Drop(TRUE)
    /\ UNCHANGED <<configVars, pool, watchdog, shutdown, handler, guard, freed,
                   service, tray, undone>>

(* A configuration that is refused ends the process with status 0.         *)
ReadConfig ==
    /\ pc = "config" /\ MainFree
    /\ LET p == Parse(text, args)
       IN  /\ options' = p.options
           /\ \/ p.ok /\ pc' = "command" /\ UNCHANGED exit
              \/ ~p.ok /\ pc' = "exited" /\ exit' = "config"
    /\ UNCHANGED <<text, args, threadVars, networkVars, sourceVars>>

(* A command replaces the server; one that is not known is an error.       *)
RunCommand ==
    /\ Boots /\ pc = "command" /\ MainFree
    /\ \/ options.command = "none" /\ pc' = "recover" /\ UNCHANGED exit
       \/ /\ options.command # "none" /\ pc' = "exited"
          /\ exit' = IF options.command = "unknown" THEN "unknown" ELSE "command"
    /\ UNCHANGED <<configVars, threadVars, networkVars, sourceVars>>

(* Orphan sessions and the display settings of a crashed process are put   *)
(* right before anything is served.  The guard may fail to initialise.     *)
Recover ==
    /\ Go("recover", "pool")
    /\ guard' \in {"up", "none"}
    /\ UNCHANGED <<configVars, caps, pool, watchdog, shutdown, handler, freed,
                   service, tray, undone>>

(* The pool's one worker, then the handlers of SIGINT and SIGTERM.         *)
StartPool ==
    /\ Go("pool", "http")
    /\ pool' = "running"
    /\ UNCHANGED <<configVars, caps, watchdog, shutdown, handler, guard, freed,
                   service, tray, undone>>

(* Platform, applications, input and encoders may fail; the HTTP identity  *)
(* may not.                                                                *)
InitHttp ==
    /\ pc = "http" /\ MainFree
    /\ \/ pc' = "publish" /\ UNCHANGED exit
       \/ Return("http")
    /\ UNCHANGED <<configVars, threadVars, networkVars, sourceVars>>

(* mDNS and UPnP are started on threads of their own. *)
Publish ==
    /\ MainFree
    /\ \/ pc = "publish" /\ pc' = "peek"
       \/ ~Boots /\ MaxRounds > 0 /\ pc = "command" /\ pc' = "published"
    /\ upnp' = IF options.upnp THEN [upnp EXCEPT !.at = "discover"] ELSE upnp
    /\ mdns' \in {[mdns EXCEPT !.at = a] :
                    a \in IF MaxRounds > 0 THEN {"running", "off"} ELSE {"off"}}
    /\ UNCHANGED <<configVars, exit, threadVars, router, sourceVars>>

(* A shutdown that was asked for meanwhile leaves before the servers run.  *)
PeekShutdown ==
    /\ pc = "peek" /\ MainFree
    /\ \/ shutdown /\ Return("asked")
       \/ ~shutdown /\ pc' = "threads" /\ UNCHANGED exit
    /\ UNCHANGED <<configVars, threadVars, networkVars, sourceVars>>

StartThreads ==
    /\ Go("threads", "tray")
    /\ service' = [t \in Services |-> "starting"]
    /\ Inherit(Services)
    /\ UNCHANGED <<configVars, pool, watchdog, shutdown, handler, guard, freed,
                   tray, undone>>

(* main_loop_uses_system_tray(): no tray while sessions come and go.       *)
StartTray ==
    /\ Go("tray", "loop")
    /\ tray' \in IF options.tray /\ ~options.virtual THEN {"on", "none"}
                                                     ELSE {"none"}
    /\ UNCHANGED <<configVars, caps, pool, watchdog, shutdown, handler, guard,
                   freed, service, undone>>

(* mainThreadLoop(): the tray's events until the tray is gone, then the    *)
(* shutdown.                                                               *)
LoseTray ==
    /\ pc = "loop" /\ MainFree /\ tray = "on" /\ tray' = "lost"
    /\ UNCHANGED <<configVars, pc, exit, caps, pool, watchdog, shutdown,
                   handler, guard, freed, service, undone, networkVars,
                   sourceVars>>

LeaveLoop ==
    /\ tray # "on" /\ shutdown
    /\ Go("loop", "join")
    /\ UNCHANGED <<configVars, threadVars>>

JoinThreads ==
    /\ \A t \in Services : service[t] = "ended"
    /\ Go("join", "undo")
    /\ UNCHANGED <<configVars, threadVars>>

StopPoolEarly ==
    /\ \/ Go("undo", "stop") /\ pool' = "stopped" /\ UNCHANGED undone
       \/ /\ pc = "stop" /\ Return("asked") /\ MainFree /\ undone' = TRUE
          /\ UNCHANGED <<pool, networkVars, sourceVars>>
    /\ UNCHANGED <<configVars, caps, watchdog, shutdown, handler, guard, freed,
                   service, tray>>

(* The undo commands and the restored Game Mode need the pool, which stops *)
(* after them.                                                             *)
StopPool ==
    /\ \/ Go("undo", "stop") /\ undone' = TRUE /\ UNCHANGED pool
       \/ /\ pc = "stop" /\ Return("asked") /\ MainFree /\ pool' = "stopped"
          /\ UNCHANGED <<undone, networkVars, sourceVars>>
    /\ UNCHANGED <<configVars, caps, watchdog, shutdown, handler, guard, freed,
                   service, tray>>

(* What main() declared is destroyed backwards: UPnP is joined, mDNS quits *)
(* and is joined, then the applications' guard if it is still there and    *)
(* the display guard; the pool at the very end.                            *)
Unwind ==
    /\ pc = "unwind" /\ MainFree /\ pc' = "exited"
    /\ upnp.at \in {"off", "ended"}
    /\ mdns' = [mdns EXCEPT !.at = "ended", !.group = "none"]
    /\ undone' = TRUE
    /\ guard' = IF guard = "up" THEN "down" ELSE guard
    /\ freed' = IF guard = "up" THEN freed + 1 ELSE freed
    /\ pool' = "stopped"
    /\ UNCHANGED <<configVars, exit, caps, watchdog, shutdown, handler, service,
                   tray, upnp, router, sourceVars>>

Main ==
    \/ Sanitize \/ Privileges \/ ReadConfig \/ RunCommand \/ Recover
    \/ StartPool \/ InitHttp \/ Publish \/ PeekShutdown \/ StartThreads
    \/ StartTray \/ LeaveLoop \/ JoinThreads \/ StopPool \/ Unwind

-----------------------------------------------------------------------------
(* exit_sunshine() raises SIGINT on the thread that calls it: a web worker *)
(* or the tray's callback on the main thread.                              *)
ExitSunshine ==
    /\ handler["int"].at = "idle"
    /\ \E t \in {"web", "main"} :
        /\ t = "web" => service["config"] = "serving"
        /\ t = "main" => pc = "loop" /\ tray = "on" /\ MainFree
        /\ handler' = [handler EXCEPT !["int"].at = "watchdog", !["int"].on = t]
    /\ UNCHANGED <<configVars, pc, exit, caps, pool, watchdog, shutdown, guard,
                   freed, service, tray, undone, networkVars, sourceVars>>

(* SIGTERM comes from outside and interrupts the main thread.              *)
Terminate ==
    /\ handler["term"].at = "idle" /\ pool # "none" /\ ~Ended
    /\ handler' = [handler EXCEPT !["term"].at = "watchdog", !["term"].on = "main"]
    /\ UNCHANGED <<configVars, pc, exit, caps, pool, watchdog, shutdown, guard,
                   freed, service, tray, undone, networkVars, sourceVars>>

HandlerStep(s, from, to) ==
    /\ ~Ended /\ handler[s].at = from
    /\ s = "int" /\ handler[s].on = "main" => ~InHandler("term")
    /\ handler' = [handler EXCEPT ![s].at = to]
    /\ UNCHANGED <<configVars, pc, exit, caps, pool, service, undone,
                   networkVars, sourceVars>>

(* The watchdog is a delayed task: a pool that stopped never runs it.      *)
PushWatchdogLate(s) ==
    /\ HandlerStep(s, "watchdog", "raise")
    /\ UNCHANGED <<watchdog, shutdown, tray, guard, freed>>

PushWatchdog(s) ==
    /\ HandlerStep(s, "watchdog", "raise")
    /\ watchdog' = (watchdog \/ pool = "running")
    /\ UNCHANGED <<shutdown, tray, guard, freed>>

RaiseShutdown(s) ==
    /\ HandlerStep(s, "raise", "tray") /\ shutdown' = TRUE
    /\ UNCHANGED <<watchdog, tray, guard, freed>>

(* end_tray(): nothing to do for a tray that was not created yet.          *)
EndTray(s) ==
    /\ HandlerStep(s, "tray", "read")
    /\ tray' = IF options.tray /\ tray \in {"on", "lost"} THEN "off" ELSE tray
    /\ UNCHANGED <<watchdog, shutdown, guard, freed>>

(* display_device_deinit_guard = nullptr: the pointer is read and cleared, *)
(* and what it held is destroyed; no lock is taken.                        *)
ReadGuard(s) ==
    /\ ~Ended /\ handler[s].at = "read"
    /\ s = "int" /\ handler[s].on = "main" => ~InHandler("term")
    /\ handler' = [handler EXCEPT ![s].at = "drop", ![s].mine = guard = "up"]
    /\ UNCHANGED <<configVars, pc, exit, caps, pool, watchdog, shutdown, guard,
                   freed, service, tray, undone, networkVars, sourceVars>>

DropGuard(s) ==
    /\ HandlerStep(s, "drop", "done")
    /\ guard' = IF guard = "up" THEN "down" ELSE guard
    /\ freed' = IF handler[s].mine THEN freed + 1 ELSE freed
    /\ UNCHANGED <<watchdog, shutdown, tray>>

Handler(s) ==
    \/ PushWatchdog(s) \/ RaiseShutdown(s) \/ EndTray(s) \/ ReadGuard(s)
    \/ DropGuard(s)

(* The forced shutdown raises a trap. *)
ForceShutdown ==
    /\ watchdog /\ pool = "running" /\ ~Ended
    /\ pc' = "trapped"
    /\ UNCHANGED <<configVars, exit, threadVars, networkVars, sourceVars>>

(* A server runs until the shutdown, and the HOTAS monitor until main()    *)
(* asks.  A server that is told to stop before it accepts may never hear   *)
(* it, and a worker may not return.                                        *)
Serve(t) ==
    /\ ~Ended /\ service[t] = "starting"
    /\ service' = [service EXCEPT ![t] = "serving"]
    /\ UNCHANGED <<configVars, pc, exit, caps, pool, watchdog, shutdown,
                   handler, guard, freed, tray, undone, networkVars, sourceVars>>

ServiceEnds(t) ==
    /\ ~Ended /\ service[t] \in {"starting", "serving"}
    /\ IF t = "x52" THEN pc = "join" ELSE shutdown
    /\ t = "config" => ~(handler["int"].on = "web" /\ InHandler("int"))
    /\ service' = [service EXCEPT ![t] = "ended"]
    /\ UNCHANGED <<configVars, pc, exit, caps, pool, watchdog, shutdown,
                   handler, guard, freed, tray, undone, networkVars, sourceVars>>

ServiceHangs(t) ==
    /\ ~Ended /\ shutdown /\ t # "x52" /\ service[t] \in {"starting", "serving"}
    /\ service' = [service EXCEPT ![t] = "hung"]
    /\ UNCHANGED <<configVars, pc, exit, caps, pool, watchdog, shutdown,
                   handler, guard, freed, tray, undone, networkVars, sourceVars>>

-----------------------------------------------------------------------------
(* The rest of the process asks for the shutdown where it is left out.     *)
AskShutdown ==
    /\ pc = "published" /\ ~shutdown /\ shutdown' = TRUE
    /\ UNCHANGED <<configVars, pc, exit, caps, pool, watchdog, handler, guard,
                   freed, service, tray, undone, networkVars, sourceVars>>

(* The web interface's port is mapped for a configuration open to the WAN. *)
Mappings == Ports \ IF options.wan THEN {} ELSE {"web"}

UpnpStep == UNCHANGED <<configVars, pc, exit, threadVars, mdns, sourceVars>>

(* upnp_thread_proc(): a round finds the gateway or forgets it had one.    *)
Discover ==
    /\ ~Ended /\ upnp.at = "discover"
    /\ \/ upnp' = [upnp EXCEPT !.at = "map", !.todo = Mappings]
       \/ upnp' = [upnp EXCEPT !.at = "wait", !.mapped = FALSE]
    /\ UpnpStep /\ UNCHANGED router

(* map_upnp_port(): whose entry the router may hold afterwards.  A static  *)
(* entry of ours is left; a lease is renewed, or made static when the      *)
(* router's answers are odd; another's is deleted first, if the router     *)
(* agrees; and every step may be refused.                                  *)
Mapped(entry) ==
    CASE entry = "static" -> {"static"}
      [] entry = "lease" -> {"lease", "static"}
      [] entry = "none" -> {"lease", "static", "none"}
      [] entry = "other" -> {"lease", "static", "none", "other"}

MapPort ==
    /\ ~Ended /\ upnp.at = "map" /\ upnp.todo # {} /\ ~shutdown
    /\ \E p \in upnp.todo :
        /\ \E e \in Mapped(router[p]) : router' = [router EXCEPT ![p] = e]
        /\ upnp' = [upnp EXCEPT !.todo = @ \ {p}]
    /\ UpnpStep

(* create_ipv6_pinholes(): the firewall may grant leases; nothing takes    *)
(* them back.                                                              *)
Pinholes == {upnp.holes, upnp.holes \/ (Ports # {} /\ ~shutdown)}

MapDone ==
    /\ ~Ended /\ upnp.at = "map" /\ (upnp.todo = {} \/ shutdown)
    /\ \E h \in Pinholes :
        upnp' = [upnp EXCEPT !.at = "wait", !.mapped = TRUE, !.todo = {}, !.holes = h]
    /\ UpnpStep /\ UNCHANGED router

(* view(REFRESH_INTERVAL): the next round, or the end. *)
Refresh ==
    /\ ~Ended /\ upnp.at = "wait"
    /\ \/ /\ shutdown
          /\ upnp' = [upnp EXCEPT !.at = IF upnp.mapped THEN "unmap" ELSE "ended",
                                  !.todo = IF upnp.mapped THEN Mappings ELSE {}]
       \/ /\ ~shutdown /\ upnp.rounds < MaxRounds
          /\ upnp' = [upnp EXCEPT !.at = "discover", !.rounds = @ + 1]
    /\ UpnpStep /\ UNCHANGED router

UnmapUntilShutdown ==
    /\ ~Ended /\ upnp.at = "unmap"
    /\ upnp' = [upnp EXCEPT !.at = "ended"]
    /\ UpnpStep /\ UNCHANGED router

(* unmap_all_upnp_ports(): each one, whether or not the shutdown is there. *)
Unmap ==
    /\ ~Ended /\ upnp.at = "unmap"
    /\ \/ /\ upnp.todo = {} /\ upnp' = [upnp EXCEPT !.at = "ended"]
          /\ UNCHANGED router
       \/ \E p \in upnp.todo :
            \/ /\ router' = [router EXCEPT ![p] = "none"]
               /\ upnp' = [upnp EXCEPT !.todo = @ \ {p}]
            \/ /\ upnp' = [upnp EXCEPT !.todo = @ \ {p},
                                       !.refused = @ \cup {p}]
               /\ UNCHANGED router
    /\ UpnpStep

(* The router restarts or its leases run out. *)
RouterForgets ==
    /\ MaxRounds > 0 /\ \E p \in Ports : router[p] = "lease"
    /\ router' = [p \in Ports |-> IF router[p] = "lease" THEN "none" ELSE router[p]]
    /\ UpnpStep /\ UNCHANGED upnp

Upnp == Discover \/ MapPort \/ MapDone \/ Refresh \/ Unmap

-----------------------------------------------------------------------------
MdnsStep == UNCHANGED <<configVars, pc, exit, threadVars, upnp, router, sourceVars>>

(* create_services() for an empty group: the name is taken here and a next *)
(* one is tried, or the entry is committed, or the poll loop quits.        *)
CreateServices(m) ==
    {[m EXCEPT !.group = "committed", !.name = n, !.published = n] :
        n \in m.name .. (m.name + 1)}
    \cup {[m EXCEPT !.at = "quit"]}

(* client_callback(): the daemon runs, is registering again, or failed.    *)
ClientCallback ==
    /\ ~Ended /\ mdns.at = "running" /\ mdns.name < MaxRounds
    /\ \/ mdns.group # "committed" /\ mdns' \in CreateServices(mdns)
       \/ mdns.group = "committed" /\ mdns' = [mdns EXCEPT !.group = "empty"]
       \/ mdns' = [mdns EXCEPT !.at = "quit"]
    /\ MdnsStep

(* entry_group_callback(): another host has the name, so the group is      *)
(* empty again and is filled under the next one; or the group failed.      *)
EntryGroupKeepsName ==
    /\ ~Ended /\ mdns.at = "running" /\ mdns.group = "committed"
    /\ mdns.name < MaxRounds
    /\ mdns' = [mdns EXCEPT !.name = @ + 1]
    /\ MdnsStep

EntryGroupCallback ==
    /\ ~Ended /\ mdns.at = "running" /\ mdns.group = "committed"
    /\ mdns.name < MaxRounds
    /\ mdns' \in CreateServices([mdns EXCEPT !.group = "empty", !.name = @ + 1])
                 \cup {[mdns EXCEPT !.at = "quit"]}
    /\ MdnsStep

(* simple_poll_loop() has returned: the client goes, and its group with it *)
PollThreadEnds ==
    /\ ~Ended /\ mdns.at = "quit"
    /\ mdns' = [mdns EXCEPT !.at = "ended", !.group = "none"]
    /\ MdnsStep

Mdns == ClientCallback \/ EntryGroupCallback \/ PollThreadEnds

-----------------------------------------------------------------------------
SourceStep == UNCHANGED <<configVars, pc, exit, threadVars, networkVars>>
Physical == {"kwin", "portal"}
Enabled == setting.virtual # "disabled"

(* capture_backend_required(): the route that a launch would take now.     *)
Required ==
    UsesGamescopeCapture(SelectSessionRoute(
        [feature |-> Enabled, mode |-> IF Enabled THEN setting.virtual ELSE "off",
         policy |-> "auto", prefer |-> FALSE, desktop |-> FALSE,
         preflight |-> FALSE, kwin |-> FALSE, supported |-> TRUE,
         capturable |-> PhysicalDesktopCapturable(host.connected,
                                                  host.crtc \/ compositor),
         retained |-> host.session = "owned",
         existing |-> host.session = "attached"]))

Active == host.session \in {"owned", "attached"}

(* The verify_ functions: the backend lists a display, and is one of the   *)
(* window system in use.                                                   *)
Passes(b, w) ==
    /\ b \in host.works
    /\ b \in {"wayland", "kwin"} => w = "wayland"
    /\ b = "x11" => w = "x11"

(* init(): each backend in turn, most of them only while none was found.   *)
(* A virtual display that is to be tried first leaves the physical ones    *)
(* for later; a session that is required brings the Wayland backend in     *)
(* unchecked.                                                              *)
ProbeSources ==
    /\ MaxChanges > 0 /\ window = "unknown"
    /\ \E env \in {"none", "wayland", "x11"} :
        LET live == ~Enabled \/ host.live
            w == IF (Enabled /\ host.live) \/ Required THEN "wayland" ELSE env
            automatic == setting.capture = "auto" /\ setting.virtual \notin {"auto", "force"}
            tried(b, only) == (only \/ setting.capture = b) /\ Passes(b, w)
            first == {b \in {"nvfbc"} : tried(b, automatic)}
            second == first \cup IF Required THEN {"wayland"}
                                 ELSE {b \in {"wayland"} : tried(b, automatic /\ first = {})}
            third == second \cup {b \in {"kms"} : tried(b, automatic /\ second = {})}
            fourth == third \cup {b \in {"x11"} : tried(b, automatic)}
            desktop == automatic /\ host.connected /\ live
            fifth == fourth \cup {b \in {"kwin"} : tried(b, desktop)}
            found == fifth \cup {b \in {"portal"} :
                                    tried(b, desktop /\ "kwin" \notin fifth)}
        IN  /\ window' = w
            /\ sources' = found
            /\ verified' = {b \in found : Passes(b, w)}
            /\ compositor' = (found \cap Physical # {})
    /\ UNCHANGED <<setting, host, named, opened, changes>> /\ SourceStep

(* refresh_capture_environment(), at a launch, a resume and the encoder    *)
(* preflight: without a live desktop the compositor sources are gone.      *)
RefreshKeepsSources ==
    /\ window # "unknown" /\ changes < MaxChanges
    /\ \/ /\ ~(Enabled /\ host.live)
          /\ verified' = verified \ Physical
          /\ UNCHANGED <<window, sources>>
       \/ /\ Enabled /\ host.live /\ window' = "wayland"
          /\ UNCHANGED <<sources, verified>>
    /\ compositor' = (sources' \cap Physical # {})
    /\ changes' = changes + 1
    /\ UNCHANGED <<setting, host, named, opened>> /\ SourceStep

RefreshCaptureEnvironment ==
    /\ window # "unknown" /\ changes < MaxChanges
    /\ \/ /\ ~(Enabled /\ host.live)
          /\ sources' = sources \ Physical /\ verified' = verified \ Physical
          /\ UNCHANGED window
       \/ /\ Enabled /\ host.live /\ window' = "wayland"
          /\ LET kwin == {b \in {"kwin"} : /\ setting.capture \in {"auto", b}
                                           /\ Passes(b, "wayland")}
             IN  /\ sources' = (sources \ {"kwin"}) \cup kwin
                 /\ verified' = (verified \ {"kwin"}) \cup kwin
    /\ compositor' = (sources' \cap Physical # {})
    /\ changes' = changes + 1
    /\ UNCHANGED <<setting, host, named, opened>> /\ SourceStep

(* use_virtual_capture_backend() *)
VirtualBackend ==
    /\ Required
    /\ \/ setting.capture = "wayland"
       \/ ~host.connected
       \/ sources \cap Physical = {}

Preferred == {b \in sources \cap Physical : setting.capture = "auto" /\ host.connected}

FirstOf(order, set) ==
    LET at == {i \in DOMAIN order : order[i] \in set}
    IN  IF at = {} THEN "none" ELSE order[Min(at)]

(* display_names(): the backend that lists the displays. *)
NamesFrom(cuda) ==
    IF Active THEN "gamescope"
    ELSE IF VirtualBackend THEN "wayland"
    ELSE IF cuda /\ "nvfbc" \in sources THEN "nvfbc"
    ELSE IF Preferred # {} THEN FirstOf(<<"kwin", "portal">>, Preferred)
    ELSE FirstOf(<<"wayland", "kms", "x11", "portal", "kwin">>, sources)

(* display(): the backend that captures, KMS before the others and the     *)
(* virtual one before KMS.                                                 *)
OpensWithKmsFirst(cuda) ==
    IF Active THEN "gamescope"
    ELSE IF Preferred # {} THEN FirstOf(<<"kwin", "portal">>, Preferred)
    ELSE FirstOf(<<"kms", "nvfbc", "wayland", "x11", "portal", "kwin">>,
                 sources \ IF cuda THEN {} ELSE {"nvfbc"})

Opens(cuda) ==
    IF Active THEN "gamescope"
    ELSE IF Preferred # {} THEN FirstOf(<<"kwin", "portal">>, Preferred)
    ELSE IF VirtualBackend THEN "wayland"
    ELSE FirstOf(<<"kms", "nvfbc", "wayland", "x11", "portal", "kwin">>,
                 sources \ IF cuda THEN {} ELSE {"nvfbc"})

DisplayNames ==
    /\ window # "unknown" /\ changes < MaxChanges
    /\ \E cuda \in BOOLEAN : named' = NamesFrom(cuda)
    /\ changes' = changes + 1
    /\ UNCHANGED <<setting, host, window, sources, verified, compositor, opened>>
    /\ SourceStep

(* Past KMS and NvFBC the DRM worker is not needed, and gives its          *)
(* capabilities up.                                                        *)
Display ==
    /\ window # "unknown" /\ changes < MaxChanges
    /\ \E cuda \in BOOLEAN :
        LET b == Opens(cuda)
            drops == /\ ~Active /\ Preferred = {} /\ ~VirtualBackend
                     /\ b \notin {"kms", "nvfbc"}
        IN  opened' = [by |-> b, verified |-> b \in verified,
                       required |-> Required, connected |-> host.connected,
                       worker |-> opened.worker /\ ~drops]
    /\ changes' = changes + 1
    /\ UNCHANGED <<setting, host, window, sources, verified, compositor, named>>
    /\ SourceStep

(* The desktop comes and goes, outputs are plugged, a session starts.      *)
HostChanges ==
    /\ window # "unknown" /\ changes < MaxChanges
    /\ \/ host' = [host EXCEPT !.connected = ~@]
       \/ host' = [host EXCEPT !.live = ~@]
       \/ \E h \in Hosts : host' = [host EXCEPT !.works = h.works]
       \/ \E s \in {"none", "owned", "attached"} :
            Enabled /\ host' = [host EXCEPT !.session = s]
    /\ changes' = changes + 1
    /\ UNCHANGED <<setting, window, sources, verified, compositor, named, opened>>
    /\ SourceStep

Sources ==
    \/ ProbeSources \/ RefreshCaptureEnvironment \/ DisplayNames \/ Display
    \/ HostChanges

-----------------------------------------------------------------------------
Next ==
    \/ Main \/ LoseTray \/ ExitSunshine \/ Terminate \/ ForceShutdown
    \/ \E s \in Signals : Handler(s)
    \/ \E t \in Services : Serve(t) \/ ServiceEnds(t) \/ ServiceHangs(t)
    \/ AskShutdown \/ Upnp \/ RouterForgets \/ Mdns
    \/ Sources

(* The threads run: main(), a handler that was entered, the UPnP thread,   *)
(* whose calls have timeouts, and the pool's worker.  A server is not      *)
(* bound to end.                                                           *)
Fairness ==
    /\ WF_lifeVars(Main) /\ WF_lifeVars(Upnp) /\ WF_lifeVars(ForceShutdown)
    /\ \A s \in Signals : WF_lifeVars(Handler(s))

Spec == Init /\ [][Next]_lifeVars /\ Fairness

-----------------------------------------------------------------------------
(* "Child threads inherit capabilities from the parent at creation time"   *)
(* (main.cpp): once privileges are dropped the DRM worker alone has        *)
(* CAP_SYS_ADMIN, the EGL worker still has the priority it needs, and no   *)
(* thread that talks to the network has anything.                          *)
PrivilegesArePlaced ==
    pc \notin {"start", "drm", "dropAdmin", "egl", "dropNice"} /\ caps["drm"] # {} =>
        /\ caps["egl"] = {"nice"}
        /\ \A t \in Services \cup {"main"} : caps[t] = {}

(* Whatever the file and the command line say, some web interface answers, *)
(* and no page leads to one that does not.                                 *)
InterfaceRemains ==
    /\ options.web.ui \/ options.web.upstream
    /\ options.web.default => options.web.ui
    /\ options.web.visible => options.web.upstream

(* The undo commands of an application run once the servers are gone and   *)
(* while the task pool is there for what they schedule.                    *)
UndoneWithPool ==
    [][undone' /\ ~undone =>
          /\ pool = "running"
          /\ \A t \in Services : service[t] \in {"none", "ended"}]_lifeVars

(* A process that found its gateway when it last looked leaves no port     *)
(* open that the gateway agreed to close.                                  *)
PortsAreClosed ==
    upnp.at = "ended" /\ upnp.mapped =>
        {p \in Mappings : router[p] \in {"lease", "static"}} \subseteq upnp.refused

(* The service is announced under the name that is free.                   *)
AnnouncedByName == mdns.group = "committed" => mdns.published = mdns.name

(* A source is used when its check passed at the last probe or refresh,    *)
(* except the Wayland backend a session brings with it.                    *)
OpensVerified ==
    opened.by \notin {"none", "gamescope", "wayland"} => opened.verified

(* "Monitorless virtual sessions never fall back to a physical or          *)
(* cross-GPU capture path" (display()).                                    *)
HeadlessIsVirtual ==
    opened.required /\ ~opened.connected => opened.by \in {"gamescope", "wayland"}

(* KMS is never asked of a worker that gave its capabilities up.           *)
KmsHasWorker == opened.by = "kms" => opened.worker

(* Under observation: a second signal while the first one's handler runs   *)
(* on another thread, a tray that is created after it was to end, the      *)
(* gateway gone when the process ends, the pinholes nobody closes, the two *)
(* orders in which backends are tried, and a flag that undoes a setting.   *)
GuardFreedOnce == freed <= 1
ShutdownIsOrderly ==
    pc = "trapped" => \E t \in Services : service[t] \in {"hung", "serving", "starting"}
EveryPortIsClosed ==
    upnp.at = "ended" =>
        {p \in Mappings : router[p] \in {"lease", "static"}} \subseteq upnp.refused
PinholesAreClosed == upnp.at = "ended" => ~upnp.holes
NamesAreTheDisplays ==
    \A cuda \in BOOLEAN : window # "unknown" => NamesFrom(cuda) = Opens(cuda)
UpnpAsConfigured ==
    pc = "command" /\ (Flips(args) \/ BoolF(FileVars(text), "upnp", FALSE)) =>
        options.upnp

(* A shutdown that is asked for ends the process, by the way out or by the *)
(* watchdog.                                                               *)
ShutdownEnds == shutdown /\ Boots ~> Ended
=============================================================================
