-------------------------------- MODULE MCHost --------------------------------
(***************************************************************************)
(* The host the streams run on: screen sources, the private session and    *)
(* its identity, display settings.  A behaviour runs the component named   *)
(* by focus, as in MCServices, here with the fairness of its own module.   *)
(***************************************************************************)
EXTENDS Integers, Sequences, FiniteSets

CONSTANTS
    Checked,                                 \* the components this run is about
    ScreenBuffers, ScreenImages,             \* PipewireCapture
    PortalRequests,                          \* ScreenCast
    SteamPids, SteamCompositor, SteamStarts, \* SteamPlacement
    HostPids, HostStarts, ServiceLaunches,   \* SourceIdentity
    Monitors, DisplayEvents, RemapEntries, MaxRemaps,
                                             \* DisplaySettings
    ConfigFiles, CommandLines, HostServices, RouterPorts, RouterRounds,
    ScreenHosts, SourceChanges               \* HostLifecycle

(* What the code gives these numbers and sets: a process id and a length   *)
(* are natural numbers, no process has the id 0, the compositor is none of *)
(* the processes it is looked for among, and a server thread is neither    *)
(* main() nor one of its two workers.                                      *)
ASSUME SteamAssumption ==
    /\ SteamPids \subseteq Nat \ {0} /\ IsFiniteSet(SteamPids)
    /\ SteamCompositor \in Nat \ ({0} \cup SteamPids)
ASSUME ProcessAssumption == HostPids \subseteq Nat \ {0}
ASSUME RemapAssumption == MaxRemaps \in Nat
ASSUME ThreadAssumption == HostServices \cap {"main", "drm", "egl"} = {}

VARIABLES
    focus,   \* the component that runs
    phase, stream, kind, active, dead, screenReady, place, order, holder,
    lease, shows, front, copying, screenPc, productive, waited, got, backend,
    purpose, portalPc, only, count, waiting, requests, answers, progress,
    handle, token, dbusFd, coreFd, file, struck, bound, events, portalReady,
    failed, proc, born, settings, step, scanned, candidate, helper, location,
    migration, required, outcome, procs, started, identityService, launches,
    session, truth, dirs, nodes, consumer, handed, cleanup, video, up, app,
    pending, streams, request, task, displays, saved, devices, api, happened,
    text, args, options, bootPc, exit, caps, pool, watchdog, shutdown,
    handler, guard, freed, bootService, tray, undone, upnp, router, mdns,
    setting, host, window, sources, verified, compositor, named, opened,
    changes

Base ==
    [prepare |-> TRUE, resolution |-> "automatic", rate |-> "automatic",
     manualResolution |-> "m", manualRate |-> "m", remap |-> << >>,
     delay |-> TRUE, onDisconnect |-> TRUE]

RunConfigs ==
    {[Base EXCEPT !.delay = d, !.onDisconnect = o, !.rate = r,
                  !.manualRate = "bad"] :
        d, o \in BOOLEAN, r \in {"automatic", "manual"}}
    \cup {[Base EXCEPT !.prepare = FALSE]}

Entry(a, b, c, d) ==
    [wantResolution |-> a, resolution |-> b, wantRate |-> c, rate |-> d]

Entries ==
    {Entry("c", "m", "none", "none"), Entry("none", "none", "c", "m"),
     Entry("none", "m", "none", "m"), Entry("none", "m", "c", "none"),
     Entry("none", "none", "none", "m"), Entry("bad", "m", "c", "m"),
     Entry("none", "none", "none", "none")}

ParseConfigs ==
    [prepare : {TRUE}, resolution : {"automatic", "manual", "off"},
     rate : {"automatic", "manual", "off"},
     manualResolution : {"m", "bad", "none"}, manualRate : {"m", "bad"},
     remap : UNION {[1 .. n -> RemapEntries] : n \in 0 .. MaxRemaps},
     delay : {FALSE}, onDisconnect : {TRUE}]

AnyClients ==
    [sops : BOOLEAN, resolution : {"c", "d", "negative"},
     fps : {"c", "d", "negative"}]

OneClient == {[sops |-> TRUE, resolution |-> "c", fps |-> "c"]}

Line(n, v) == [name |-> n, value |-> v]
Arg(k, n, v) == [kind |-> k, name |-> n, value |-> v]
Upnp == Arg("upnpFlag", "", "")

BootTexts ==
    {<<>>, <<Line("virtual", "on"), Line("upnp", "on")>>, <<Line("mode", "x")>>}
BootArgs == {<<>>, <<Arg("command", "version", "")>>, <<Arg("command", "unknown", "")>>}

OptionLines ==
    {Line("ui", "off"), Line("upstream", "off"), Line("upstream", "True"),
     Line("default", "on"), Line("visible", "10"), Line("upnp", "on"),
     Line("port", "80"), Line("port", "1029"), Line("mode", "x"),
     Line("mode", "off"), Line("virtual", "on"), Line("global_prep_cmd", "["),
     Line("log_path", "unwritable"), Line("", "")}
OptionTexts ==
    {<<>>} \cup {<<a>> : a \in OptionLines}
    \cup {<<a, b>> : a, b \in OptionLines}
    \cup {<<Line("ui", "off"), a, b>> : a, b \in OptionLines}
OptionArgs ==
    {<<>>, <<Upnp>>, <<Upnp, Upnp>>, <<Arg("help", "", "")>>, <<Arg("bad", "", "")>>,
     <<Arg("file", "other", ""), Arg("option", "upstream", "off")>>,
     <<Arg("option", "ui", "on"), Arg("option", "ui", "off")>>,
     <<Arg("option", "mode", "auto"), Arg("command", "creds", ""), Upnp>>}

Backends == {"nvfbc", "wayland", "kms", "x11", "kwin", "portal"}
CaptureNames == {"auto", "wayland", "kms", "portal"}
Screens(works, connected, live) ==
    [works |-> works, connected |-> connected, crtc |-> connected,
     live |-> live, session |-> "none"]
OneHost == {Screens({}, FALSE, FALSE)}
AnyHost ==
    {Screens(w, c, l) : c, l \in BOOLEAN,
        w \in {Backends, {"kms", "x11"}, {"nvfbc", "portal"}}}

TwoImages == <<"i", "j">>

-----------------------------------------------------------------------------
Screen == INSTANCE PipewireCapture WITH
    Buffers <- ScreenBuffers, Images <- ScreenImages, ready <- screenReady,
    pc <- screenPc

Portal == INSTANCE ScreenCast WITH
    MaxRequests <- PortalRequests, pc <- portalPc, ready <- portalReady

Steam == INSTANCE SteamPlacement WITH
    Pids <- SteamPids, Gamescope <- SteamCompositor, MaxBorn <- SteamStarts

Identity == INSTANCE SourceIdentity WITH
    Pids <- HostPids, MaxBorn <- HostStarts, MaxLaunch <- ServiceLaunches,
    Crashes <- TRUE, CleansUp <- TRUE, service <- identityService

Display == INSTANCE DisplaySettings WITH
    Configs <- RunConfigs, Clients <- OneClient, Devices <- Monitors,
    MaxEvents <- DisplayEvents

Parse == INSTANCE DisplaySettings WITH
    Configs <- ParseConfigs, Clients <- AnyClients, Devices <- {"tv"},
    MaxEvents <- 1

Boot == INSTANCE HostLifecycle WITH
    Texts <- BootTexts, ArgLists <- BootArgs, Boots <- TRUE,
    Services <- HostServices, Ports <- {}, MaxRounds <- 0,
    Captures <- {"auto"}, Virtuals <- {"disabled"}, Hosts <- OneHost,
    MaxChanges <- 0, pc <- bootPc, service <- bootService

Options == INSTANCE HostLifecycle WITH
    Texts <- ConfigFiles, ArgLists <- CommandLines, Boots <- FALSE,
    Services <- HostServices, Ports <- {}, MaxRounds <- 0,
    Captures <- {"auto"}, Virtuals <- {"disabled"}, Hosts <- OneHost,
    MaxChanges <- 0, pc <- bootPc, service <- bootService

Network == INSTANCE HostLifecycle WITH
    Texts <- {<<>>, <<Line("origin", "wan")>>}, ArgLists <- {<<Upnp>>},
    Boots <- FALSE, Services <- HostServices,
    Ports <- RouterPorts, MaxRounds <- RouterRounds, Captures <- {"auto"},
    Virtuals <- {"disabled"}, Hosts <- OneHost, MaxChanges <- 0,
    pc <- bootPc, service <- bootService

Sources == INSTANCE HostLifecycle WITH
    Texts <- {<<>>}, ArgLists <- {<<>>}, Boots <- FALSE,
    Services <- HostServices, Ports <- {}, MaxRounds <- 0,
    Captures <- CaptureNames,
    Virtuals <- {"disabled", "off", "auto", "force"}, Hosts <- ScreenHosts,
    MaxChanges <- SourceChanges, pc <- bootPc, service <- bootService

screenVars ==
    <<phase, stream, kind, active, dead, screenReady, place, order, holder,
      lease, shows, front, copying, screenPc, productive, waited, got>>
portalVars ==
    <<backend, purpose, portalPc, only, count, waiting, requests, answers,
      progress, handle, token, dbusFd, coreFd, file, struck, bound,
      events, portalReady, failed>>
steamVars ==
    <<proc, born, settings, step, scanned, candidate, helper, location,
      migration, required, outcome>>
identityVars ==
    <<procs, started, identityService, launches, session, truth, dirs, nodes,
      consumer, handed, cleanup>>
displayVars ==
    <<video, up, app, pending, streams, request, task, displays, saved,
      devices, api, happened>>
bootVars ==
    <<text, args, options, bootPc, exit, caps, pool, watchdog, shutdown,
      handler, guard, freed, bootService, tray, undone, upnp, router,
      mdns, setting, host, window, sources, verified, compositor, named,
      opened, changes>>

SteamAsStarted ==
    /\ proc = [p \in SteamPids |-> Steam!NoProcess]
    /\ settings = CHOOSE s \in Steam!Settings : TRUE

(* The fairness of the modules, each for the behaviours it is about. *)
Progress ==
    /\ WF_screenVars(focus = "screen" /\ Screen!WaitTimeout /\ screenPc' = "late")
    /\ WF_screenVars(focus = "screen" /\ \E n \in 0 .. Len(ScreenImages) : Screen!PushTimeout(n))
    /\ WF_screenVars(focus = "screen" /\ \E n \in 0 .. Len(ScreenImages) : Screen!PullImage(n))
    /\ WF_screenVars(focus = "screen" /\ Screen!RejectFrame)
    /\ WF_screenVars(focus = "screen" /\ Screen!FillImage)
    /\ WF_screenVars(focus = "screen" /\ Screen!NoticeDead)
    /\ SF_screenVars(focus = "screen" /\ Screen!TrimAll)
    /\ \A p \in HostPids :
        /\ WF_identityVars(focus = "identity" /\ Identity!BootstrapEnds(p))
        /\ WF_identityVars(focus = "identity" /\ Identity!GamescopeEnds(p))
    /\ WF_displayVars(focus = "display" /\ Display!Tick)
    /\ WF_displayVars(focus = "display" /\ Display!InitModule)
    /\ WF_bootVars(focus = "boot" /\ Boot!Main)
    /\ WF_bootVars(focus = "boot" /\ Boot!Upnp)
    /\ WF_bootVars(focus = "boot" /\ Boot!ForceShutdown)
    /\ \A s \in {"int", "term"} : WF_bootVars(focus = "boot" /\ Boot!Handler(s))

-----------------------------------------------------------------------------
(* Each component starts as it does on its own; the ones that are not     *)
(* looked at start in one of their states and stay there.                  *)
Start ==
    /\ focus \in Checked
    /\ Screen!Init
    /\ Portal!Init
    /\ focus # "portal" => backend = "portal" /\ purpose = "display"
    /\ Steam!Init
    /\ focus # "steam" => SteamAsStarted
    /\ Identity!Init
    /\ IF focus = "parse" THEN Parse!Init
       ELSE Display!Init
    /\ focus \notin {"display", "parse"} => video = [Base EXCEPT !.prepare = FALSE]
    /\ IF focus = "options" THEN Options!Init
       ELSE IF focus = "network" THEN Network!Init
       ELSE IF focus = "sources" THEN Sources!Init
       ELSE Boot!Init
    /\ focus \notin {"boot", "options", "network", "sources"} => text = <<>> /\ args = <<>> /\ caps["main"] = {}

(* Every other component stands still. *)
OnlyFocus ==
    /\ UNCHANGED focus
    /\ IF focus = "screen" THEN TRUE ELSE UNCHANGED screenVars
    /\ IF focus = "portal" THEN TRUE ELSE UNCHANGED portalVars
    /\ IF focus = "steam" THEN TRUE ELSE UNCHANGED steamVars
    /\ IF focus = "identity" THEN TRUE ELSE UNCHANGED identityVars
    /\ IF focus \in {"display", "parse"} THEN TRUE ELSE UNCHANGED displayVars
    /\ IF focus \in {"boot", "options", "network", "sources"} THEN TRUE ELSE UNCHANGED bootVars

Steps ==
    \/ focus = "screen" /\ Screen!Next /\ OnlyFocus
    \/ focus = "portal" /\ Portal!Next /\ OnlyFocus
    \/ focus = "steam" /\ Steam!Next /\ OnlyFocus
    \/ focus = "identity" /\ Identity!Next /\ OnlyFocus
    \/ focus = "display" /\ Display!Next /\ OnlyFocus
    \/ focus = "parse" /\ Parse!Next /\ OnlyFocus
    \/ focus = "boot" /\ Boot!Next /\ OnlyFocus
    \/ focus = "options" /\ Options!Next /\ OnlyFocus
    \/ focus = "network" /\ Network!Next /\ OnlyFocus
    \/ focus = "sources" /\ Sources!Next /\ OnlyFocus

allVars ==
    <<focus, screenVars, portalVars, steamVars, identityVars, displayVars,
      bootVars>>

SuiteSpec == Start /\ [][Steps]_allVars /\ Progress

-----------------------------------------------------------------------------
(* What a part of the host uses was checked for it: a buffer returns to the *)
(* stream it came from (PipewireCapture), a screen is used after its       *)
(* portal session was granted (ScreenCast), one Steam runs and its         *)
(* ancestry was read to the end (SteamPlacement), an environment is that   *)
(* of the compositor, not of a process with its pid (SourceIdentity), and  *)
(* a screen source passed its check, is the session's own on a headless    *)
(* host, and has the worker it needs (HostLifecycle).                      *)
SourcesAreVerified ==
    /\ focus = "screen" => Screen!NoReturnToDeadStream
    /\ focus = "portal" => Portal!GrantedBeforeUse
    /\ focus = "steam" => Steam!OneSteam /\ Steam!AncestryIsComplete
    /\ focus = "identity" => Identity!NoStaleIdentity
    /\ focus = "sources" =>
        Sources!OpensVerified /\ Sources!HeadlessIsVirtual /\ Sources!KmsHasWorker

(* What is lent is given back: the displays are changed for a client that  *)
(* asked for it and are not left changed when nothing uses them            *)
(* (DisplaySettings); the capabilities stay with the two workers that need *)
(* them, a web interface remains, and the ports on the router are closed   *)
(* and the service announced under a free name (HostLifecycle).            *)
HostIsLentOut ==
    /\ focus \in {"display", "parse"} => Display!UnusedIsReverted
    /\ focus = "parse" => Parse!NoModeWithoutSops
    /\ focus = "boot" => Boot!PrivilegesArePlaced
    /\ focus = "options" => Options!InterfaceRemains
    /\ focus = "network" => Network!PortsAreClosed /\ Network!AnnouncedByName

(* A capture whose buffers are all held by idle images goes on, the        *)
(* compositor of a service that died ends, the displays are put back once  *)
(* they are there again, and a shutdown that is asked for ends the process *)
(* after the applications were undone.                                     *)
HostRecovers ==
    /\ Screen!NoStarvation
    /\ Identity!OrphansEnd
    /\ Display!RevertCompletes
    /\ focus = "boot" => Boot!ShutdownEnds
    /\ Boot!UndoneWithPool
=============================================================================
