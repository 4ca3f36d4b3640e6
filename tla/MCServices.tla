------------------------------ MODULE MCServices ------------------------------
(***************************************************************************)
(* The control plane on small instances.  The components share no variable *)
(* that matters to the properties below, so a behaviour runs one of them,  *)
(* named by focus, and leaves the others where they started: the run is    *)
(* the union of their state spaces, not the product.                       *)
(***************************************************************************)
EXTENDS RtspLaunch

CONSTANTS
    Checked,                         \* the components this run is about
    Commands, BigPictures,           \* AppProcess, one thread
    Tasks, Delays, PoolTime, Producers, MaxSent, MaxElements,
                                     \* Handover
    Ids, Lifetime, Limit, Window, WebTime, MaxCreds,      \* WebSessions
    Shells, Persistent, Conns,       \* Terminal
    Feeds, QueueBytes, Capacities, MaxCommands, MaxFrames, MaxFiles,
                                     \* Recording
    Devices, Uids, MaxPending, Timeout, PingTimeout, MaxClock, MaxIds,
                                     \* Pairing
    OwnedKeys, PlainKeys, SettingValues, Players, Networks, HomeNetwork,
    MaxProfiles, CustomProfiles, LowestPower, HighestPower
                                     \* WebSettings

(* What the code gives these numbers and sets: counts, delays and bounds   *)
(* are natural numbers, a queue holds at least one item, a shell that tmux *)
(* keeps is a shell, a setting with an API of its own is not on the        *)
(* settings pages, and a card allows some power limit.                     *)
ASSUME AppAssumption == Commands \in Nat
ASSUME PoolAssumption == PoolTime \in Nat /\ Delays \subseteq Nat
ASSUME MailAssumption == MaxElements \in Nat \ {0}
ASSUME PairingAssumption == Timeout \in Nat
ASSUME TerminalAssumption == Persistent \subseteq Shells
ASSUME SettingsAssumption == OwnedKeys \cap PlainKeys = {}
ASSUME PowerAssumption ==
    LowestPower \in Nat /\ HighestPower \in Nat /\ LowestPower <= HighestPower

VARIABLES
    focus,   \* the component that runs
    input, app, it, placebo, handle, deferred, origin, orphans, due, child,
    pc, then, up, tasks, timers, fate, worker, until, running, clock,
    overflow, queue, open, sent, sender, reader, taken, lost, event, post,
    creds, issued, webSessions, stored, attempts, token, changing,
    loginPending, actions, now, ended, unsaved, ui, configured, managed,
    lifecyclePending, hostShutdown, lifecycleWorkers, updateStatus,
    webProcess, born, webRequest, saidQuit, file, live, page, apps, served,
    profiles, kept, acked, torn, card, helperGranted, gpuCaps, gpuFields,
    gpuLibrary, gpuChosen, told, restored, backend, known, attached,
    shellReader, stopping, subs, conn, target, peer, registered, webOp,
    service, acceptor, recordArmed, recording, activeFeed, commands, muxer,
    piping, writer, command, files, capacity, sentFrames, asked, made,
    pairings, result, waiter, clients, savedClients, pairClock, opened,
    approved, answered, pairedBy, granted

AppOrigins == {"none", "attached", "owned"}

(* Either interface first, the upstream one hidden or shown. *)
BothInterfaces ==
    {[upstream |-> TRUE, visible |-> v, steamshine |-> TRUE, first |-> ~v] : v \in BOOLEAN}

DriverVersions == {<<0, 0, 1>>, <<0, 9>>, <<1>>, <<1, 2>>, <<1, 0, 1>>}

(* Custom profiles in and out of the card's range, with and without an     *)
(* offset, and with a governor that the CPU does not offer.                *)
PerformanceSettings ==
    {[power |-> 3, cpu |-> 1, clock |-> 2], [power |-> 5, cpu |-> 1, clock |-> 0],
     [power |-> 0, cpu |-> 9, clock |-> 0]}
PerformanceCards == {[gpu |-> g, od |-> g, cpu |-> g] : g \in BOOLEAN}

-----------------------------------------------------------------------------
Route == INSTANCE SessionRoute

App == INSTANCE AppProcess WITH
    N <- Commands, BigPicture <- BigPictures, Origins <- AppOrigins, Threads <- {"https"},
    Edits <- FALSE

AppThreads == INSTANCE AppProcess WITH
    N <- 1, BigPicture <- {1}, Origins <- AppOrigins,
    Threads <- {"https", "web"}, Edits <- TRUE

Queues == INSTANCE Handover WITH MaxTime <- PoolTime

Web == INSTANCE WebSessions WITH
    MaxTime <- WebTime, pending <- loginPending, sessions <- webSessions

Api == INSTANCE WebApi WITH
    MaxProcesses <- 2, Interfaces <- BothInterfaces,
    Versions <- DriverVersions, pending <- lifecyclePending,
    host <- hostShutdown, workers <- lifecycleWorkers,
    update <- updateStatus, process <- webProcess, last <- webRequest,
    quit <- saidQuit

Settings == INSTANCE WebSettings WITH
    Owned <- OwnedKeys, Plain <- PlainKeys, Values <- SettingValues,
    Names <- {1, 2}, Clients <- Players, Networks <- Networks,
    DefaultNetwork <- HomeNetwork, MaxApps <- 1, MaxProfiles <- MaxProfiles,
    Customs <- {}, CustomSettings <- {}, Lowest <- LowestPower,
    Highest <- HighestPower,
    Cards <- {[gpu |-> FALSE, od |-> FALSE, cpu |-> FALSE]},
    granted <- helperGranted, caps <- gpuCaps, hw <- gpuFields,
    library <- gpuLibrary, chosen <- gpuChosen

Performance == INSTANCE WebSettings WITH
    Owned <- {}, Plain <- {}, Values <- {1}, Names <- {}, Clients <- {},
    Networks <- Networks, DefaultNetwork <- HomeNetwork, MaxApps <- 0,
    MaxProfiles <- 0, Customs <- CustomProfiles,
    CustomSettings <- PerformanceSettings, Lowest <- LowestPower,
    Highest <- HighestPower, Cards <- PerformanceCards,
    granted <- helperGranted, caps <- gpuCaps, hw <- gpuFields,
    library <- gpuLibrary, chosen <- gpuChosen

Term == INSTANCE Terminal WITH reader <- shellReader

Rec == INSTANCE Recording WITH armed <- recordArmed

Pair == INSTANCE Pairing

routeVars ==
    <<input>>
appVars ==
    <<app, it, placebo, handle, deferred, origin, orphans, due, child, pc,
      then, up>>
poolVars ==
    <<tasks, timers, fate, worker, until, running, clock>>
mailVars ==
    <<overflow, queue, open, sent, sender, reader, taken, lost, event, post>>
webVars ==
    <<creds, issued, webSessions, stored, attempts, token, changing,
      loginPending, actions, now, ended, unsaved>>
apiVars ==
    <<ui, configured, managed, lifecyclePending, hostShutdown,
      lifecycleWorkers, updateStatus, webProcess, born, webRequest,
      saidQuit>>
settingsVars ==
    <<file, live, page, apps, served, profiles, kept, acked, torn, card,
      helperGranted, gpuCaps, gpuFields, gpuLibrary, gpuChosen, told,
      restored>>
terminalVars ==
    <<backend, known, attached, shellReader, stopping, subs, conn, target,
      peer, registered, webOp, service, acceptor>>
recordingVars ==
    <<recordArmed, recording, activeFeed, commands, muxer, piping, writer,
      command, files, capacity, sentFrames, asked, made>>
pairingVars ==
    <<pairings, result, waiter, clients, savedClients, pairClock, opened,
      approved, answered, pairedBy, granted>>
-----------------------------------------------------------------------------
(* Each component starts as it does on its own; the ones that are not     *)
(* looked at start in one of their states and stay there.                  *)
Start ==
    /\ focus \in Checked
    /\ Init
    /\ focus # "launch" => owner = [l \in Launches |-> CHOOSE c \in Clients : TRUE]
    /\ input \in Route!PrepareInputs
    /\ focus # "route" => input = CHOOSE i \in Route!PrepareInputs : TRUE
    /\ IF focus = "threads" THEN AppThreads!Init
       ELSE App!Init
    /\ Queues!PoolInit
    /\ Queues!MailInit
    /\ focus # "mail" => overflow = CHOOSE o \in Queues!Policies : TRUE
    /\ Web!Init
    /\ Api!Init
    /\ focus # "api" => configured /\ ui.first
    /\ IF focus = "performance" THEN Performance!Init
       ELSE Settings!Init
    /\ focus \notin {"settings", "performance"} => ~helperGranted /\ ~gpuCaps.authorized
    /\ Term!Init
    /\ Rec!Init
    /\ focus # "recording" => capacity = CHOOSE c \in Capacities : TRUE
    /\ Pair!Init

(* Every other component stands still. *)
OnlyFocus ==
    /\ UNCHANGED focus
    /\ IF focus = "launch" THEN TRUE ELSE UNCHANGED vars
    /\ IF focus = "route" THEN TRUE ELSE UNCHANGED routeVars
    /\ IF focus \in {"app", "threads"} THEN TRUE ELSE UNCHANGED appVars
    /\ IF focus = "pool" THEN TRUE ELSE UNCHANGED poolVars
    /\ IF focus = "mail" THEN TRUE ELSE UNCHANGED mailVars
    /\ IF focus = "web" THEN TRUE ELSE UNCHANGED webVars
    /\ IF focus = "api" THEN TRUE ELSE UNCHANGED apiVars
    /\ IF focus \in {"settings", "performance"} THEN TRUE ELSE UNCHANGED settingsVars
    /\ IF focus = "terminal" THEN TRUE ELSE UNCHANGED terminalVars
    /\ IF focus = "recording" THEN TRUE ELSE UNCHANGED recordingVars
    /\ IF focus = "pairing" THEN TRUE ELSE UNCHANGED pairingVars

Steps ==
    \/ focus = "launch" /\ Next /\ OnlyFocus
    \/ focus = "route" /\ input' \in Route!PrepareInputs /\ OnlyFocus
    \/ focus = "app" /\ App!Next /\ OnlyFocus
    \/ focus = "threads" /\ AppThreads!Next /\ OnlyFocus
    \/ focus = "pool" /\ Queues!PoolNext /\ OnlyFocus
    \/ focus = "mail" /\ Queues!MailNext /\ OnlyFocus
    \/ focus = "web" /\ Web!Next /\ OnlyFocus
    \/ focus = "api" /\ Api!Next /\ OnlyFocus
    \/ focus = "settings" /\ Settings!Next /\ OnlyFocus
    \/ focus = "performance" /\ Performance!Next /\ OnlyFocus
    \/ focus = "terminal" /\ Term!Next /\ OnlyFocus
    \/ focus = "recording" /\ Rec!Next /\ OnlyFocus
    \/ focus = "pairing" /\ Pair!Next /\ OnlyFocus

allVars ==
    <<focus, vars, routeVars, appVars, poolVars, mailVars, webVars, apiVars,
      settingsVars, terminalVars, recordingVars, pairingVars>>

SuiteSpec == Start /\ [][Steps]_allVars /\ Fairness

-----------------------------------------------------------------------------
(* SessionRoute: the route of any launch, whatever changed since the last, *)
(* is the documented one.                                                  *)
RouteAsDocumented == focus = "route" => Route!RoutedAsDocumented(input)

(* AppProcess: undo commands run exactly once each, in reverse order, and  *)
(* an idle manager has nothing of the last application left.               *)
ApplicationIsUndone == focus = "app" => App!UndoMatchesDo /\ App!IdleIsClean

(* AppProcess: no undo command is passed over in a physical session.       *)
PhysicalUndoRuns == [][focus = "threads" /\ AppThreads!PassesOver => origin # "none"]_allVars

(* Handover: no worker sleeps past a task that is due; what is received    *)
(* was sent, in order, and waits no longer than the receiver sleeps.       *)
WaitersAreServed ==
    /\ focus = "pool" => Queues!NoMissedWakeup
    /\ focus = "mail" => Queues!OrderedHandover

(* WebSessions: a web session that ended is never valid again.  WebApi: a  *)
(* request that changed something passed the checks of its interface       *)
(* first, and of quit, restart and shutdown one is under way at most.      *)
WebIsGuarded ==
    /\ focus = "web" => Web!EndedStaysEnded
    /\ focus = "api" => Api!ChangesAreGuarded /\ Api!OneLifecycleAction /\ Api!NewerIsSupported

(* WebSettings: saving a page never changes the settings others own, and   *)
(* one stored profile of a client and network is the active one.           *)
SettingsAreKept ==
    /\ focus = "settings" => Settings!OwnedSettingsKept /\ Settings!OneActiveProfile
    /\ focus = "performance" => Performance!PerformanceIsKept

(* Terminal: after the service stopped, no shell process is left behind. *)
NoShellLeftBehind == focus = "terminal" => Term!NoShellLeftBehind

(* Recording: a file holds the frames of one stream. *)
OneStreamPerRecording == focus = "recording" => Rec!OneStreamPerRecording

(* Pairing: a client is paired only after somebody entered its PIN. *)
OnlyApprovedClients == focus = "pairing" => Pair!OnlyApprovedClients
=============================================================================
