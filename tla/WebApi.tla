------------------------------ MODULE WebApi ------------------------------
(***************************************************************************)
(* The requests of the two web interfaces (confighttp.cpp): what each      *)
(* handler checks, in which order, before it changes anything, what it     *)
(* answers when a check fails, and the actions that outlive the request:   *)
(* quitting, restarting, shutting down the host, updating.  One thread     *)
(* runs the handlers; quit, restart and shutdown go to detached threads.   *)
(* Credentials, sessions, tokens and rate limits have a module of their    *)
(* own (WebSessions), the files that are saved too (WebSettings): here     *)
(* they are checks that pass or fail.                                      *)
(***************************************************************************)
EXTENDS Naturals, Sequences

CONSTANTS MaxProcesses,  \* bound on the processes that replace each other
          Interfaces,    \* settings of the interfaces that are looked at
          Versions       \* driver versions, sequences of numbers

VARIABLES
    ui,          \* the interfaces that are switched on
    configured,  \* credentials are set
    managed,     \* management_ready(): root helpers may be run
    pending,     \* steamshine_lifecycle_pending
    host,        \* host_shutdown_state
    workers,     \* detached threads: what each is about to do
    update,      \* the file web-update.status
    process,     \* "up", "ending" or "off", and whether it starts again
    born,        \* processes started so far
    last,        \* the request that was served last
    quit         \* history: this process acknowledged that it would quit

apiVars == <<ui, configured, managed, pending, host, workers, update, process,
             born, last, quit>>

-----------------------------------------------------------------------------
(* authenticate() *)
Auth == <<"address", "configured", "basic">>

(* authenticate(), then validate_csrf_token() *)
Guarded == Auth \o <<"csrf">>

(* steamshine_handler(), then require_steamshine_session() *)
Session == <<"steamshineUi", "address", "cookie">>

(* steamshine_handler(), then require_steamshine_mutation() *)
Mutation == <<"steamshineUi", "origin", "address", "cookie", "token">>

(* read_steamshine_json(): a body that is no object is refused silently. *)
Json == <<"type", "size", "parse", "object">>

(* page_handler() and getPage(); the root path shows either interface. *)
RootChecks == IF ui.first /\ ui.steamshine THEN <<>> ELSE <<"upstreamUi">> \o Auth

Pages ==
    [sunshine |-> <<"upstreamUi", "visible">> \o Auth,
     page |-> <<"upstreamUi">> \o Auth,
     logout |-> <<"upstreamUi">>,
     welcome |-> <<"upstreamUi", "unconfigured">>]

(* getFaviconImage() to getSteamshineAsset() *)
Assets ==
    [image |-> <<>>, getAsset |-> <<"inside", "exists", "mime">>,
     getSteamshinePage |-> <<"steamshineUi">>,
     getSteamshineAsset |-> <<"steamshineUi", "exists", "mime">>]

(* getCSRFToken(), getApps() *)
TokenAndApps == [getCSRFToken |-> Auth \o <<"do">>, getApps |-> Auth \o <<"parse">>]

(* saveApp(), closeApp(), deleteApp() *)
Applications ==
    [saveApp |-> <<"type">> \o Guarded \o <<"parse", "do">>,
     closeApp |-> Guarded \o <<"do">>,
     deleteApp |-> Guarded \o <<"fields", "do">>]

(* getClients(), updateClient(), unpair(), unpairAll() *)
PairedClients ==
    [getClients |-> Auth, updateClient |-> <<"type">> \o Guarded \o <<"parse", "do">>,
     unpair |-> <<"type">> \o Guarded \o <<"parse", "do">>,
     unpairAll |-> Guarded \o <<"do">>]

(* getConfig(), getLocale(), saveConfig() *)
Configuration ==
    [getConfig |-> Auth, getLocale |-> <<>>,
     saveConfig |-> <<"type">> \o Guarded \o <<"parse", "do">>]

(* getCover(), uploadCover(), getLogs() *)
CoversAndLogs ==
    [getCover |-> Auth \o <<"fields", "exists", "readable">>,
     uploadCover |-> <<"type">> \o Auth \o <<"parse", "fields", "accepted", "do">>,
     getLogs |-> Auth]

(* savePassword(): without credentials anybody may set them. *)
PasswordChecks ==
    <<"type">> \o (IF configured THEN Auth ELSE <<"unconfigured">>)
        \o <<"csrf", "parse", "accepted", "do">>

(* getPendingPairings(), cancelPairing(), savePin() *)
Pairings ==
    [getPendingPairings |-> Auth,
     cancelPairing |-> <<"type">> \o Guarded \o <<"parse", "fields", "do">>,
     savePin |-> <<"type">> \o Guarded \o <<"parse", "fields", "do">>]

(* resetDisplayDevicePersistence(), resetPortalToken(), restart() *)
Resets ==
    [resetDisplayDevicePersistence |-> Guarded \o <<"do">>,
     resetPortalToken |-> Guarded \o <<"do">>, restart |-> Guarded \o <<"do">>]

(* getVirtualInputStatus(), getVirtualInputLicense(),                      *)
(* updateVirtualInputLicense()                                             *)
Licenses ==
    [getVirtualInputStatus |-> Auth, getVirtualInputLicense |-> Auth,
     updateVirtualInputLicense |-> Guarded \o <<"parse", "fields", "do">>]

(* browseDirectory() *)
Browsing == [browseDirectory |-> Auth \o <<"exists">>]

(* steamshine_management_status(), steamshine_authorize_management(): an   *)
(* attempt is counted before the password is tried.                        *)
Management ==
    [managementStatus |-> Session,
     authorizeManagement |-> Mutation \o <<"rate">> \o Json \o <<"fields", "accepted", "do">>]

(* steamshine_setup_status(), steamshine_setup_credentials() *)
Setup ==
    [setupStatus |-> <<"steamshineUi">>,
     setupCredentials |-> <<"steamshineUi", "setupOrigin", "unconfigured">> \o Json
                          \o <<"typed", "accepted", "do">>]

(* steamshine_login(), steamshine_logout() *)
Logins ==
    [login |-> <<"steamshineUi", "origin", "rate">> \o Json \o <<"typed", "accepted", "do">>,
     logout2 |-> Mutation \o <<"do">>]

(* steamshine_lifecycle(): the flag is claimed before anything is answered. *)
Lifecycle == [quit |-> Mutation \o <<"idle", "do">>, restart2 |-> Mutation \o <<"idle", "do">>]

(* steamshine_shutdown_host(), steamshine_shutdown_status() *)
Shutdown ==
    [shutdownHost |-> Mutation \o <<"exists", "idle", "do">>, shutdownStatus |-> Session]

(* steamshine_update_release(), steamshine_update_status() *)
Updates ==
    [updateRelease |-> Mutation \o <<"exists", "readable", "do">>, updateStatus |-> Session]

(* steamshine_session() to steamshine_system_metrics() *)
Profiles ==
    [session |-> Session, status |-> Session, streamProfiles |-> Session,
     saveStreamProfile |-> Mutation \o Json \o <<"fields", "do">>,
     resetStreamProfile |-> Mutation \o Json \o <<"fields", "do">>,
     systemMetrics |-> Session]

(* steamshine_get_apps() to steamshine_close_app() *)
Games ==
    [getApps2 |-> Session \o <<"parse">>,
     saveApp2 |-> Mutation \o Json \o <<"fields", "do">>,
     deleteApp2 |-> Mutation \o <<"fields", "do">>,
     closeApp2 |-> Mutation \o <<"do">>]

(* steamshine_gpu_capabilities() to steamshine_activate_gpu_profile() *)
GpuProfiles ==
    [gpuCapabilities |-> Session, gpuProfiles |-> Session,
     saveGpuProfile |-> Mutation \o Json \o <<"fields", "accepted", "do">>,
     deleteGpuProfile |-> Mutation \o <<"accepted", "do">>,
     activateGpuProfile |-> Mutation \o <<"managed", "accepted", "do">>]

(* steamshine_gamepad_shortcuts_status() to ..._shortcut_delete() *)
Shortcuts ==
    [shortcuts |-> Session, saveShortcut |-> Mutation \o Json \o <<"fields", "accepted", "do">>,
     deleteShortcut |-> Mutation \o <<"accepted", "do">>]

(* steamshine_gamepad_turbo_status(), ..._turbo_save(), steamshine_x52_*() *)
Turbo ==
    [turbo |-> Session, saveTurbo |-> Mutation \o Json \o <<"fields", "accepted", "do">>,
     x52 |-> Session, saveX52 |-> Mutation \o Json \o <<"accepted", "do">>]

(* A bug: the helper of the add-ons is run, then the authorisation asked for. *)
AddonsEarly ==
    [decky |-> Session,
     deckyAction |-> Mutation \o Json \o <<"typed", "fields", "accepted", "do", "managed">>,
     storage |-> Session,
     storageAction |-> Mutation \o Json \o <<"fields", "managed", "accepted", "do">>]

(* steamshine_decky_status(), ..._decky_action(), steamshine_storage_*() *)
Addons ==
    [decky |-> Session,
     deckyAction |-> Mutation \o Json \o <<"typed", "fields", "managed", "accepted", "do">>,
     storage |-> Session,
     storageAction |-> Mutation \o Json \o <<"fields", "managed", "accepted", "do">>]

(* steamshine_steam_cache_status() to steamshine_recording_media() *)
Recordings ==
    [steamCache |-> Session,
     configureSteamCache |-> Mutation \o Json \o <<"fields", "accepted", "do">>,
     recordings |-> Session,
     toggleRecording |-> Mutation \o Json \o <<"fields", "accepted", "do">>,
     recordingSettings |-> Mutation \o Json \o <<"fields", "accepted", "do">>,
     deleteRecording |-> Mutation \o <<"accepted", "do">>,
     recordingMedia |-> Session \o <<"exists", "readable">>]

(* steamshine_terminal_status(), ..._terminal_start(), ..._terminal_stop() *)
Terminals ==
    [terminalStatus |-> Session, terminalStart |-> Mutation \o <<"accepted", "do">>,
     terminalStop |-> Mutation \o Json \o <<"typed", "accepted", "do">>]

(* steamshine_get_config() to steamshine_save_virtual_display_config() *)
Settings ==
    [getConfig2 |-> Session, saveConfig2 |-> Mutation \o Json \o <<"fields", "do">>,
     virtualDisplay |-> Session, gamescopeSources |-> Session,
     saveVirtualDisplay |-> Mutation \o Json \o <<"typed", "do">>]

(* steamshine_pending_pairings() to steamshine_reset_diagnostics() *)
PairingsAndLogs ==
    [pendingPairings |-> Session, pairingPin |-> Mutation \o <<"rate">> \o Json \o <<"typed", "do">>,
     clients |-> Session, revokeClient |-> Mutation \o <<"do">>,
     recentLogs |-> Session, diagnostics |-> Session, resetDiagnostics |-> Mutation \o <<"do">>]

(* The routes of start(), and what is served for every other path. *)
Upstream ==
    {Pages, Assets, TokenAndApps, Applications, PairedClients, Configuration,
     CoversAndLogs, Pairings, Resets, Licenses, Browsing,
     [unknown |-> <<"exists">>]}

Steamshine ==
    {Management, Setup, Logins, Lifecycle, Shutdown, Updates, Profiles, Games,
     GpuProfiles, Shortcuts, Turbo, Addons, Recordings, Terminals, Settings,
     PairingsAndLogs}

-----------------------------------------------------------------------------
(* What decides a check: the state of the service, or the request. *)
Decided ==
    [upstreamUi |-> ui.upstream, visible |-> ui.visible, steamshineUi |-> ui.steamshine,
     configured |-> configured, unconfigured |-> ~configured, managed |-> managed,
     idle |-> ~pending, do |-> TRUE]

MayPass(check) == check \in DOMAIN Decided => Decided[check]
MayFail(check) == check \in DOMAIN Decided => ~Decided[check]

(* Answers written when a check fails: none for a body that is no object   *)
(* or, outside the handlers that catch it, a field of another type; two    *)
(* when setup is asked for again from another origin.                      *)
Refusals(check) ==
    CASE check \in {"object", "typed"} -> 0
      [] check = "setupOrigin" /\ configured -> 2
      [] OTHER -> 1

(* restart() answers nothing: the process is expected to be gone. *)
Answers(h) == IF h = "restart" THEN 0 ELSE 1

(* A bug: the flag is read and set in two steps. *)
ClaimLate(kind) == pending' = pending /\ workers' = workers \cup {kind}

(* compare_exchange_strong() on the flag, the detached thread. *)
Claim(kind) == pending' = TRUE /\ workers' = workers \cup {kind}

(* platf::restart(): registered to run at exit, then the process ends. *)
Restarts == process' = [process EXCEPT !.is = "ending", !.again = TRUE]

Changes(h) ==
    /\ configured' = (configured \/ h \in {"savePassword", "setupCredentials"})
    /\ managed' = (managed \/ h = "authorizeManagement")
    /\ IF h = "quit" THEN Claim("quit")
       ELSE IF h = "restart2" THEN Claim("restart")
       ELSE IF h = "shutdownHost" THEN Claim("shutdown")
       ELSE UNCHANGED <<pending, workers>>
    /\ host' = IF h = "shutdownHost" THEN "pending" ELSE host
    /\ IF h = "updateRelease" THEN update' \in {"pending", "failed"} ELSE UNCHANGED update
    /\ IF h = "restart" THEN Restarts ELSE UNCHANGED process
    /\ quit' = (quit \/ h = "quit")

NoRequest == [handler |-> "none", passed |-> {}, answers |-> 1]

(* A handler runs until a check fails.  A request that changed nothing and *)
(* was answered is not remembered; another one is until the thread that    *)
(* serves them takes the next.                                             *)
Serve(h, checks) ==
    \E stop \in 1 .. Len(checks) + 1 :
        /\ \A i \in 1 .. stop - 1 : MayPass(checks[i])
        /\ stop <= Len(checks) => MayFail(checks[stop])
        /\ LET passed == {checks[i] : i \in 1 .. stop - 1}
               answers == IF stop <= Len(checks) THEN Refusals(checks[stop]) ELSE Answers(h) IN
           /\ last' = IF "do" \in passed \/ answers # 1
                      THEN [handler |-> h, passed |-> passed, answers |-> answers]
                      ELSE NoRequest
           /\ IF "do" \in passed THEN Changes(h)
              ELSE UNCHANGED <<configured, managed, pending, workers, host, update, process, quit>>
        /\ UNCHANGED <<ui, born>>

Request ==
    /\ process.is = "up" /\ last = NoRequest
    /\ \/ \E routes \in Upstream \cup Steamshine :
             \E h \in DOMAIN routes : Serve(h, routes[h])
       \/ Serve("root", RootChecks)
       \/ Serve("savePassword", PasswordChecks)

TakeNext ==
    /\ last # NoRequest /\ last' = NoRequest
    /\ UNCHANGED <<ui, configured, managed, pending, host, workers, update, process, born, quit>>

-----------------------------------------------------------------------------
(* The threads of steamshine_lifecycle(), 200 ms later. *)
QuitOrRestart(kind) ==
    /\ kind \in workers \cap {"quit", "restart"} /\ process.is # "off"
    /\ workers' = workers \ {kind}
    /\ IF kind = "restart" THEN Restarts ELSE process' = [process EXCEPT !.is = "ending"]
    /\ UNCHANGED <<ui, configured, managed, pending, host, update, born, last, quit>>

(* request_host_shutdown() and the store of its result; a refused shutdown *)
(* gives the flag back after it.                                           *)
HostAnswers(accepted) ==
    /\ "shutdown" \in workers
    /\ host' = IF accepted THEN "accepted" ELSE "failed"
    /\ workers' = (workers \ {"shutdown"}) \cup (IF accepted THEN {} ELSE {"release"})
    /\ UNCHANGED <<ui, configured, managed, pending, update, process, born, last, quit>>

ReleaseFlag ==
    /\ "release" \in workers
    /\ workers' = workers \ {"release"} /\ pending' = FALSE
    /\ UNCHANGED <<ui, configured, managed, host, update, process, born, last, quit>>

(* The update job writes its own status, and outlives the process. *)
UpdateRuns ==
    /\ update \in {"pending", "running"}
    /\ update' \in {"running", "success", "failed"}
    /\ UNCHANGED <<ui, configured, managed, pending, host, workers, process, born, last, quit>>

(* The authorisation of the helpers runs out. *)
ManagementEnds ==
    /\ managed /\ managed' = FALSE
    /\ UNCHANGED <<ui, configured, pending, host, workers, update, process, born, last, quit>>

(* The process ends; restart_on_exit() starts the next one. *)
ProcessEnds ==
    /\ process.is = "ending"
    /\ process.again => born < MaxProcesses
    /\ process' = [is |-> IF process.again THEN "up" ELSE "off", again |-> FALSE]
    /\ born' = born + (IF process.again THEN 1 ELSE 0)
    /\ pending' = FALSE /\ host' = "idle" /\ workers' = {} /\ managed' = FALSE
    /\ last' = NoRequest /\ quit' = (quit /\ process.again)
    /\ UNCHANGED <<ui, configured, update>>

Init ==
    /\ ui \in Interfaces
    /\ configured \in BOOLEAN /\ managed = FALSE
    /\ pending = FALSE /\ host = "idle" /\ workers = {} /\ update = "idle"
    /\ process = [is |-> "up", again |-> FALSE] /\ born = 1
    /\ last = NoRequest /\ quit = FALSE

Next ==
    \/ Request
    \/ TakeNext
    \/ \E kind \in {"quit", "restart"} : QuitOrRestart(kind)
    \/ \E accepted \in BOOLEAN : HostAnswers(accepted)
    \/ ReleaseFlag \/ UpdateRuns \/ ManagementEnds \/ ProcessEnds

Spec == Init /\ [][Next]_apiVars

-----------------------------------------------------------------------------
(* is_driver_version_development(), is_driver_version_supported(): the     *)
(* shorter version counts as padded with zeros.                            *)
Part(v, i) == IF i <= Len(v) THEN v[i] ELSE 0

Development(v) == Len(v) >= 3 /\ v[1] = 0 /\ v[2] = 0

IsSupported(v, minimum) ==
    \/ Development(v)
    \/ LET differ == {i \in 1 .. (IF Len(v) > Len(minimum) THEN Len(v) ELSE Len(minimum)) :
                        Part(v, i) # Part(minimum, i)} IN
       \A i \in differ : (\A j \in differ : i <= j) => Part(v, i) > Part(minimum, i)

-----------------------------------------------------------------------------
(* "State-changing API endpoints (POST, DELETE) are protected against      *)
(* Cross-Site Request Forgery": whatever is switched on, whatever else     *)
(* went on, a request that changed something passed every check of its     *)
(* interface first, and one that ran a root helper found it authorised;    *)
(* but for the upload of a cover.                                          *)
ChangesAreGuarded ==
    "do" \in last.passed =>
        /\ \/ {"address", "basic", "csrf"} \subseteq last.passed
           \/ {"steamshineUi", "origin", "address", "cookie", "token"} \subseteq last.passed
           \/ last.handler \in {"getCSRFToken", "uploadCover", "login"}
           \/ "unconfigured" \in last.passed
        /\ last.handler \in {"activateGpuProfile", "deckyAction", "storageAction"}
              => "managed" \in last.passed

(* Of quit, restart and shutdown only one is under way, however the        *)
(* requests and their threads interleave, and a host shutdown the page     *)
(* reports as pending has a thread that decides it.                        *)
OneLifecycleAction ==
    /\ \A one, other \in workers : one = other /\ pending
    /\ host = "pending" => "shutdown" \in workers

(* A newer driver than a supported one is supported too. *)
NewerIsSupported ==
    \A v, w, m \in Versions :
        IsSupported(v, m) /\ ~Development(v) /\ IsSupported(w, v) => IsSupported(w, m)

-----------------------------------------------------------------------------
(* Not so in this code (README, "Observations"). *)

(* A request gets an answer, and one only. *)
EveryRequestAnswered == last.answers = 1

(* A process that said it would quit is not started again. *)
QuitStaysQuit == [][quit => ~(process.is = "ending" /\ process'.is = "up")]_apiVars

(* A shutdown reported as failed can be asked for again. *)
FailedCanRetry == host = "failed" => ~pending
=============================================================================
