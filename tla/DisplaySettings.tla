--------------------------- MODULE DisplaySettings ---------------------------
(***************************************************************************)
(* Display settings of a stream (display_device.cpp): what a session may   *)
(* change is derived from the user's options and the client's request; one *)
(* scheduled task applies it or reverts it, at once and then every five    *)
(* seconds, while displays come and go; what was changed is on disk and is *)
(* reverted after a crash.  The launch, resume and cancel requests, the    *)
(* end of a session and the end of the application are its callers.        *)
(***************************************************************************)
EXTENDS Naturals, Sequences

CONSTANTS Configs,    \* values of config::video, see Video
          Clients,    \* the requests of clients
          Devices,    \* displays of the host
          MaxEvents   \* bound on requests, crashes and changes of the displays

VARIABLES
    video,     \* config::video
    up,        \* the service runs
    app,       \* an application was started and not terminated
    pending,   \* a launch was raised and its client has not connected
    streams,   \* sessions of the RTSP server
    request,   \* the https thread: "none", "launch" or "resume"
    task,      \* the function in the scheduler
    displays,  \* {}: as the user left them, or the configuration that was applied
    saved,     \* the original settings are in the state file
    devices, api,    \* displays that are connected; the display API answers
    happened

displayVars == <<video, up, app, pending, streams, request, task, displays, saved,
                 devices, api, happened>>

NoTask == [kind |-> "none", config |-> {}, tried |-> {}]
ApplyTask(c) == [NoTask EXCEPT !.kind = "apply", !.config = c]
RevertTask(t) == [NoTask EXCEPT !.kind = "revert", !.tried = t]

Init ==
    /\ video \in Configs /\ up = TRUE /\ app = FALSE /\ pending = FALSE /\ streams = 0
    /\ request = "none" /\ task = NoTask /\ displays = {} /\ saved = FALSE
    /\ devices = Devices /\ api = TRUE /\ happened = 0

Event == happened < MaxEvents /\ happened' = happened + 1

-----------------------------------------------------------------------------
(* parse_device_prep_option(): the user may leave the displays alone. *)
Disabled == ~video.prepare

(* A written value is "bad", "none" (empty) or names a mode. *)
Parses(v) == v # "bad"

(* parse_resolution_option() and parse_refresh_rate_option(): "fail", or   *)
(* the value, "none" when nothing is to be changed.  The resolution is the *)
(* client's to give: it asks for optimised game settings.                  *)
ParseResolution(c) ==
    IF video.resolution = "off" \/ ~c.sops THEN "none"
    ELSE IF video.resolution = "automatic"
    THEN IF c.resolution = "negative" THEN "fail" ELSE c.resolution
    ELSE IF video.manualResolution \in {"bad", "none"} THEN "fail" ELSE video.manualResolution

ParseRate(c) ==
    CASE video.rate = "off" -> "none"
      [] video.rate = "automatic" -> IF c.fps = "negative" THEN "fail" ELSE c.fps
      [] OTHER -> IF video.manualRate \in {"bad", "none"} THEN "fail" ELSE video.manualRate

(* determine_remapping_type(): the entries of the list for what is         *)
(* automatic; the fields that are not mapped are not read.                 *)
MapsResolution == video.resolution = "automatic"
MapsRate == video.rate = "automatic"

Entry(e) ==
    [wantResolution |-> IF MapsResolution THEN e.wantResolution ELSE "none",
     resolution     |-> IF MapsResolution THEN e.resolution ELSE "none",
     wantRate       |-> IF MapsRate THEN e.wantRate ELSE "none",
     rate           |-> IF MapsRate THEN e.rate ELSE "none"]

Broken(e) == \/ \E f \in DOMAIN e : ~Parses(e[f])
             \/ e.resolution = "none" /\ e.rate = "none"

(* An entry with a resolution is skipped when the client does not want its *)
(* settings optimised, and one that asks for another mode always.          *)
SkippedByMode(e, c, mode) ==
    \/ e.wantResolution \notin {"none", mode.resolution}
    \/ e.wantRate \notin {"none", mode.rate}
Skipped(e, c, mode) ==
    \/ ~c.sops /\ (e.wantResolution # "none" \/ e.resolution # "none")
    \/ e.wantResolution \notin {"none", mode.resolution}
    \/ e.wantRate \notin {"none", mode.rate}

(* remap_display_mode_if_needed(): the first entry that is not skipped, if *)
(* none before it is broken.                                               *)
Remap(c, mode) ==
    LET list == IF MapsResolution \/ MapsRate
                THEN [i \in DOMAIN video.remap |-> Entry(video.remap[i])] ELSE << >>
        stops == {i \in DOMAIN list : Broken(list[i]) \/ ~Skipped(list[i], c, mode)}
        stop == list[CHOOSE i \in stops : \A j \in stops : i <= j]
    IN  IF stops = {} THEN mode
        ELSE IF Broken(stop) THEN [mode EXCEPT !.resolution = "fail"]
        ELSE [resolution |-> IF stop.resolution # "none" THEN stop.resolution ELSE mode.resolution,
              rate       |-> IF stop.rate # "none" THEN stop.rate ELSE mode.rate]

(* parse_configuration(): the configuration, or none when the options are  *)
(* no good.                                                                *)
Parse(c) ==
    LET mode == [resolution |-> ParseResolution(c), rate |-> ParseRate(c)]
        mapped == Remap(c, mode)
    IN  IF "fail" \in {mode.resolution, mode.rate, mapped.resolution} THEN {}
        ELSE {[resolution |-> mapped.resolution, rate |-> mapped.rate, sops |-> c.sops]}

-----------------------------------------------------------------------------
(* The settings manager (libdisplaydevice): it needs every display that is *)
(* to be restored.                                                         *)
Outcome(t, d, s) == [task |-> t, displays |-> d, saved |-> s]

(* The task of configure_display(): tried again while the API is not there. *)
Apply(c) ==
    IF ~api THEN {Outcome(ApplyTask(c), displays, saved)}
    ELSE {Outcome(NoTask, c, TRUE), Outcome(NoTask, displays, saved)}

(* The task of revert_configuration(): tried again when the API was not    *)
(* there, or when the displays are others than at the last failure.        *)
RevertSticky(tried) ==
    IF devices = tried THEN {Outcome(RevertTask(tried), displays, saved)}
    ELSE IF ~api \/ (saved /\ devices # Devices) THEN {Outcome(RevertTask(devices), displays, saved)}
    ELSE {Outcome(NoTask, IF saved THEN {} ELSE displays, FALSE)}
Revert(tried) ==
    IF devices = tried THEN {Outcome(RevertTask(tried), displays, saved)}
    ELSE IF ~api THEN {Outcome(RevertTask(tried), displays, saved)}
    ELSE IF saved /\ devices # Devices THEN {Outcome(RevertTask(devices), displays, saved)}
    ELSE {Outcome(NoTask, IF saved THEN {} ELSE displays, FALSE)}

(* revert_configuration_unlocked(try_once). *)
RevertOnce == IF api /\ devices = Devices /\ saved THEN {} ELSE displays

Becomes(outcomes) ==
    \E o \in outcomes : task' = o.task /\ displays' = o.displays /\ saved' = o.saved

(* schedule() runs the task at once in the caller, unless it is delayed,   *)
(* and replaces the task that was there.                                   *)
ScheduleRevert ==
    Becomes(IF video.delay THEN {Outcome(RevertTask({}), displays, saved)} ELSE Revert({}))

(* configure_display(): a configuration that does not parse changes        *)
(* nothing.                                                                *)
Configure(c) ==
    IF Disabled THEN ScheduleRevert
    ELSE IF Parse(c) = {} THEN UNCHANGED <<task, displays, saved>>
    ELSE Becomes(Apply(Parse(c)))

(* The next interval of the scheduler. *)
Tick ==
    /\ up /\ task.kind # "none"
    /\ Becomes(IF task.kind = "apply" THEN Apply(task.config) ELSE Revert(task.tried))
    /\ UNCHANGED <<video, up, app, pending, streams, request, devices, api, happened>>

-----------------------------------------------------------------------------
(* launch() and resume() with no session: the displays are prepared before *)
(* the encoders are probed.                                                *)
Launch(c) ==
    /\ up /\ request = "none" /\ ~app /\ Event
    /\ IF streams = 0 THEN Configure(c) ELSE UNCHANGED <<task, displays, saved>>
    /\ request' = "launch"
    /\ UNCHANGED <<video, up, app, pending, streams, devices, api>>

Resume(c) ==
    /\ up /\ request = "none" /\ app /\ Event
    /\ IF streams = 0 THEN Configure(c) ELSE UNCHANGED <<task, displays, saved>>
    /\ request' = "resume"
    /\ UNCHANGED <<video, up, app, pending, streams, devices, api>>

(* A launch that fails while nobody streams reverts; a resume does not. *)
RequestFailsKeeps ==
    /\ request # "none" /\ request' = "none"
    /\ UNCHANGED <<video, up, app, pending, streams, task, displays, saved, devices, api, happened>>
RequestFails ==
    /\ request # "none" /\ request' = "none"
    /\ IF request = "launch" /\ streams = 0 THEN ScheduleRevert ELSE UNCHANGED <<task, displays, saved>>
    /\ UNCHANGED <<video, up, app, pending, streams, devices, api, happened>>

RequestDone ==
    /\ request # "none" /\ request' = "none" /\ pending' = TRUE
    /\ app' = (app \/ request = "launch")
    /\ UNCHANGED <<video, up, streams, task, displays, saved, devices, api, happened>>

Connect ==
    /\ pending /\ streams < 2 /\ pending' = FALSE /\ streams' = streams + 1
    /\ UNCHANGED <<video, up, app, request, task, displays, saved, devices, api, happened>>

(* The timer of launch_session_raise(). *)
ConnectTimeout ==
    /\ pending /\ pending' = FALSE
    /\ UNCHANGED <<video, up, app, streams, request, task, displays, saved, devices, api, happened>>

(* The last session ends: while an application runs, the displays are      *)
(* reverted only if the user wants it.                                     *)
Disconnect ==
    /\ streams > 0 /\ streams' = streams - 1
    /\ IF streams = 1 /\ (video.onDisconnect \/ ~app) THEN ScheduleRevert
       ELSE UNCHANGED <<task, displays, saved>>
    /\ UNCHANGED <<video, up, app, pending, request, devices, api, happened>>

(* proc_t::terminate() of an application that ran. *)
AppEnds ==
    /\ up /\ app /\ app' = FALSE /\ ScheduleRevert
    /\ UNCHANGED <<video, up, pending, streams, request, devices, api, happened>>

(* cancel(): every session, the application, and the displays. *)
Cancel ==
    /\ up /\ request = "none" /\ Event
    /\ streams' = 0 /\ app' = FALSE /\ ScheduleRevert
    /\ UNCHANGED <<video, up, pending, request, devices, api>>

(* reset_persistence(): the user keeps the displays as they are. *)
ResetPersistence ==
    /\ up /\ Event /\ task' = NoTask /\ saved' = FALSE
    /\ UNCHANGED <<video, up, app, pending, streams, request, displays, devices, api>>

(* The service ends, with one attempt to revert, or is killed; init() of   *)
(* the next one reverts what the state file says.                          *)
Stop ==
    /\ up /\ Event /\ up' = FALSE /\ task' = NoTask
    /\ app' = FALSE /\ pending' = FALSE /\ streams' = 0 /\ request' = "none"
    /\ displays' \in {displays, RevertOnce}
    /\ saved' = (saved /\ (displays' # {}))
    /\ UNCHANGED <<video, devices, api>>

InitModule ==
    /\ ~up /\ up' = TRUE /\ Becomes(Revert({}))
    /\ UNCHANGED <<video, app, pending, streams, request, devices, api, happened>>

HostChanges ==
    /\ Event /\ \/ \E d \in Devices : devices' = (devices \ {d}) \cup ({d} \ devices) /\ UNCHANGED api
                \/ api' = ~api /\ UNCHANGED devices
    /\ UNCHANGED <<video, up, app, pending, streams, request, task, displays, saved>>

Next ==
    \/ \E c \in Clients : Launch(c) \/ Resume(c)
    \/ RequestFails \/ RequestDone \/ Connect \/ ConnectTimeout \/ Disconnect
    \/ AppEnds \/ Cancel \/ ResetPersistence \/ Stop \/ InitModule \/ HostChanges \/ Tick

Fairness == WF_displayVars(Tick) /\ WF_displayVars(InitModule)

Spec == Init /\ [][Next]_displayVars /\ Fairness

-----------------------------------------------------------------------------
(* A client that does not want its game settings optimised never has the   *)
(* resolution of the host changed for it, by option, by hand or by         *)
(* remapping.                                                              *)
NoModeWithoutSops ==
    \A config \in displays \cup task.config : ~config.sops => config.resolution = "none"

(* A revert that was asked for is carried out, after a crash as well: if   *)
(* the displays are connected and the API answers from some time on, the   *)
(* task does not wait for ever.                                            *)
RevertCompletes ==
    <>[](devices = Devices /\ api) => [](task.kind = "revert" => <>(task.kind # "revert"))

(* A stream keeps the displays it was given while its application runs:    *)
(* nothing reverts them under it.                                          *)
StreamKeepsDisplays ==
    [][streams > 0 /\ streams' > 0 /\ app /\ app' /\ displays # {} => displays' # {}]_displayVars

(* When nobody streams, no application runs and no request is under way,   *)
(* changed displays are going to be reverted.                              *)
UnusedIsReverted ==
    up /\ streams = 0 /\ ~app /\ ~pending /\ request = "none" /\ displays # {} /\ saved
        => task.kind = "revert"
=============================================================================
