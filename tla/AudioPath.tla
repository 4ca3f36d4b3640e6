----------------------------- MODULE AudioPath -----------------------------
(***************************************************************************)
(* Audio of the streams (audio.cpp, platform/linux/audio.cpp,              *)
(* platform/windows/audio.cpp): one control of the host's audio shared by  *)
(* every session, a default sink that is replaced while sessions run and   *)
(* put back afterwards, a capture and an encoder thread per session, and   *)
(* the sample buffer of the Windows capture.  A change of the display      *)
(* settings keeps the control too (display_device.cpp).                    *)
(***************************************************************************)
EXTENDS Naturals

CONSTANTS Sessions,
          Platforms,     \* "pulse", "wasapi"
          MaxEvents,     \* bound on what the host and its user do
          MaxRetries,    \* retry_counter of the display's hold
          FrameSize,     \* samples of a packet
          DeviceFrames,  \* samples the device buffers
          MaxBurst       \* bound on the samples one fill meets

VARIABLES
    platform, server, \* the audio server: "up" or, for PulseAudio, "down"
    present,          \* sinks that exist
    default,          \* the default sink of the host
    original,         \* the default before the control was made
    events,
    ctl,              \* audio_ctx_t and its control
    sess,             \* session -> its capture thread
    packets,          \* mail::audio_packets: "open" or "stopped"
    hold,             \* the display's hold on the control: 0, or 1 + retries left
    pos,              \* samples in sample_buf
    stuck             \* the lock of the shared control is never released

audioVars == <<platform, server, present, default, original, events, ctl, sess,
               packets, hold, pos, stuck>>

Sinks == {"host", "virtual", "other"}

NoControl == [refs |-> 0, control |-> FALSE, host |-> "none", null |-> FALSE,
              flag |-> FALSE, restore |-> FALSE, requested |-> "none"]
NoCapture == [step |-> "idle", hostAudio |-> FALSE, sink |-> "none", mic |-> "none",
              shutdown |-> FALSE]

Init ==
    /\ platform \in Platforms /\ server = "up"
    /\ present \in {Sinks, Sinks \ {"virtual"}} /\ default \in {"host", "none"}
    /\ original = "none" /\ events = 0 /\ ctl = NoControl
    /\ sess = [s \in Sessions |-> NoCapture] /\ packets = "open" /\ hold = 0 /\ pos = 0
    /\ stuck = FALSE

-----------------------------------------------------------------------------
(* An operation of a PulseAudio context that failed is refused, and        *)
(* load_null(), unload_null() and the queries wait for its answer all the  *)
(* same.                                                                   *)
NoAnswer == platform = "pulse" /\ server = "down"

(* sink_info(): the default sink and the sinks a stream may be sent to; on *)
(* Linux they are made when they are missing.  A default sink is needed on *)
(* Windows.                                                                *)
SinkInfoFails == default = "none" /\ platform = "wasapi"
NullSink == platform = "pulse" \/ "virtual" \in present

(* start_audio_control(), under the lock of the shared object: without     *)
(* sinks there is a context and no control.  A connection that fails late  *)
(* ends the control, whose destructor waits for the event that init() took.*)
Started ==
    IF ~NoAnswer /\ ~SinkInfoFails
    THEN [NoControl EXCEPT !.refs = 1, !.control = TRUE, !.host = default, !.null = NullSink]
    ELSE [NoControl EXCEPT !.refs = 1]

Take ==
    IF ctl.refs = 0
    THEN /\ ctl' = Started /\ original' = default
         /\ stuck' \in IF NoAnswer THEN BOOLEAN ELSE {FALSE}
         /\ present' = IF platform = "pulse" /\ ctl'.control THEN present \cup {"virtual"} ELSE present
    ELSE ctl' = [ctl EXCEPT !.refs = @ + 1] /\ UNCHANGED <<original, present, stuck>>

(* set_sink(): it fails for a sink that is not there, and when the server  *)
(* refuses.  Windows has a default for each of three roles, and a failure  *)
(* of one leaves the others changed.                                       *)
SetSink(sink, ok) ==
    /\ ok => sink \in present /\ server = "up"
    /\ default' \in IF ok THEN {sink}
                    ELSE IF platform = "wasapi" /\ sink \in present THEN {default, sink}
                    ELSE {default}

(* The end of the control: on Linux the sinks that were made are unloaded, *)
(* and the server finds another default for the one that goes.             *)
Unloads == platform = "pulse" /\ ctl.control /\ server = "up"

Left(sinks) == IF Unloads THEN {IF d = "virtual" THEN "other" ELSE d : d \in sinks} ELSE sinks

(* stop_audio_control(): the default sink is put back, unless there was    *)
(* none.                                                                   *)
RestoreSink == ctl.restore /\ ctl.host \in present /\ server = "up"

Drop ==
    IF ctl.refs = 1
    THEN /\ stuck' = (NoAnswer /\ ctl.control) /\ ctl' = NoControl
         /\ default' \in Left(IF RestoreSink THEN {ctl.host} ELSE {default})
         /\ present' = IF Unloads THEN present \ {"virtual"} ELSE present
    ELSE ctl' = [ctl EXCEPT !.refs = @ - 1] /\ UNCHANGED <<default, present, stuck>>

-----------------------------------------------------------------------------
(* capture() begins: the context is taken. *)
Begin(s) ==
    /\ sess[s].step = "idle" /\ ~stuck
    /\ Take
    /\ \E host \in BOOLEAN :
        sess' = [sess EXCEPT ![s] = [NoCapture EXCEPT !.hostAudio = host,
                                       !.step = IF stuck' THEN "stuck" ELSE IF ctl'.control THEN "sink" ELSE "silent"]]
    /\ UNCHANGED <<platform, server, default, events, packets, hold, pos>>

(* The host's sink, or the virtual one when the client does not want the   *)
(* host to play, or there is none to play on.                              *)
Choice(s) == IF ctl.null /\ (~sess[s].hostAudio \/ ctl.host = "none") THEN "virtual" ELSE ctl.host

(* Only the first to start a session may change the default sink. *)
MayChangeAlways == TRUE
MayChange == ~ctl.flag

Assign(s) ==
    /\ sess[s].step = "sink"
    /\ LET sink == Choice(s)
           change == MayChange /\ ctl.host # sink
       IN  IF change
           THEN \E ok \in BOOLEAN :
                    /\ SetSink(sink, ok)
                    /\ ctl' = [ctl EXCEPT !.flag = TRUE, !.restore = TRUE,
                                          !.requested = IF ok THEN sink ELSE @]
                    /\ sess' = [sess EXCEPT ![s].step = IF ok THEN "mic" ELSE "silent",
                                            ![s].sink = sink]
           ELSE /\ ctl' = [ctl EXCEPT !.restore = IF MayChange THEN FALSE ELSE @, !.flag = TRUE]
                /\ sess' = [sess EXCEPT ![s].step = "mic", ![s].sink = sink]
                /\ UNCHANGED default
    /\ UNCHANGED <<platform, server, present, original, events, packets, hold, pos, stuck>>

(* microphone(): what the last set_sink() asked for, else the default; on  *)
(* Windows a sink that was asked for is captured itself.                   *)
MicSink == IF ctl.requested # "none" THEN ctl.requested ELSE default

Open(s, ok) ==
    /\ sess[s].step \in {"mic", "reopen"} /\ ~(sess[s].step = "reopen" /\ sess[s].shutdown)
    /\ ok => server = "up" /\ MicSink \in present
    /\ sess' = [sess EXCEPT ![s].step = IF ok THEN "capture"
                                        ELSE IF NoAnswer THEN "stuck"
                                        ELSE IF sess[s].step = "mic" THEN "silent" ELSE "reopen",
                            ![s].mic = IF ok THEN MicSink ELSE "none"]
    /\ pos' = 0
    /\ UNCHANGED <<platform, server, present, default, original, events, ctl, packets, hold, stuck>>

-----------------------------------------------------------------------------
(* sample() on Linux reads a packet; an error ends the capture. *)
PulseSample(s) ==
    /\ platform = "pulse" /\ sess[s].step = "capture" /\ ~sess[s].shutdown
    /\ IF server = "up" /\ sess[s].mic \in present
       THEN UNCHANGED sess
       ELSE sess' = [sess EXCEPT ![s].step = "silent", ![s].mic = "none"]
    /\ UNCHANGED <<platform, server, present, default, original, events, ctl, packets, hold, pos, stuck>>

(* The buffer of the Windows capture: room for two packets, or for two     *)
(* fills of the device.                                                    *)
CapacitySingle == IF DeviceFrames > FrameSize THEN DeviceFrames ELSE FrameSize
Capacity == 2 * (IF DeviceFrames > FrameSize THEN DeviceFrames ELSE FrameSize)

FilledUnchecked(n) == pos + n
Filled(n) == IF pos + n > Capacity THEN Capacity ELSE pos + n

(* The notification of another default sink, seen by the next fill: the    *)
(* virtual sink is made the default again, and a capture that follows the  *)
(* default starts over.                                                    *)
FollowsDefault == ctl.requested = "none"

DefaultChanged(s) ==
    /\ platform = "wasapi" /\ sess[s].step = "capture" /\ ~sess[s].shutdown
    /\ default # sess[s].mic
    /\ IF ctl.requested = "virtual"
       THEN \E ok \in BOOLEAN : SetSink("virtual", ok)
       ELSE UNCHANGED default
    /\ sess' = IF FollowsDefault THEN [sess EXCEPT ![s].step = "reopen", ![s].mic = "none"] ELSE sess
    /\ UNCHANGED <<platform, server, present, original, events, ctl, packets, hold, pos, stuck>>

(* _fill_buffer(): every packet the device has; a timeout is silence when the    *)
(* audio is continuous.  A sink that is gone makes the capture start over. *)
Fill(s) ==
    /\ platform = "wasapi" /\ sess[s].step = "capture" /\ ~sess[s].shutdown /\ pos < FrameSize
    /\ IF sess[s].mic \in present
       THEN /\ \/ \E n \in 1 .. MaxBurst : pos' = Filled(n)
               \/ pos' = pos + FrameSize
            /\ UNCHANGED sess
       ELSE sess' = [sess EXCEPT ![s].step = "reopen", ![s].mic = "none"] /\ UNCHANGED pos
    /\ UNCHANGED <<platform, server, present, default, original, events, ctl, packets, hold, stuck>>

(* The rest of sample(): a packet is taken and what is left moves to the   *)
(* front.                                                                  *)
TakePacket(s) ==
    /\ platform = "wasapi" /\ sess[s].step = "capture" /\ pos >= FrameSize
    /\ pos' = pos - FrameSize
    /\ UNCHANGED <<platform, server, present, default, original, events, ctl, sess, packets, hold, stuck>>

(* encodeThread(): an encoder that fails stops the queue it shares with    *)
(* every other one.                                                        *)
EncoderFails(s) ==
    /\ sess[s].step = "capture" /\ packets = "open" /\ packets' = "stopped"
    /\ UNCHANGED <<platform, server, present, default, original, events, ctl, sess, hold, pos, stuck>>

-----------------------------------------------------------------------------
(* The session ends.  The capture thread notices between two samples; one  *)
(* without audio waits for nothing else.                                   *)
Shutdown(s) ==
    /\ sess[s].step # "idle" /\ ~sess[s].shutdown
    /\ sess' = [sess EXCEPT ![s].shutdown = TRUE]
    /\ UNCHANGED <<platform, server, present, default, original, events, ctl, packets, hold, pos, stuck>>

End(s) ==
    /\ sess[s].shutdown /\ sess[s].step \in {"silent", "capture", "reopen"}
    /\ ~stuck /\ Drop
    /\ sess' = [sess EXCEPT ![s] = IF stuck' THEN [NoCapture EXCEPT !.step = "stuck"] ELSE NoCapture]
    /\ packets' = IF \A t \in Sessions \ {s} : sess[t].step = "idle" THEN "open" ELSE packets
    /\ UNCHANGED <<platform, server, original, events, hold, pos>>

(* capture() and release() of the display settings: the control is kept    *)
(* while displays change and until the host's sink is back, or no more     *)
(* tries are left; a second capture() lets go of it first.                 *)
Hold ==
    /\ hold = 0 /\ ~stuck /\ events < MaxEvents /\ events' = events + 1
    /\ Take /\ hold' = 1 + MaxRetries
    /\ UNCHANGED <<platform, server, default, sess, packets, pos>>

SinkAvailable == ctl.control /\ ctl.host # "none" /\ (platform = "pulse" \/ ctl.host \in present)

Release(again) ==
    /\ hold > 0 /\ ~stuck
    /\ IF again \/ SinkAvailable \/ hold = 1
       THEN Drop /\ hold' = 0
       ELSE hold' = hold - 1 /\ UNCHANGED <<ctl, default, present, stuck>>
    /\ UNCHANGED <<platform, server, original, events, sess, packets, pos>>

(* The host: a sink goes with its display or comes back, the default goes  *)
(* to another one, and PulseAudio may end.                                 *)
HostSink ==
    /\ events < MaxEvents /\ events' = events + 1
    /\ \/ /\ "host" \in present /\ present' = present \ {"host"}
          /\ default' = IF default = "host" THEN "other" ELSE default
       \/ "host" \notin present /\ present' = present \cup {"host"} /\ UNCHANGED default
    /\ UNCHANGED <<platform, server, original, ctl, sess, packets, hold, pos, stuck>>

UserDefault ==
    /\ events < MaxEvents /\ events' = events + 1
    /\ default # "other" /\ default' = "other"
    /\ UNCHANGED <<platform, server, present, original, ctl, sess, packets, hold, pos, stuck>>

ServerDies ==
    /\ platform = "pulse" /\ server = "up" /\ events < MaxEvents /\ events' = events + 1
    /\ server' = "down"
    /\ UNCHANGED <<platform, present, default, original, ctl, sess, packets, hold, pos, stuck>>

Next ==
    \/ \E s \in Sessions : \/ Begin(s) \/ Assign(s) \/ PulseSample(s) \/ DefaultChanged(s)
                           \/ Fill(s) \/ TakePacket(s) \/ EncoderFails(s) \/ Shutdown(s) \/ End(s)
                           \/ \E ok \in BOOLEAN : Open(s, ok)
    \/ Hold \/ (\E again \in BOOLEAN : Release(again)) \/ HostSink \/ UserDefault \/ ServerDies

Spec == Init /\ [][Next]_audioVars

-----------------------------------------------------------------------------
(* When the last user of the audio goes, the virtual sink is not left as   *)
(* the default, whatever the sessions asked for and in whatever order they *)
(* came and went: the sink that was the default before them is put back    *)
(* (when there was one, it is present, and the server answers).            *)
HostSinkRestored ==
    [][ctl.refs = 1 /\ ctl'.refs = 0 /\ server = "up"
        /\ original \in present \ {"virtual"}
        => default' # "virtual"]_audioVars

(* The samples never outgrow their buffer, though a fill adds what the     *)
(* device has or a whole packet of silence.                                *)
SamplesFit == pos <= Capacity

(* No audio thread waits for ever: a session can end when the server is    *)
(* gone.                                                                   *)
NobodyWaitsForever == ~stuck /\ \A s \in Sessions : sess[s].step # "stuck"

(* A session hears the sink it chose. *)
HearsItsSink == \A s \in Sessions : sess[s].step = "capture" => sess[s].mic = sess[s].sink

(* One encoder that fails takes no other session's audio with it. *)
EncoderFailsAlone ==
    packets = "stopped" => \A s, t \in Sessions : {sess[s].step, sess[t].step} = {"capture"} => s = t

(* A default the user chose during a session outlives it. *)
UserChoiceKept == [][\A s \in Sessions : End(s) /\ default = "other" => default' = "other"]_audioVars
=============================================================================
