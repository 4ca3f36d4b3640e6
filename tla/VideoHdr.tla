------------------------------ MODULE VideoHdr ------------------------------
(***************************************************************************)
(* Codec and dynamic range of a stream, from ANNOUNCE to the encoder:      *)
(* select_codec() and codec_policy::select(), the stored profile, the HDR  *)
(* policy, apply_hdr_policy(), the colour space of the encode device, the  *)
(* encode session, and the HDR state signalled to the client.  hdr_status  *)
(* is one record for the process; the source may change its mode at any    *)
(* time, and a renewed display runs the same steps again.                  *)
(*                                                                         *)
(* probe_encoders() of video.cpp: which encoder is chosen at start-up and  *)
(* before a launch, and which HEVC mode is advertised.  validate_encoder() *)
(* opens a display and tries the encoder; what the host can do and when    *)
(* the display is lost is chosen freely.  AV1 follows HEVC line by line    *)
(* and is left out.                                                        *)
(***************************************************************************)
EXTENDS Naturals, Sequences

CONSTANTS
    Players,      \* the streams
    MaxChanges    \* bound on the changes of the source

Codecs == {"h264", "hevc", "av1"}
Policies == {"off", "auto", "require"}

VARIABLES
    policy,       \* config::video.steamshine_hdr_policy
    codecPolicy,  \* config::video.codec_policy
    recovery,     \* config::video.codec_fallback is h264
    tested,       \* the probed encoder: codec -> flags
    source,       \* the source: is_hdr() and whether metadata can be read
    changes,      \* changes of the source so far
    request,      \* player -> its launch and ANNOUNCE values
    range,        \* player -> config.dynamicRange
    saw,          \* player -> disp.is_hdr() when the policy was applied
    color,        \* player -> colour space of the encode device
    signal,       \* player -> hdr_info raised to the client
    step,         \* player -> where its start-up is
    hdrActive     \* hdr_status.active

hdrVars == <<policy, codecPolicy, recovery, tested, source, changes, request,
             range, saw, color, signal, step, hdrActive>>

Requests == [hdr : BOOLEAN, ten : BOOLEAN, codec : Codecs,
             profileOff : BOOLEAN, wide : BOOLEAN]
Flags == {"passed", "ten"}

Init ==
    /\ policy \in Policies /\ codecPolicy \in {"auto", "hevc"}
    /\ recovery \in BOOLEAN
    /\ \E t \in SUBSET Flags :
          tested = [c \in Codecs |-> IF c = "h264" THEN {"passed"} ELSE t]
    /\ source \in [hdr : BOOLEAN, metadata : BOOLEAN]
    /\ changes = 0
    /\ request \in [Players -> Requests]
    /\ range = [p \in Players |-> 0]
    /\ saw = [p \in Players |-> FALSE]
    /\ color = [p \in Players |-> "none"]
    /\ signal = [p \in Players |-> FALSE]
    /\ step = [p \in Players |-> "announce"]
    /\ hdrActive = FALSE

fixed == <<policy, codecPolicy, recovery, tested, request>>

(* codec_policy::select(): the codec the client chose, usable and allowed  *)
(* by the administrator, or H.264 in place of a codec that is unusable.    *)
Usable(c, ten) == "passed" \in tested[c] /\ (ten => "ten" \in tested[c])
Accepted(r) ==
    IF codecPolicy # "auto" /\ r.codec # codecPolicy
    THEN recovery /\ ~Usable(codecPolicy, r.ten) /\ r.codec = "h264"
             /\ Usable("h264", r.ten)
    ELSE Usable(r.codec, r.ten)

(* The codec is selected after a profile that turns HDR off has lowered    *)
(* the range; the policy then rejects, lowers or raises it.                *)
Announce(p) ==
    LET r == request[p]
        asked == r.ten /\ ~r.profileOff
        refused ==
            \/ ~Accepted([r EXCEPT !.ten = asked])
            \/ policy = "require" /\ ~(r.hdr /\ r.ten)
            \/ policy = "auto" /\ r.hdr /\ ~r.ten
        value == IF policy = "off" THEN 0
                 ELSE IF policy = "require" \/ asked THEN 1 ELSE 0
    IN  /\ step[p] = "announce"
        /\ IF refused \/ (value = 1 /\ r.codec = "h264")
           THEN step' = [step EXCEPT ![p] = "rejected"] /\ UNCHANGED range
           ELSE /\ step' = [step EXCEPT ![p] = "start"]
                /\ range' = [range EXCEPT ![p] = value]
        /\ UNCHANGED <<fixed, source, changes, saw, color, signal, hdrActive>>

(* capture(): a range the encoder was not tested for is lowered, and the   *)
(* diagnostics of the process, hdr_status among them, are reset.           *)
StartCapture(p) ==
    /\ step[p] = "start"
    /\ range' = [range EXCEPT ![p] =
                    IF "ten" \in tested[request[p].codec] THEN @ ELSE 0]
    /\ hdrActive' = FALSE
    /\ step' = [step EXCEPT ![p] = "select"]
    /\ UNCHANGED <<fixed, source, changes, saw, color, signal>>

(* hdr_policy::evaluate() over the gates of apply_hdr_policy(). *)
Gates(r) ==
    /\ r.ten /\ source.hdr /\ source.metadata
    /\ r.codec # "h264" /\ {"passed", "ten"} \subseteq tested[r.codec]

(* A bug: a fallback to SDR is allowed while the source is in HDR mode. *)
RefusedLenient(r) == policy = "require" /\ ~(r.hdr /\ Gates(r))

(* Refused: HDR is required and a gate fails, or the stream would fall     *)
(* back to SDR from a source that is in HDR mode.                          *)
Refused(r) ==
    \/ policy = "require" /\ ~(r.hdr /\ Gates(r))
    \/ r.hdr /\ source.hdr /\ ~(policy # "off" /\ Gates(r))

(* A stream that did not ask for HDR keeps its bit depth. *)
Select(p) ==
    LET r == request[p]
    IN  /\ step[p] = "select"
        /\ hdrActive' = FALSE
        /\ saw' = [saw EXCEPT ![p] = source.hdr]
        /\ IF Refused(r)
           THEN step' = [step EXCEPT ![p] = "rejected"] /\ UNCHANGED range
           ELSE /\ step' = [step EXCEPT ![p] = "device"]
                /\ range' = [range EXCEPT ![p] =
                     IF ~r.hdr THEN IF policy = "off" THEN 0 ELSE @
                     ELSE IF policy # "off" /\ Gates(r) THEN 1 ELSE 0]
        /\ UNCHANGED <<fixed, source, changes, color, signal>>

(* colorspace_from_client_config() with the mode the source has now; the   *)
(* wide SDR space needs ten bits.                                          *)
ColorOf(r, value) ==
    IF value > 0 /\ source.hdr THEN "bt2020"
    ELSE IF r.wide /\ value > 0 THEN "bt2020sdr" ELSE "rec709"

MakeDevice(p) ==
    /\ step[p] = "device"
    /\ color' = [color EXCEPT ![p] = ColorOf(request[p], range[p])]
    /\ step' = [step EXCEPT ![p] = "open"]
    /\ UNCHANGED <<fixed, source, changes, range, saw, signal, hdrActive>>

(* The encode session checks the tested flags again. *)
OpenSession(p) ==
    /\ step[p] = "open"
    /\ IF Usable(request[p].codec, range[p] > 0)
       THEN /\ hdrActive' = (color[p] = "bt2020")
            /\ step' = [step EXCEPT ![p] = "signal"]
       ELSE step' = [step EXCEPT ![p] = "select"] /\ UNCHANGED hdrActive
    /\ UNCHANGED <<fixed, source, changes, range, saw, color, signal>>

(* encode_run() reads hdr_status; metadata that is gone ends the stream's  *)
(* encoder before a frame is sent.                                         *)
Signal(p) ==
    /\ step[p] = "signal"
    /\ IF hdrActive /\ ~source.metadata
       THEN /\ hdrActive' = FALSE
            /\ step' = [step EXCEPT ![p] = "select"] /\ UNCHANGED signal
       ELSE /\ signal' = [signal EXCEPT ![p] = hdrActive]
            /\ step' = [step EXCEPT ![p] = "encode"] /\ UNCHANGED hdrActive
    /\ UNCHANGED <<fixed, source, changes, range, saw, color>>

Reinit(p) ==
    /\ step[p] = "encode"
    /\ step' = [step EXCEPT ![p] = "select"]
    /\ UNCHANGED <<fixed, source, changes, range, saw, color, signal, hdrActive>>

SourceChanges ==
    /\ changes < MaxChanges /\ changes' = changes + 1
    /\ \E s \in [hdr : BOOLEAN, metadata : BOOLEAN] : s # source /\ source' = s
    /\ UNCHANGED <<fixed, range, saw, color, signal, step, hdrActive>>

Next ==
    \/ \E p \in Players :
          \/ Announce(p) \/ StartCapture(p) \/ Select(p) \/ MakeDevice(p)
          \/ OpenSession(p) \/ Signal(p) \/ Reinit(p)
    \/ SourceChanges

Spec == Init /\ [][Next]_hdrVars

-----------------------------------------------------------------------------
(* apply_hdr_policy(): "a late fallback from active HDR fails closed".  A  *)
(* stream that asked for HDR and met an HDR source when its policy was     *)
(* applied, at the start or after any renewal of the display, never        *)
(* encodes eight bits from it.                                             *)
NoLateFallback ==
    \A p \in Players :
        step[p] \in {"open", "signal", "encode"} /\ request[p].hdr /\ saw[p] =>
            range[p] = 1

(* "Main10 SDR remains independent from HDR when the client did not        *)
(* request HDR": such a stream is never encoded in the HDR colour space.   *)
HdrOnlyWhenRequested ==
    \A p \in Players : color[p] = "bt2020" => request[p].hdr

(* The HDR state the client is told is that of its own encoder. *)
SignalMatchesEncoder ==
    \A p \in Players : step[p] = "encode" => (signal[p] <=> color[p] = "bt2020")

-----------------------------------------------------------------------------
CONSTANTS
    Order,        \* the encoders in the order of the list, "software" last
    Modes,        \* the values of hevc_mode in the configuration
    MaxProbes     \* bound on the probes

Encoders == {Order[i] : i \in DOMAIN Order}
Features == {"h264", "hevc", "ten", "ten444"}

VARIABLES
    able,         \* encoder -> what it can do on this host
    claims,       \* encoder -> its capability bits after validation
    chosen,       \* chosen_encoder, or "none"
    previous,     \* previous_encoder of the running probe
    hevcMode,     \* active_hevc_mode
    wantMode,     \* config::video.hevc_mode
    wantEncoder,  \* config::video.encoder, or "none"
    owned,        \* steamos_virtual_session::active()
    left,         \* encoder_list of the running probe, as places of Order
    place,        \* the loop has tried those before this place
    phase,        \* "idle", "named", "codec", "any", "finish"
    probes,       \* probes so far
    probed        \* "none", or what the last probe returned, with `owned`

probeVars == <<able, claims, chosen, previous, hevcMode, wantMode,
               wantEncoder, owned, left, place, phase, probes, probed>>
hostVars == <<able, wantMode, wantEncoder>>

ProbeInit ==
    /\ able \in [Encoders -> SUBSET Features]
    /\ claims = [e \in Encoders |-> {}]
    /\ chosen = "none" /\ previous = "none"
    /\ hevcMode = 0 /\ wantMode \in Modes
    /\ wantEncoder \in {"none", Order[1]}
    /\ owned = FALSE
    /\ left = {} /\ place = 1 /\ phase = "idle" /\ probes = 0 /\ probed = "none"

(* A bug: an encoder of last resort is kept like any other. *)
KeepsAny(again) == chosen # "none" /\ ~again

(* A good encoder is kept unless it is the last resort or the platform     *)
(* asks for another enumeration.                                           *)
Keeps(again) == chosen \notin {"none", "software"} /\ ~again

(* A virtual session allows neither software encoding nor NVENC. *)
List == {i \in DOMAIN Order : ~(owned /\ Order[i] \in {"software", "nvenc"})}

Begin(again) ==
    /\ phase = "idle" /\ probes < MaxProbes
    /\ probes' = probes + 1
    /\ IF Keeps(again)
       THEN /\ probed' = IF owned THEN "owned" ELSE "plain"
            /\ UNCHANGED <<chosen, previous, hevcMode, left, place, phase>>
       ELSE /\ previous' = chosen /\ chosen' = "none"
            /\ hevcMode' = wantMode
            /\ left' = List /\ place' = 1 /\ probed' = "none"
            /\ phase' = IF wantEncoder # "none" THEN "named" ELSE "codec"
    /\ UNCHANGED <<hostVars, claims, owned>>

(* allow_encoder_probing(): no display device is active. *)
ProbeRefused ==
    /\ phase = "idle" /\ probes < MaxProbes
    /\ probes' = probes + 1 /\ probed' = "failed"
    /\ UNCHANGED <<hostVars, claims, chosen, previous, hevcMode, owned, left,
                   place, phase>>

(* The bits validate_encoder() leaves: all are set first; those of a codec *)
(* that is not tried or not supported are cleared; HEVC's own bit follows  *)
(* its test, and each further bit its test, unless HEVC failed or the      *)
(* display could not be opened again.                                      *)
Validated(e, bits) ==
    LET tries == hevcMode >= 2 \/ (hevcMode = 0 /\ e # "software")
    IN  IF ~tries THEN bits = {"h264"}
        ELSE \/ "hevc" \notin able[e] /\ bits \in {{"h264"}, {"h264", "ten", "ten444"}}
             \/ /\ "hevc" \in able[e]
                /\ {"h264", "hevc"} \subseteq bits
                /\ able[e] \cap {"ten", "ten444"} \subseteq bits

Valid(e) == "h264" \in able[e]

(* The mode of adjust_encoder_constraints_hevc(). *)
Adjusted(bits) ==
    IF \/ hevcMode = 5 /\ {"ten", "ten444"} \cap bits = {}
       \/ hevcMode = 4 /\ "ten444" \notin bits
       \/ hevcMode = 3 /\ "ten" \notin bits
       \/ hevcMode = 2 /\ "hevc" \notin bits
    THEN 0 ELSE hevcMode

(* The second loop wants an encoder that meets the configured mode. *)
Meets(bits) ==
    hevcMode >= 2 => "hevc" \in bits /\ Adjusted(bits) # 0

Found(e, bits, mode) ==
    /\ claims' = [claims EXCEPT ![e] = bits]
    /\ chosen' = e /\ hevcMode' = mode /\ phase' = "finish"
    /\ UNCHANGED <<left, place>>

Drop(i) == left' = left \ {i}

(* The next of the list from a place on. *)
NextFrom(n) == {i \in left : i >= n /\ \A j \in left : j >= n => i <= j}

(* The encoder named in the configuration, whatever its codecs; one that   *)
(* fails leaves the list.                                                  *)
TryNamed ==
    /\ phase = "named"
    /\ LET at == {i \in left : Order[i] = wantEncoder}
       IN  IF at = {}
           THEN phase' = "codec" /\ UNCHANGED <<claims, chosen, hevcMode, left, place>>
           ELSE \E i \in at :
               \/ /\ Valid(Order[i])
                  /\ \E b \in SUBSET Features :
                        Validated(Order[i], b) /\ Found(Order[i], b, Adjusted(b))
               \/ /\ Drop(i) /\ phase' = "codec"
                  /\ UNCHANGED <<claims, chosen, hevcMode, place>>
    /\ UNCHANGED <<hostVars, previous, owned, probes, probed>>

(* With a codec requirement: one more encoder of the list. *)
TryForCodec ==
    /\ phase = "codec"
    /\ IF hevcMode < 2 \/ NextFrom(place) = {}
       THEN /\ phase' = "any" /\ place' = 1
            /\ UNCHANGED <<claims, chosen, hevcMode, left>>
       ELSE \E i \in NextFrom(place) :
            LET e == Order[i]
            IN  \/ /\ Valid(e)
                   /\ \E b \in SUBSET Features :
                        /\ Validated(e, b)
                        /\ IF Meets(b) THEN Found(e, b, hevcMode)
                           ELSE /\ claims' = [claims EXCEPT ![e] = b]
                                /\ place' = i + 1
                                /\ UNCHANGED <<chosen, hevcMode, left, phase>>
                \/ /\ Drop(i)
                   /\ UNCHANGED <<claims, chosen, hevcMode, place, phase>>
    /\ UNCHANGED <<hostVars, previous, owned, probes, probed>>

(* Then the first that validates; none leaves the program without one. *)
TryAny ==
    /\ phase = "any"
    /\ IF left = {}
       THEN /\ phase' = "idle" /\ probed' = "failed"
            /\ UNCHANGED <<claims, chosen, hevcMode, left, place>>
       ELSE /\ UNCHANGED probed
            /\ \E i \in NextFrom(1) :
               \/ /\ Valid(Order[i])
                  /\ \E b \in SUBSET Features :
                        Validated(Order[i], b) /\ Found(Order[i], b, Adjusted(b))
               \/ /\ Drop(i)
                  /\ UNCHANGED <<claims, chosen, hevcMode, place, phase>>
    /\ UNCHANGED <<hostVars, previous, owned, probes>>

(* Mode 0 becomes what the chosen encoder offers: 1 nothing, 2 HEVC, +1    *)
(* ten bits, +2 ten bits with full chroma.                                 *)
Offered(bits) ==
    IF "hevc" \notin bits THEN 1
    ELSE 2 + (IF "ten" \in bits THEN 1 ELSE 0) + (IF "ten444" \in bits THEN 2 ELSE 0)

Finish ==
    /\ phase = "finish"
    /\ hevcMode' = IF hevcMode = 0 THEN Offered(claims[chosen]) ELSE hevcMode
    /\ probed' = IF owned THEN "owned" ELSE "plain"
    /\ phase' = "idle"
    /\ UNCHANGED <<hostVars, claims, chosen, previous, owned, left, place, probes>>

(* A launch on a virtual session, or its end; both between probes. *)
SessionChanges ==
    /\ phase = "idle"
    /\ owned' = ~owned /\ probed' = "none"
    /\ UNCHANGED <<hostVars, claims, chosen, previous, hevcMode, left, place,
                   phase, probes>>

ProbeNext ==
    \/ \E again \in BOOLEAN : Begin(again)
    \/ ProbeRefused \/ TryNamed \/ TryForCodec \/ TryAny \/ Finish \/ SessionChanges

ProbeSpec == ProbeInit /\ [][ProbeNext]_probeVars

-----------------------------------------------------------------------------
(* "must not silently turn a capture failure into CPU software encoding":  *)
(* a probe that succeeds for a virtual session leaves a hardware encoder,  *)
(* whatever was chosen before the session began.                           *)
NoSoftwareForOwnedSession == probed = "owned" => chosen \notin {"none", "software"}

(* "2 - passed": a mode of 2 or more is advertised only for an encoder     *)
(* whose HEVC test passed.                                                 *)
ModeMeansPassed ==
    probed \in {"owned", "plain"} /\ hevcMode >= 2 => "hevc" \in claims[chosen]
=============================================================================
