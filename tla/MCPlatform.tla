------------------------------ MODULE MCPlatform ------------------------------
(***************************************************************************)
(* Capture, conversion, packets, audio and input devices on small          *)
(* instances, checked as the services are in MCServices: a behaviour runs  *)
(* the component named by focus and leaves the others where they started.  *)
(***************************************************************************)
EXTENDS Integers, Sequences, FiniteSets

CONSTANTS
    Checked,                         \* the components this run is about
    KmsPlanes, KmsImages, KmsChanges,                           \* KmsCapture
    WlrImages, OutputSizes, WlrBuffers, WlrOpen,                \* WaylandCapture
    DxgiImages, DxgiChanges,                                    \* DxgiCapture
    Pictures, ConvertImages, FbcToggles, NvencEncoders, NvencFrames,
                                                                \* EncodeSurface
    PacketBytes, PacketHeader, FrameHeader, WireSizes, Percents, Parities, FramesSent,
    AudioSpace, AudioPackets, Segments, BatchShards, SendFaults, Streamers,
                                                                \* StreamWire
    Listeners, HostEvents, HoldRetries, FrameSize, DeviceFrames, MaxBurst,
                                                                \* AudioPath
    MaxGenerations, Padders, Levels                             \* InputDevices

(* What the code gives these numbers and sets: a packet of samples and the *)
(* buffer of a device are counts, and the sessions are some number; a      *)
(* picture has a width and a height, frames are counted; no image is the   *)
(* absence of one.                                                         *)
ASSUME AudioAssumption ==
    /\ FrameSize \in Nat /\ DeviceFrames \in Nat /\ HoldRetries \in Nat
    /\ IsFiniteSet(Listeners)
ASSUME ImageAssumption == "none" \notin DxgiImages
ASSUME PictureAssumption == Pictures \subseteq Nat \ {0}
ASSUME FramesAssumption == NvencFrames \in Nat
(* config.cpp keeps the percentage between 1 and 255, a client asks for at *)
(* most two parity shards, and a frame has at most 4096 packets.           *)
ASSUME WireAssumption ==
    /\ PacketBytes \in Nat \ {0} /\ PacketHeader \in Nat /\ PacketBytes + PacketHeader >= 3
    /\ FrameHeader \in Nat \ {0}
    /\ Percents \subseteq 1 .. 255 /\ Parities \subseteq 0 .. 2
    /\ \A n \in WireSizes : n \in Nat /\ n + FrameHeader <= 4080 * PacketBytes
ASSUME GroupAssumption == AudioSpace \in Nat \ {0} /\ AudioSpace % 4 = 0
ASSUME BatchAssumption == Segments \in Nat \ {0}

VARIABLES
    focus,   \* the component that runs
    scene, kmsResized, hdrChanged, shape, legible, kmsChanges, worker, names,
    index, kmsWanted, plane, ram, cursorOff, kmsCursor, pixels, kmsPc, mine,
    fds, drawn, kmsShown, compositor, wlrWanted, memory, session, socket,
    link, lost, size, at, result, display, requests, status, info, wlrFrames,
    current, bo, wlbuf, bos, open, exported, written, images, wlrShown,
    overlap, dxgiBackend, dxgiDesk, dxgiPointer, fresh, moved, dxgiResized,
    dxgiChanges, dxgiPc, plan, known, seen, dxgiCursor, dxgiLast, surface,
    out, img, textures, slot, dxgiEnc, context, cb, produced, consumed,
    opened, convertBackend, device, captured, source, convertPointer, dirty,
    target, fbc, toggles, convertEnc, rfi, asked, viewer, ctx, fec, minimum,
    frame, lowseq, counter, wire, wireFrames, broken, audioSeq, shards, base,
    parity, heard, inbox, posted, peer, answers, pings, control, seq,
    handled, messages, system, batch, sent, faults, qos, asking, tagged,
    linked, platform, server, present, default, original, events, ctl, sess,
    packets, hold, pos, stuck, generation, used, alive, conn, offered,
    active, backoff, pressed, pointerDesk, touchHeld, penHeld, steady,
    client, event, pad, level, pointerLast, told

Compositor(globals, monitors, modifiers) ==
    [globals |-> globals, monitors |-> monitors, modifiers |-> modifiers]
Named(name, number) == [name |-> name, number |-> number]
Gamescopes ==
    {Compositor({"xdg", "screencopy", "dmabuf"}, <<"one", "two">>, m) : m \in BOOLEAN}
AnyCompositor ==
    {Compositor(g, m, TRUE) : g \in SUBSET {"xdg", "screencopy", "dmabuf"},
                              m \in {<<>>, <<"one", "two">>}}

(* The primary planes of the card. *)
Scanouts == <<"p1", "p2">>

(* A host with GSO or USO, and one without. *)
LinuxHost == [name |-> "linux", segments |-> TRUE]
Hosts == [name : {"linux", "windows"}, segments : BOOLEAN]

-----------------------------------------------------------------------------
Kms == INSTANCE KmsCapture WITH
    Planes <- KmsPlanes, Images <- KmsImages, MaxChanges <- KmsChanges,
    resized <- kmsResized, changes <- kmsChanges, wanted <- kmsWanted,
    cursor <- kmsCursor, pc <- kmsPc, shown <- kmsShown

Wlr == INSTANCE WaylandCapture WITH
    Linked <- TRUE, Compositors <- Gamescopes, Wanted <- {Named("two", 0)},
    Memories <- {"ram", "vram"}, Images <- WlrImages, Sizes <- OutputSizes,
    MaxBuffers <- WlrBuffers, MaxOpen <- WlrOpen, wanted <- wlrWanted,
    frames <- wlrFrames, shown <- wlrShown

WlrStart == INSTANCE WaylandCapture WITH
    Linked <- FALSE, Compositors <- AnyCompositor,
    Wanted <- {Named("two", 0), Named("absent", 0), Named("2", 2)},
    Memories <- {"ram"}, Images <- WlrImages, Sizes <- {1}, MaxBuffers <- 1,
    MaxOpen <- 1, wanted <- wlrWanted, frames <- wlrFrames,
    shown <- wlrShown

Dxgi == INSTANCE DxgiCapture WITH
    Images <- DxgiImages, MaxChanges <- DxgiChanges, backend <- dxgiBackend,
    desk <- dxgiDesk, pointer <- dxgiPointer, resized <- dxgiResized,
    changes <- dxgiChanges, pc <- dxgiPc, cursor <- dxgiCursor,
    last <- dxgiLast, enc <- dxgiEnc

Convert == INSTANCE EncodeSurface WITH
    Backends <- {"gl", "vulkan"}, MaxImages <- ConvertImages, Sizes <- Pictures,
    MaxToggles <- 0, RefFrames <- {0}, DefaultRefs <- 4, MaxEncoders <- 0,
    MaxFrames <- 0, backend <- convertBackend, pointer <- convertPointer,
    enc <- convertEnc

Fbc == INSTANCE EncodeSurface WITH
    Backends <- {"gl"}, MaxImages <- 0, Sizes <- Pictures,
    MaxToggles <- FbcToggles, RefFrames <- {0}, DefaultRefs <- 4, MaxEncoders <- 0,
    MaxFrames <- 0, backend <- convertBackend, pointer <- convertPointer,
    enc <- convertEnc

Nvenc == INSTANCE EncodeSurface WITH
    Backends <- {"gl"}, MaxImages <- 0, Sizes <- Pictures,
    MaxToggles <- 0, RefFrames <- {0, 2}, DefaultRefs <- 4,
    MaxEncoders <- NvencEncoders, MaxFrames <- NvencFrames,
    backend <- convertBackend,
    pointer <- convertPointer, enc <- convertEnc

Wire == INSTANCE StreamWire WITH
    Slice <- PacketBytes, Insert <- PacketHeader, Header <- FrameHeader,
    FrameSizes <- WireSizes, FecPercents <- Percents, MinParities <- Parities,
    SeqSpace <- 8, MaxFrames <- FramesSent, MaxAudio <- 0, MaxPings <- 0, MaxMessages <- 0,
    SegMax <- 1, MaxShards <- 0, MaxFaults <- 0, Systems <- {LinuxHost},
    QosSessions <- {}, frames <- wireFrames

AudioWire == INSTANCE StreamWire WITH
    Slice <- 2, Insert <- 1, Header <- 1, FrameSizes <- {1},
    FecPercents <- {20}, MinParities <- {0}, SeqSpace <- AudioSpace,
    MaxFrames <- 0, MaxAudio <- AudioPackets, MaxPings <- 0, MaxMessages <- 0, SegMax <- 1,
    MaxShards <- 0, MaxFaults <- 0, Systems <- {LinuxHost},
    QosSessions <- {}, frames <- wireFrames

Control == INSTANCE StreamWire WITH
    Slice <- 2, Insert <- 1, Header <- 1, FrameSizes <- {1},
    FecPercents <- {20}, MinParities <- {0}, SeqSpace <- 8, MaxFrames <- 0,
    MaxAudio <- 0, MaxPings <- 4, MaxMessages <- 3, SegMax <- 1,
    MaxShards <- 0, MaxFaults <- 0, Systems <- {LinuxHost},
    QosSessions <- {}, frames <- wireFrames

Send == INSTANCE StreamWire WITH
    Slice <- 2, Insert <- 1, Header <- 1, FrameSizes <- {1},
    FecPercents <- {20}, MinParities <- {0}, SeqSpace <- 8, MaxFrames <- 0,
    MaxAudio <- 0, MaxPings <- 0, MaxMessages <- 0, SegMax <- Segments,
    MaxShards <- BatchShards, MaxFaults <- SendFaults, Systems <- Hosts, QosSessions <- {},
    frames <- wireFrames

Qos == INSTANCE StreamWire WITH
    Slice <- 2, Insert <- 1, Header <- 1, FrameSizes <- {1},
    FecPercents <- {20}, MinParities <- {0}, SeqSpace <- 8, MaxFrames <- 0,
    MaxAudio <- 0, MaxPings <- 0, MaxMessages <- 0, SegMax <- 2,
    MaxShards <- 0, MaxFaults <- 2, Systems <- Hosts,
    QosSessions <- Streamers, frames <- wireFrames

Audio == INSTANCE AudioPath WITH
    Sessions <- Listeners, Platforms <- {"pulse", "wasapi"},
    MaxEvents <- HostEvents, MaxRetries <- HoldRetries

Pointer == INSTANCE InputDevices WITH
    Pauses <- FALSE, Padders <- {}, Levels <- {},
    desk <- pointerDesk, last <- pointerLast

Rumble == INSTANCE InputDevices WITH
    MaxGenerations <- 0, Pauses <- FALSE,
    desk <- pointerDesk, last <- pointerLast

kmsVars ==
    <<scene, kmsResized, hdrChanged, shape, legible, kmsChanges, worker,
      names, index, kmsWanted, plane, ram, cursorOff, kmsCursor, pixels,
      kmsPc, mine, fds, drawn, kmsShown>>
wlrVars ==
    <<compositor, wlrWanted, memory, session, socket, link, lost, size, at,
      result, display, requests, status, info, wlrFrames, current, bo,
      wlbuf, bos, open, exported, written, images, wlrShown, overlap>>
dxgiVars ==
    <<dxgiBackend, dxgiDesk, dxgiPointer, fresh, moved, dxgiResized,
      dxgiChanges, dxgiPc, plan, known, seen, dxgiCursor, dxgiLast,
      surface, out, img, textures, slot, dxgiEnc, context, cb, produced,
      consumed, opened>>
convertVars ==
    <<convertBackend, device, captured, source, convertPointer, dirty, target,
      fbc, toggles, convertEnc, rfi, asked, viewer>>
wireVars ==
    <<ctx, fec, minimum, frame, lowseq, counter, wire, wireFrames, broken,
      audioSeq, shards, base, parity, heard, inbox, posted, peer,
      answers, pings, control, seq, handled, messages, system, batch,
      sent, faults, qos, asking, tagged, linked>>
audioVars ==
    <<platform, server, present, default, original, events, ctl, sess,
      packets, hold, pos, stuck>>
pointerVars ==
    <<generation, used, alive, conn, offered, active, backoff, pressed,
      pointerDesk, touchHeld, penHeld, steady, client, event, pad,
      level, pointerLast, told>>
-----------------------------------------------------------------------------
(* Each component starts as it does on its own; the ones that are not     *)
(* looked at start in one of their states and stay there.                  *)
Start ==
    /\ focus \in Checked
    /\ Kms!Init
    /\ focus # "kms" => scene = [p \in Kms!Displays |-> "ok"] /\ shape = CHOOSE s \in Kms!Shapes : TRUE
    /\ IF focus = "wlrStart" THEN WlrStart!Init
       ELSE Wlr!Init
    /\ focus \notin {"wlr", "wlrStart"} => memory = "ram" /\ compositor.modifiers
    /\ Dxgi!Init
    /\ focus # "dxgi" => dxgiPointer
    /\ IF focus = "fbc" THEN Fbc!Init
       ELSE IF focus = "nvenc" THEN Nvenc!Init
       ELSE Convert!Init
    /\ focus \notin {"convert", "fbc", "nvenc"} => convertBackend = "gl"
    /\ IF focus = "audioWire" THEN AudioWire!Init
       ELSE IF focus = "control" THEN Control!Init
       ELSE IF focus = "send" THEN Send!Init
       ELSE IF focus = "qos" THEN Qos!Init
       ELSE Wire!Init
    /\ focus \notin {"wire", "audioWire", "control", "send", "qos"} => fec = 20 /\ minimum = 0
    /\ Audio!Init
    /\ focus # "audio" => platform = "pulse" /\ default = "host" /\ present = Audio!Sinks
    /\ IF focus = "pad" THEN Rumble!Init
       ELSE Pointer!Init

(* Every other component stands still. *)
OnlyFocus ==
    /\ UNCHANGED focus
    /\ IF focus = "kms" THEN TRUE ELSE UNCHANGED kmsVars
    /\ IF focus \in {"wlr", "wlrStart"} THEN TRUE ELSE UNCHANGED wlrVars
    /\ IF focus = "dxgi" THEN TRUE ELSE UNCHANGED dxgiVars
    /\ IF focus \in {"convert", "fbc", "nvenc"} THEN TRUE ELSE UNCHANGED convertVars
    /\ IF focus \in {"wire", "audioWire", "control", "send", "qos"} THEN TRUE ELSE UNCHANGED wireVars
    /\ IF focus = "audio" THEN TRUE ELSE UNCHANGED audioVars
    /\ IF focus \in {"pointer", "pad"} THEN TRUE ELSE UNCHANGED pointerVars

Steps ==
    \/ focus = "kms" /\ Kms!Next /\ OnlyFocus
    \/ focus = "wlr" /\ Wlr!Next /\ OnlyFocus
    \/ focus = "wlrStart" /\ WlrStart!Next /\ OnlyFocus
    \/ focus = "dxgi" /\ Dxgi!Next /\ OnlyFocus
    \/ focus = "convert" /\ Convert!Next /\ OnlyFocus
    \/ focus = "fbc" /\ Fbc!Next /\ OnlyFocus
    \/ focus = "nvenc" /\ Nvenc!Next /\ OnlyFocus
    \/ focus = "wire" /\ Wire!Next /\ OnlyFocus
    \/ focus = "audioWire" /\ AudioWire!Next /\ OnlyFocus
    \/ focus = "control" /\ Control!Next /\ OnlyFocus
    \/ focus = "send" /\ Send!Next /\ OnlyFocus
    \/ focus = "qos" /\ Qos!Next /\ OnlyFocus
    \/ focus = "audio" /\ Audio!Next /\ OnlyFocus
    \/ focus = "pointer" /\ Pointer!Next /\ OnlyFocus
    \/ focus = "pad" /\ Rumble!Next /\ OnlyFocus

allVars ==
    <<focus, kmsVars, wlrVars, dxgiVars, convertVars, wireVars, audioVars,
      pointerVars>>

SuiteSpec == Start /\ [][Steps]_allVars

-----------------------------------------------------------------------------
(* A frame that is handed on shows the desktop and the pointer as they     *)
(* were captured: what KmsCapture blends in, what a compositor that        *)
(* answers in time has copied (WaylandCapture), what DxgiCapture and its   *)
(* Windows Graphics Capture backend deliver, and where EncodeSurface draws *)
(* it in the encoder's surface.                                            *)
PicturesAreCurrent ==
    /\ focus = "kms" => Kms!CursorIsCurrent /\ Kms!DrawsTheOverlap
    /\ focus \in {"wlr", "wlrStart"} => Wlr!AnsweredIsWhole
    /\ focus = "dxgi" => Dxgi!FrameIsCurrent /\ Dxgi!ConsumedFrameIsOpen
    /\ focus = "convert" => Convert!PictureFits

(* From the capture to the client nothing is written over or left behind:  *)
(* a descriptor has one owner (WaylandCapture), a texture that waits for   *)
(* the encoder is not touched (DxgiCapture), a converted surface shows the *)
(* image it was converted from, NvFBC grabs with the cursor as it was      *)
(* asked, and a frame that confirms an invalidated reference can be        *)
(* decoded (EncodeSurface).                                                *)
FramesStayWhole ==
    /\ []Wlr!DescriptorsAreOwned /\ []Fbc!GrabsAsAsked
    /\ Dxgi!HeldImageIsStable
    /\ Convert!ShowsTheImage /\ Nvenc!ConfirmedIsDecodable

(* StreamWire: a frame of any size can be put together again from as many  *)
(* packets as its parity promises, no initialization vector is used twice, *)
(* and parity covers the audio packets of its own group; a batch leaves in *)
(* order whatever the kernel refuses of it, and the traffic class of a     *)
(* stream lasts as long as the stream.                                     *)
WireIsSound ==
    /\ focus = "wire" => Wire!FramesDecode /\ Wire!FreshIv
    /\ focus = "send" => Send!BatchLeavesOnce
    /\ focus = "qos" => Qos!QosHolds
    /\ focus = "audioWire" => AudioWire!FreshIv /\ AudioWire!ParityCoversItsGroup

(* InputDevices: what one session holds down another one's release does    *)
(* not lift, and a gamepad tells its new owner the feedback there is.      *)
(* AudioPath: a burst of samples stays within the buffer it is put into.   *)
DevicesAreShared ==
    /\ focus = "pointer" => Pointer!HoldIsShared
    /\ focus = "pad" => Rumble!FeedbackIsCurrent
    /\ focus = "audio" => Audio!SamplesFit

(* AudioPath: the sink that was the host's default is put back when the    *)
(* last user of the audio goes.                                            *)
HostSinkRestored == Audio!HostSinkRestored
=============================================================================
