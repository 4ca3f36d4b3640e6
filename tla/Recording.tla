----------------------------- MODULE Recording ------------------------------
(***************************************************************************)
(* Recording of the encoded stream (stream_recording.cpp): the sender      *)
(* threads hand frames to one writer thread through a bounded queue, the   *)
(* Web thread arms and disarms it, and the writer feeds an FFmpeg muxer,   *)
(* publishes the finished file and prunes old ones.  A frame is one unit   *)
(* of the queue's bytes; a file's size is the number of its frames.        *)
(***************************************************************************)
EXTENDS Naturals, Sequences, SequencesExt

CONSTANTS
    Feeds,         \* the streams that may be recorded
    QueueBytes,    \* MAXIMUM_QUEUE_BYTES
    Capacities,    \* the capacities the Web client may set
    MaxCommands,   \* bound on the queue when a stop is added
    MaxFrames,     \* bound on the frames of a stream
    MaxFiles       \* bound on the recordings made

VARIABLES
    armed,         \* enabled_
    recording,     \* recording_
    activeFeed,    \* active_stream_id_, or "none"
    commands,      \* commands_
    muxer,         \* frames written to the FFmpeg pipe, when it is open
    piping,        \* pipe_fd_ is open
    writer,        \* the writer: "idle", "start", "finalize", "over"
    command,       \* the command it works on
    files,         \* sizes of the published recordings, oldest first
    capacity,      \* capacity_mb_
    sentFrames,    \* stream -> frames of it sent so far
    asked,         \* the last word to the Web client was "armed", and nothing
                   \* since then entitled the service to disarm
    made           \* recordings begun

recVars == <<armed, recording, activeFeed, commands, muxer, piping, writer,
             command, files, capacity, sentFrames, asked, made>>
fileVars == <<files, capacity, made>>

Frame(f, i, idr) == [kind |-> "frame", feed |-> f, index |-> i, idr |-> idr]
Stop(f) == [kind |-> "stop", feed |-> f, index |-> 0, idr |-> FALSE]
Shut == [kind |-> "shutdown", feed |-> "none", index |-> 0, idr |-> FALSE]

Init ==
    /\ armed = FALSE /\ recording = FALSE /\ activeFeed = "none"
    /\ commands = <<>> /\ muxer = <<>> /\ piping = FALSE
    /\ writer = "idle" /\ command = Shut
    /\ files = <<>> /\ capacity \in Capacities
    /\ sentFrames = [f \in Feeds |-> 0]
    /\ asked = FALSE /\ made = 0

(* set_enabled(): a request for the present state changes nothing. *)
SetEnabled(on) ==
    /\ writer # "over" /\ armed # on /\ Len(commands) < MaxCommands
    /\ armed' = on /\ asked' = on
    /\ commands' = IF on THEN commands ELSE Append(commands, Stop("none"))
    /\ UNCHANGED <<recording, activeFeed, muxer, piping, writer, command,
                   sentFrames, fileVars>>

Total(s) == FoldSeq(LAMBDA a, b : a + b, 0, s)

(* enforce_capacity(): the oldest go while the rest is too large, but one  *)
(* is kept.                                                                *)
Enforced(s, limit) ==
    LET keep == CHOOSE n \in 0..Len(s) :
                  /\ \/ Total(SubSeq(s, n + 1, Len(s))) <= limit
                     \/ Len(s) - n <= 1
                  /\ \A k \in 0..(n - 1) :
                        Total(SubSeq(s, k + 1, Len(s))) > limit /\ Len(s) - k > 1
    IN  SubSeq(s, keep + 1, Len(s))

(* prune_before_start(): a new recording needs room, the last may go. *)
Pruned(s, limit) ==
    LET keep == CHOOSE n \in 0..Len(s) :
                  /\ n = Len(s) \/ Total(SubSeq(s, n + 1, Len(s))) < limit
                  /\ \A k \in 0..(n - 1) : Total(SubSeq(s, k + 1, Len(s))) >= limit
    IN  SubSeq(s, keep + 1, Len(s))

SetCapacity(c) ==
    /\ capacity # c
    /\ capacity' = c /\ files' = Enforced(files, c)
    /\ UNCHANGED <<armed, recording, activeFeed, commands, muxer, piping,
                   writer, command, sentFrames, asked, made>>

RemoveFile(i) ==
    /\ files' = RemoveAt(files, i)
    /\ UNCHANGED <<armed, recording, activeFeed, commands, muxer, piping,
                   writer, command, sentFrames, asked, capacity, made>>

Queued == Len(SelectSeq(commands, LAMBDA c : c.kind = "frame"))

(* submit(): a full queue disarms and stops instead of losing one frame. *)
Submit(f, idr) ==
    /\ writer # "over" /\ sentFrames[f] < MaxFrames
    /\ sentFrames[f] = 0 => idr
    /\ sentFrames' = [sentFrames EXCEPT ![f] = @ + 1]
    /\ IF armed /\ Queued + 1 > QueueBytes
       THEN /\ armed' = FALSE /\ asked' = FALSE
            /\ commands' = Append(commands, Stop("none"))
       ELSE /\ commands' = IF armed
                           THEN Append(commands, Frame(f, sentFrames[f] + 1, idr))
                           ELSE commands
            /\ UNCHANGED <<armed, asked>>
    /\ UNCHANGED <<recording, activeFeed, muxer, piping, writer, command, fileVars>>

StreamEnded(f) ==
    /\ writer # "over" /\ sentFrames[f] > 0 /\ Len(commands) < MaxCommands
    /\ Stop(f) \notin ToSet(commands)
    /\ LET own == recording /\ activeFeed = f
       IN  /\ armed' = (armed /\ ~own)
           /\ asked' = (asked /\ ~own)
    /\ commands' = Append(commands, Stop(f))
    /\ UNCHANGED <<recording, activeFeed, muxer, piping, writer, command,
                   sentFrames, fileVars>>

(* The destructor of the service at the end of the program. *)
Destroy ==
    /\ Shut \notin ToSet(commands) /\ writer # "over"
    /\ armed' = FALSE /\ asked' = FALSE
    /\ commands' = Append(commands, Shut)
    /\ UNCHANGED <<recording, activeFeed, muxer, piping, writer, command,
                   sentFrames, fileVars>>

(* A bug: frames are written whatever stream they are of. *)
TakeAnyFeed ==
    /\ writer = "idle" /\ commands # <<>>
    /\ LET c == Head(commands)
           stops == c.kind = "stop" /\ (c.feed = "none" \/ (recording /\ activeFeed = c.feed))
           starts == c.kind = "frame" /\ ~recording /\ armed /\ c.idr
           writes == c.kind = "frame" /\ recording
       IN  /\ command' = c
           /\ commands' = Tail(commands)
           /\ armed' = (armed /\ ~stops)
           /\ asked' = (asked /\ ~(stops /\ c.feed # "none"))
           /\ recording' = (recording /\ ~stops /\ c.kind # "shutdown")
           /\ muxer' = IF writes THEN Append(muxer, c) ELSE muxer
           /\ writer' = CASE (stops \/ c.kind = "shutdown") /\ piping -> "finalize"
                          [] c.kind = "shutdown" /\ ~piping -> "over"
                          [] starts -> "start"
                          [] OTHER -> "idle"
    /\ UNCHANGED <<activeFeed, piping, sentFrames, fileVars>>

(* run(): one command.  A stop of the Web client ends what is recorded,    *)
(* that of a stream only its own recording; a frame of the recorded stream *)
(* goes to the pipe, and an IDR frame starts a muxer while armed.          *)
Take ==
    /\ writer = "idle" /\ commands # <<>>
    /\ LET c == Head(commands)
           stops == c.kind = "stop" /\ (c.feed = "none" \/ (recording /\ activeFeed = c.feed))
           starts == c.kind = "frame" /\ ~recording /\ armed /\ c.idr
           writes == c.kind = "frame" /\ recording /\ activeFeed = c.feed
       IN  /\ command' = c
           /\ commands' = Tail(commands)
           /\ armed' = (armed /\ ~stops)
           /\ asked' = (asked /\ ~(stops /\ c.feed # "none"))
           /\ recording' = (recording /\ ~stops /\ c.kind # "shutdown")
           /\ muxer' = IF writes THEN Append(muxer, c) ELSE muxer
           /\ writer' = CASE (stops \/ c.kind = "shutdown") /\ piping -> "finalize"
                          [] c.kind = "shutdown" /\ ~piping -> "over"
                          [] starts -> "start"
                          [] OTHER -> "idle"
    /\ UNCHANGED <<activeFeed, piping, sentFrames, fileVars>>

(* start_muxer(): the identity is set before the child runs. *)
StartMuxer ==
    /\ writer = "start" /\ made < MaxFiles
    /\ made' = made + 1
    /\ files' = Pruned(files, capacity)
    /\ recording' = TRUE /\ piping' = TRUE /\ activeFeed' = command.feed
    /\ muxer' = <<command>>
    /\ writer' = "idle"
    /\ UNCHANGED <<armed, commands, command, capacity, sentFrames, asked>>

(* No directory, codec, pipe or child: set_error() disarms. *)
StartFails ==
    /\ writer = "start"
    /\ armed' = FALSE /\ asked' = FALSE /\ recording' = FALSE
    /\ files' = Pruned(files, capacity)
    /\ activeFeed' = "none" /\ writer' = "idle"
    /\ UNCHANGED <<commands, muxer, piping, command, capacity, sentFrames, made>>

(* The pipe of the muxer breaks: the frame of this turn is lost. *)
WriteFails ==
    /\ writer = "idle" /\ recording /\ commands # <<>>
    /\ Head(commands).kind = "frame" /\ Head(commands).feed = activeFeed
    /\ commands' = Tail(commands) /\ command' = Head(commands)
    /\ armed' = FALSE /\ asked' = FALSE /\ recording' = FALSE
    /\ writer' = "finalize"
    /\ UNCHANGED <<activeFeed, muxer, piping, sentFrames, fileVars>>

(* finalize_muxer(): close the pipe, wait for FFmpeg, publish or discard,  *)
(* then apply the capacity.                                                *)
Finalize(well) ==
    /\ writer = "finalize"
    /\ piping' = FALSE /\ muxer' = <<>> /\ activeFeed' = "none"
    /\ files' = Enforced(IF well THEN Append(files, Len(muxer)) ELSE files, capacity)
    /\ armed' = (armed /\ well) /\ asked' = (asked /\ well)
    /\ recording' = FALSE
    /\ writer' = IF command.kind = "shutdown" THEN "over" ELSE "idle"
    /\ UNCHANGED <<commands, command, capacity, sentFrames, made>>

Next ==
    \/ \E on \in BOOLEAN : SetEnabled(on)
    \/ \E c \in Capacities : SetCapacity(c)
    \/ \E i \in DOMAIN files : RemoveFile(i)
    \/ \E f \in Feeds : StreamEnded(f) \/ \E idr \in BOOLEAN : Submit(f, idr)
    \/ Destroy \/ Take \/ StartMuxer \/ StartFails \/ WriteFails
    \/ \E well \in BOOLEAN : Finalize(well)

Spec == Init /\ [][Next]_recVars

-----------------------------------------------------------------------------
(* "Stream selected by the first accepted IDR": what the muxer is fed      *)
(* begins with an IDR frame and goes on with frames of that stream only,   *)
(* in their order, whatever other streams, the Web client and the queue do *)
(* meanwhile.                                                              *)
OneStreamPerRecording ==
    muxer # <<>> =>
        /\ Head(muxer).idr
        /\ \A i \in 2..Len(muxer) :
              /\ muxer[i].feed = Head(muxer).feed
              /\ muxer[i].index > muxer[i - 1].index

(* No frame of the stream is missing in between. *)
NoGapInRecording ==
    \A i \in 2..Len(muxer) : muxer[i].index = muxer[i - 1].index + 1

(* "Recording is armed and will begin on the next key frame": once the Web *)
(* client was told so, the service stays armed until the client, an error, *)
(* a full queue or the end of the recorded stream disarms it.              *)
ArmedUntilDisarmed == asked => armed
=============================================================================
