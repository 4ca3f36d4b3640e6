----------------------------- MODULE StreamWire -----------------------------
(***************************************************************************)
(* What the broadcast threads put on the network (stream.cpp): frames cut  *)
(* into packets, blocks and parity shards with the sequence numbers and    *)
(* header fields the client rebuilds them from; audio packets in groups    *)
(* with parity; the pings that tell where to send; control messages.       *)
(***************************************************************************)
EXTENDS Naturals, Sequences, SequencesExt, FiniteSetsExt

CONSTANTS
    Slice,        \* payload bytes of a packet
    Insert,       \* bytes of sizeof(video_packet_raw_t)
    Header,       \* bytes of the frame header
    FrameSizes,   \* sizes of the frames that are sent
    FecPercents,  \* config::stream.fec_percentage
    MinParities,  \* minRequiredFecPackets the client may ask for
    SeqSpace,     \* audio sequence numbers are counted modulo this, 2^16
    MaxFrames, MaxAudio, MaxPings, MaxMessages, \* bounds on what is sent
    SegMax,       \* segments the kernel takes at once, seg_max
    MaxShards,    \* shards of a batch
    MaxFaults,    \* calls of the system that fail
    Systems,      \* the host: "linux" or "windows", and whether its kernel
                  \* cuts a buffer into datagrams (GSO, USO)
    QosSessions   \* the sessions that ask for quality of service

VARIABLES
    ctx,      \* the broadcast context: "closed", "failed" or "running"
    fec,      \* the percentage of the configuration
    minimum,  \* the client's minimum of parity shards
    frame,    \* the frame that is being sent
    lowseq,   \* session->video.lowseq
    counter,  \* gcm_iv_counter
    wire,     \* the blocks that were sent
    frames,   \* frames taken from the queue so far
    broken,   \* a send threw
    audioSeq, \* audio.sequenceNumber
    shards,   \* audio.shards_p: what the data shards hold
    base,     \* fec_packet.fecHeader.baseSequenceNumber
    parity,   \* the parity packets that were sent
    heard,    \* audio packets so far
    inbox,    \* socket -> datagrams the kernel holds
    posted,   \* socket -> a receive is complete and its handler waits
    peer,     \* the endpoint both receives write to
    answers,  \* socket -> endpoints handed to the session that waits
    pings,    \* pings so far
    control,  \* the control stream: "up" or "stopped"
    seq,      \* control.seq
    handled,  \* messages whose handler ran: encrypted or not
    messages, \* control messages so far
    system,   \* which of Systems runs
    batch,    \* the batch that is being sent: its shards and how many went
    sent,     \* the shards of the batch that left, in order
    faults,   \* calls that failed during the batch
    qos,      \* the qos_t objects: session and socket
    asking,   \* the calls of enable_socket_qos() that are under way
    tagged,   \* socket -> its options are set
    linked    \* socket -> the session it is connected to, or "none"

wireVars == <<ctx, fec, minimum, frame, lowseq, counter, wire, frames, broken,
              audioSeq, shards, base, parity, heard, inbox, posted, peer,
              answers, pings, control, seq, handled, messages, system,
              batch, sent, faults, qos, asking, tagged, linked>>
videoVars == <<frame, lowseq, counter, wire, frames, broken>>
audioVars == <<audioSeq, shards, base, parity, heard>>
pingVars == <<inbox, posted, peer, answers, pings>>
controlVars == <<control, seq, handled, messages>>
settings == <<ctx, fec, minimum, system>>
batchVars == <<batch, sent, faults>>
qosVars == <<qos, asking, tagged, linked>>
streamVars == <<videoVars, audioVars, pingVars, controlVars>>

Sockets == {"video", "audio"}
NoBatch == [at |-> "idle", count |-> 0, done |-> 0]
NoFrame == [id |-> 0, size |-> 0, block |-> 0, low |-> 0]
DATA_SHARDS_MAX == 255
MAX_FEC_BLOCKS == 4
RTPA_DATA_SHARDS == 4
RTPA_FEC_SHARDS == 2

CeilDiv(a, b) == (a + b - 1) \div b

Init ==
    /\ ctx = "closed" /\ fec \in FecPercents /\ minimum \in MinParities
    /\ frame = NoFrame /\ lowseq = 0 /\ counter = 0 /\ wire = <<>>
    /\ frames = 0 /\ broken = FALSE
    /\ audioSeq = 0 /\ shards = [k \in 0..(RTPA_DATA_SHARDS - 1) |-> 0]
    /\ base = 0 /\ parity = <<>> /\ heard = 0
    /\ inbox = [s \in Sockets |-> 0] /\ posted = [s \in Sockets |-> FALSE]
    /\ peer = "none" /\ answers = [s \in Sockets |-> {}] /\ pings = 0
    /\ control = "up" /\ seq = 0 /\ handled = {} /\ messages = 0
    /\ system \in Systems
    /\ batch = NoBatch /\ sent = <<>> /\ faults = 0
    /\ qos = {} /\ asking = {} /\ tagged = [s \in Sockets |-> FALSE]
    /\ linked = [s \in Sockets |-> "none"]

(* start_broadcast(): the control host and both sockets, then the threads. *)
StartBroadcast ==
    /\ ctx = "closed" /\ ctx' \in {"running", "failed"}
    /\ UNCHANGED <<fec, minimum, system, batchVars, qosVars, streamVars>>

-----------------------------------------------------------------------------
(* concat_and_insert(): the packets of a frame, and their bytes.           *)
Elements(n) == CeilDiv(Header + n, Slice)
Total(n) == Elements(n) * Insert + Header + n
Blocksize == Slice + Insert

(* The header tells the payload length of the last packet.                 *)
LastPayloadLen(n) ==
    LET rest == (n + Header) % Slice IN IF rest = 0 THEN Slice ELSE rest

(* The blocks of a frame and the percentage: a frame that needs more than  *)
(* four blocks is sent without parity.                                     *)
Blocks(n, f) ==
    LET most == ((DATA_SHARDS_MAX * 100) \div (100 + f)) * Blocksize
        needed == CeilDiv(Total(n), most)
    IN  IF needed > MAX_FEC_BLOCKS THEN [count |-> MAX_FEC_BLOCKS, fec |-> 0]
        ELSE [count |-> needed, fec |-> f]

(* A bug: the blocks are cut at the unaligned size. *)
BlockBytesUnaligned(n, f, x) ==
    LET count == Blocks(n, f).count
        size == Total(n) \div count
    IN  IF x = count - 1 THEN Total(n) - x * size ELSE size

(* The bytes of block x: all but the last end on a packet. *)
BlockBytes(n, f, x) ==
    LET count == Blocks(n, f).count
        aligned == CeilDiv(Total(n) \div count, Blocksize) * Blocksize
    IN  IF x = count - 1 THEN Total(n) - x * aligned ELSE aligned

(* A bug: the percentage in the header is the configured one. *)
EncodeStale(bytes, f, least) ==
    LET data == CeilDiv(bytes, Blocksize)
        usual == (data * f + 99) \div 100
        more == usual < least /\ f # 0
    IN  [data |-> data, parity |-> IF more THEN least ELSE usual, percentage |-> f]

(* fec::encode(): the parity shards, at least as many as the client asked  *)
(* for, and the percentage that says so.                                   *)
Encode(bytes, f, least) ==
    LET data == CeilDiv(bytes, Blocksize)
        usual == (data * f + 99) \div 100
        more == usual < least /\ f # 0
    IN  [data |-> data, parity |-> IF more THEN least ELSE usual,
         percentage |-> IF more THEN (100 * least) \div data ELSE f]

(* videoBroadcastThread(): a packet of the queue. *)
PopFrame(n) ==
    /\ ctx = "running" /\ frame = NoFrame /\ frames < MaxFrames
    /\ frame' = [id |-> frames + 1, size |-> n, block |-> 0, low |-> lowseq]
    /\ frames' = frames + 1
    /\ UNCHANGED <<settings, batchVars, qosVars, lowseq, counter, wire, broken, audioVars,
                   pingVars, controlVars>>

(* One block: every shard has its header and its own IV. *)
SendBlock ==
    /\ frame # NoFrame /\ frame.block < Blocks(frame.size, fec).count
    /\ LET b == Blocks(frame.size, fec)
           e == Encode(BlockBytes(frame.size, fec, frame.block), b.fec, minimum)
       IN  /\ wire' = Append(wire,
                 [frame |-> frame.id, size |-> frame.size, block |-> frame.block,
                  of |-> b.count, first |-> frame.low, data |-> e.data,
                  parity |-> e.parity, percentage |-> e.percentage,
                  iv |-> counter, last |-> LastPayloadLen(frame.size)])
           /\ counter' = counter + e.data + e.parity
           /\ frame' = [frame EXCEPT !.block = @ + 1, !.low = @ + e.data + e.parity]
    /\ UNCHANGED <<settings, batchVars, qosVars, lowseq, frames, broken, audioVars, pingVars,
                   controlVars>>

(* After the last block the sequence number is kept. *)
FinishFrame ==
    /\ frame # NoFrame /\ frame.block = Blocks(frame.size, fec).count
    /\ lowseq' = frame.low /\ frame' = NoFrame
    /\ UNCHANGED <<settings, batchVars, qosVars, counter, wire, frames, broken, audioVars,
                   pingVars, controlVars>>

(* An exception of a send loses the rest of the frame and with it the      *)
(* sequence numbers; the IV counter has gone on.                           *)
SendThrows ==
    /\ frame # NoFrame /\ frame.block < Blocks(frame.size, fec).count
    /\ frame' = NoFrame /\ broken' = TRUE /\ counter' = counter + 1
    /\ UNCHANGED <<settings, batchVars, qosVars, lowseq, wire, frames, audioVars, pingVars,
                   controlVars>>

-----------------------------------------------------------------------------
(* audioBroadcastThread(): the packet goes to its shard of the group, the  *)
(* first one names the group, the last one sends the parity.               *)
SendAudio ==
    /\ ctx = "running" /\ heard < MaxAudio
    /\ heard' = heard + 1
    /\ audioSeq' = (audioSeq + 1) % SeqSpace
    /\ shards' = [shards EXCEPT ![audioSeq % RTPA_DATA_SHARDS] = heard]
    /\ base' = IF audioSeq % RTPA_DATA_SHARDS = 0 THEN audioSeq ELSE base
    /\ parity' = IF (audioSeq + 1) % RTPA_DATA_SHARDS # 0 THEN parity
                 ELSE parity \o [x \in 1..RTPA_FEC_SHARDS |->
                        [base |-> base', seq |-> (audioSeq + x) % SeqSpace,
                         index |-> x - 1, covers |-> {shards'[k] : k \in DOMAIN shards}]]
    /\ UNCHANGED <<settings, batchVars, qosVars, videoVars, pingVars, controlVars>>

(* A bug: the number is taken back when the packet is not sent. *)
AudioThrowsRetracts ==
    /\ ctx = "running" /\ heard < MaxAudio
    /\ heard' = heard + 1 /\ broken' = TRUE
    /\ UNCHANGED audioSeq
    /\ shards' = [shards EXCEPT ![audioSeq % RTPA_DATA_SHARDS] = heard]
    /\ UNCHANGED <<settings, batchVars, qosVars, frame, lowseq, counter, wire, frames, base,
                   parity, pingVars, controlVars>>

(* An exception: the packet is in its shard and has its number. *)
AudioThrows ==
    /\ ctx = "running" /\ heard < MaxAudio
    /\ heard' = heard + 1 /\ broken' = TRUE
    /\ audioSeq' = (audioSeq + 1) % SeqSpace
    /\ shards' = [shards EXCEPT ![audioSeq % RTPA_DATA_SHARDS] = heard]
    /\ UNCHANGED <<settings, batchVars, qosVars, frame, lowseq, counter, wire, frames, base,
                   parity, pingVars, controlVars>>

-----------------------------------------------------------------------------
(* The client pings both ports until media arrives. *)
ClientPing(s) ==
    /\ pings < MaxPings /\ pings' = pings + 1
    /\ inbox' = [inbox EXCEPT ![s] = @ + 1]
    /\ UNCHANGED <<settings, batchVars, qosVars, posted, peer, answers, videoVars, audioVars,
                   controlVars>>

(* A handler of recvThread(): the session that is registered for the       *)
(* socket gets the endpoint, and the next receive is started; a datagram   *)
(* that is already there is received at once, its handler runs later.      *)
Handle(s, from, left) ==
    /\ answers' = [answers EXCEPT ![s] = @ \cup {from}]
    /\ posted' = [posted EXCEPT ![s] = left > 0]
    /\ peer' = IF left > 0 THEN s ELSE from
    /\ inbox' = [inbox EXCEPT ![s] = IF left > 0 THEN left - 1 ELSE 0]

(* The reactor finds a datagram for a receive that waits. *)
ReceivePing(s) ==
    /\ ctx = "running" /\ ~posted[s] /\ inbox[s] > 0
    /\ Handle(s, s, inbox[s] - 1)
    /\ UNCHANGED <<settings, batchVars, qosVars, pings, videoVars, audioVars, controlVars>>

(* The handler of a receive that was complete when it was started. *)
RunPosted(s) ==
    /\ ctx = "running" /\ posted[s]
    /\ Handle(s, peer, inbox[s])
    /\ UNCHANGED <<settings, batchVars, qosVars, pings, videoVars, audioVars, controlVars>>

-----------------------------------------------------------------------------
(* control_server_t::call(): with the encrypted protocol only messages     *)
(* that were encrypted reach their handlers.                               *)
Call(sealed) ==
    /\ ctx = "running" /\ control = "up" /\ messages < MaxMessages
    /\ messages' = messages + 1
    /\ IF sealed THEN handled' = handled \cup {"sealed"} ELSE UNCHANGED handled
    /\ UNCHANGED <<settings, batchVars, qosVars, control, seq, videoVars, audioVars, pingVars>>

(* IDX_ENCRYPTED: a message that cannot be decrypted, or that holds        *)
(* another encrypted one, ends the session; a short one is ignored.        *)
CallBroken ==
    /\ ctx = "running" /\ control = "up" /\ messages < MaxMessages
    /\ messages' = messages + 1
    /\ control' \in {"stopped", "up"}
    /\ UNCHANGED <<settings, batchVars, qosVars, seq, handled, videoVars, audioVars, pingVars>>

(* IDX_INPUT_DATA of the older protocol decrypts by itself. *)
CallInput(good) ==
    /\ ctx = "running" /\ control = "up" /\ messages < MaxMessages
    /\ messages' = messages + 1
    /\ IF good THEN handled' = handled \cup {"input"} /\ UNCHANGED control
       ELSE control' = "stopped" /\ UNCHANGED handled
    /\ UNCHANGED <<settings, batchVars, qosVars, seq, videoVars, audioVars, pingVars>>

(* encode_control(): every message to the client takes a number. *)
EncodeControl == seq' = seq + 1

(* send_feedback_msg() and send_hdr_mode(): nothing without a peer. *)
SendFeedback ==
    /\ ctx = "running" /\ control = "up" /\ messages < MaxMessages
    /\ messages' = messages + 1
    /\ EncodeControl
    /\ UNCHANGED <<settings, batchVars, qosVars, control, handled, videoVars, audioVars, pingVars>>

-----------------------------------------------------------------------------
(* platf::send_batch() for the shards of a block, called by                *)
(* videoBroadcastThread(), which sends them one by one when it fails.      *)
StartBatch(n) ==
    /\ ctx = "running" /\ batch.at = "idle"
    /\ batch' = [at |-> IF system.name = "linux" THEN "gso" ELSE "wsa",
                 count |-> n, done |-> 0]
    /\ UNCHANGED <<settings, sent, faults, streamVars, qosVars>>

Fault == faults < MaxFaults /\ faults' = faults + 1
Leaves(n) == sent' = sent \o [k \in 1..n |-> batch.done + k]
Return(result) ==
    batch' = [batch EXCEPT !.at = IF result THEN "done" ELSE "single", !.done = 0]

(* Once something left there is no second way to send the batch.           *)
LeaveGso == IF batch.done # 0 THEN Return(FALSE)
            ELSE batch' = [batch EXCEPT !.at = "mmsg"]

(* sendmsg() with UDP_SEGMENT: all segments, no room, or an error, which   *)
(* a kernel without GSO always gives for more than one.                    *)
SendSegments ==
    /\ batch.at = "gso"
    /\ LET segs == Min({batch.count - batch.done, SegMax})
           all == batch.done + segs = batch.count
       IN  \/ /\ system.segments \/ segs = 1
              /\ Leaves(segs) /\ UNCHANGED faults
              /\ IF all THEN Return(TRUE)
                 ELSE batch' = [batch EXCEPT !.done = @ + segs]
           \/ batch' = [batch EXCEPT !.at = "gsoPoll"] /\ UNCHANGED <<sent, faults>>
           \/ /\ \/ ~system.segments /\ segs > 1 /\ UNCHANGED faults
                 \/ Fault
              /\ LeaveGso /\ UNCHANGED sent
    /\ UNCHANGED <<settings, streamVars, qosVars>>

(* poll() until there is room; it may be interrupted. *)
Poll ==
    /\ batch.at \in {"gsoPoll", "mmsgPoll"}
    /\ \/ /\ batch' = [batch EXCEPT !.at = IF @ = "gsoPoll" THEN "gso" ELSE "mmsg"]
          /\ UNCHANGED faults
       \/ /\ Fault
          /\ IF batch.at = "gsoPoll" THEN LeaveGso ELSE Return(TRUE)
    /\ UNCHANGED <<settings, sent, streamVars, qosVars>>

(* sendmmsg(): some of the rest, no room, or an error. *)
SendMany ==
    /\ batch.at = "mmsg"
    /\ LET rest == batch.count - batch.done
       IN  \/ /\ \E k \in 1..rest :
                    /\ Leaves(k)
                    /\ IF k = rest THEN Return(TRUE)
                       ELSE batch' = [batch EXCEPT !.done = @ + k]
              /\ UNCHANGED faults
           \/ batch' = [batch EXCEPT !.at = "mmsgPoll"] /\ UNCHANGED <<sent, faults>>
           \/ Fault /\ Return(FALSE) /\ UNCHANGED sent
    /\ UNCHANGED <<settings, streamVars, qosVars>>

(* WSASendMsg() with UDP_SEND_MSG_SIZE: everything or nothing.             *)
SendWsa ==
    /\ batch.at = "wsa"
    /\ \/ /\ system.segments \/ batch.count = 1
          /\ Leaves(batch.count) /\ Return(TRUE) /\ UNCHANGED faults
       \/ /\ \/ ~system.segments /\ batch.count > 1 /\ UNCHANGED faults
             \/ Fault
          /\ Return(FALSE) /\ UNCHANGED sent
    /\ UNCHANGED <<settings, streamVars, qosVars>>

(* platf::send() of the next shard; what it returns is not looked at.      *)
SendSingly ==
    /\ batch.at = "single"
    /\ \/ Leaves(1) /\ UNCHANGED faults
       \/ Fault /\ UNCHANGED sent
    /\ batch' = [batch EXCEPT !.done = @ + 1,
                              !.at = IF batch.done + 1 = batch.count THEN "done" ELSE @]
    /\ UNCHANGED <<settings, streamVars, qosVars>>

-----------------------------------------------------------------------------
(* enable_socket_qos() on Linux: the options of the socket all sessions    *)
(* share.  They are counted, not kept per destination.                     *)
EnableOptions(x, s) ==
    /\ ctx = "running" /\ system.name = "linux"
    /\ \A q \in qos : <<q.session, q.socket>> # <<x, s>>
    /\ \E ok \in BOOLEAN :
        /\ qos' = qos \cup {[session |-> x, socket |-> s, set |-> ok, peer |-> x]}
        /\ tagged' = [tagged EXCEPT ![s] = @ \/ ok]
    /\ UNCHANGED <<settings, asking, linked, streamVars, batchVars>>

(* qos_t::~qos_t(): the last one resets what it has set itself.            *)
DropOptions(q) ==
    /\ system.name = "linux" /\ qos' = qos \ {q}
    /\ tagged' = [tagged EXCEPT ![q.socket] = @ /\ ~(qos' = {} /\ q.set)]
    /\ UNCHANGED <<settings, asking, linked, streamVars, batchVars>>

(* On Windows: a flow for the destination.  For an IPv4 address on the     *)
(* dual-stack socket the socket is connected meanwhile.                    *)
AskFlow(x, s) ==
    /\ ctx = "running" /\ system.name = "windows"
    /\ \A q \in qos \cup asking : <<q.session, q.socket>> # <<x, s>>
    /\ \E hack \in BOOLEAN :
        /\ asking' = asking \cup {[session |-> x, socket |-> s, hack |-> hack]}
        /\ linked' = IF hack THEN [linked EXCEPT ![s] = x] ELSE linked
    /\ UNCHANGED <<settings, qos, tagged, streamVars, batchVars>>

(* QOSAddSocketToFlow(), which needs a destination, and the guard that     *)
(* disconnects whatever came of it.                                        *)
AddFlow(a) ==
    LET target == IF a.hack THEN linked[a.socket] ELSE a.session
    IN  /\ asking' = asking \ {a}
        /\ \/ /\ target # "none"
              /\ qos' = qos \cup {[session |-> a.session, socket |-> a.socket,
                                   set |-> TRUE, peer |-> target]}
           \/ UNCHANGED qos
        /\ linked' = IF a.hack THEN [linked EXCEPT ![a.socket] = "none"] ELSE linked
        /\ UNCHANGED <<settings, tagged, streamVars, batchVars>>

(* QOSRemoveSocketFromFlow() *)
DropFlow(q) ==
    /\ system.name = "windows" /\ qos' = qos \ {q}
    /\ UNCHANGED <<settings, asking, tagged, linked, streamVars, batchVars>>

Next ==
    \/ StartBroadcast \/ SendBlock \/ FinishFrame \/ SendThrows
    \/ \E n \in FrameSizes : PopFrame(n)
    \/ SendAudio \/ AudioThrows
    \/ \E s \in Sockets : ClientPing(s) \/ ReceivePing(s) \/ RunPosted(s)
    \/ \E b \in BOOLEAN : Call(b) \/ CallInput(b)
    \/ CallBroken \/ SendFeedback
    \/ \E n \in 1..MaxShards : StartBatch(n)
    \/ SendSegments \/ Poll \/ SendMany \/ SendWsa \/ SendSingly
    \/ \E x \in QosSessions, s \in Sockets : EnableOptions(x, s) \/ AskFlow(x, s)
    \/ \E q \in qos : DropOptions(q) \/ DropFlow(q)
    \/ \E a \in asking : AddFlow(a)

Spec == Init /\ [][Next]_wireVars

-----------------------------------------------------------------------------
(* The client counts the parity shards from the percentage.                *)
ClientParity(b) == (b.data * b.percentage + 99) \div 100

(* Every frame can be put together from what its packets say: the client's *)
(* count of parity is the one sent, the fields fit their bits, the blocks  *)
(* and the numbers go on one after the other, and with the last block the  *)
(* packets and the length of the last one give the size back.              *)
FramesDecode ==
    \A i \in 1..Len(wire) :
        LET b == wire[i]
            Packets(k) == IF k <= b.block THEN wire[i - k].data ELSE 0
        IN  /\ ClientParity(b) = b.parity
            /\ b.percentage < 256 /\ b.of <= MAX_FEC_BLOCKS /\ b.data < 1024
            /\ b.parity > 0 => b.data + b.parity <= DATA_SHARDS_MAX
            /\ b.data > 0 /\ b.block < b.of
            /\ b.block > 0 => /\ wire[i - 1].block = b.block - 1
                              /\ wire[i - 1].frame = b.frame
                              /\ b.first = wire[i - 1].first + wire[i - 1].data
                                             + wire[i - 1].parity
            /\ b.block = b.of - 1 =>
                 (Packets(0) + Packets(1) + Packets(2) + Packets(3) - 1) * Slice
                    + b.last - Header = b.size

(* No IV is used for two shards, not even when a frame is lost half way.   *)
FreshIv ==
    \A i, j \in 1..Len(wire) : i < j => wire[i].iv + wire[i].data + wire[i].parity <= wire[j].iv

(* The parity of the audio covers one group: its four packets follow the   *)
(* base it names, across the wrap of the sequence numbers, even when a     *)
(* packet of the group was lost to an error after the first.               *)
ParityCoversItsGroup ==
    \A i \in 1..Len(parity) :
        LET p == parity[i]
        IN  /\ Cardinality(p.covers) = RTPA_DATA_SHARDS
            /\ Max(p.covers) - Min(p.covers) = RTPA_DATA_SHARDS - 1
            /\ p.seq = (Max(p.covers) + 1 + p.index) % SeqSpace

(* While no call of the system fails every shard of a batch leaves once    *)
(* and in order, whichever way the host can send it and however often it   *)
(* had to wait; and a batch that failed is sent singly, so that a failed   *)
(* call costs at most the shard it was for (on Linux without GSO a poll()  *)
(* that fails costs the rest of the batch, and it takes two with GSO).     *)
BatchLeavesOnce ==
    batch.at = "done" =>
        LET all == 1..batch.count
            missing == {k \in all : \A i \in 1..Len(sent) : sent[i] # k}
        IN  /\ faults = 0 => sent = [k \in all |-> k]
            /\ system.name = "windows" \/ (system.segments /\ faults <= 1) =>
                 Cardinality(missing) <= faults

(* The options of a shared socket are not taken from a session that still  *)
(* streams over it, and the socket is not left connected to one client.    *)
QosHolds ==
    /\ \A q \in qos : system.name = "linux" /\ q.set => tagged[q.socket]
    /\ \A s \in Sockets :
        (\A a \in asking : a.socket = s => ~a.hack) => linked[s] = "none"

(* Under observation: a shard that leaves twice, one that is missing while *)
(* send_batch() says nothing is, options that outlive every session, a     *)
(* flow that leads to another client, and a session whose socket is        *)
(* connected to another one's client meanwhile.                            *)
NoShardTwice == \A i, j \in 1..Len(sent) : sent[i] = sent[j] => i = j
NoSilentLoss ==
    batch.at = "done" /\ system.name = "linux" /\ faults = 1 =>
        \A k \in 1..batch.count : \E i \in 1..Len(sent) : sent[i] = k
OptionsAreReset == qos = {} => \A s \in Sockets : ~tagged[s]
FlowIsItsOwn == \A q \in qos : q.peer = q.session
NobodyCutOff ==
    \A q \in qos : linked[q.socket] \in {"none", q.session}

(* The base that parity names is the first of its group.                   *)
BaseIsTheGroups ==
    \A i \in 1..Len(parity) : parity[i].base = Min(parity[i].covers) % SeqSpace

(* Frames that follow each other never share a sequence number. *)
NoSequenceReuse ==
    \A i, j \in 1..Len(wire) :
        i < j => wire[i].first + wire[i].data + wire[i].parity <= wire[j].first

(* A ping of the video port gives the video endpoint. *)
PingFromItsSocket == \A s \in Sockets : answers[s] \subseteq {s}
=============================================================================
