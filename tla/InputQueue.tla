----------------------------- MODULE InputQueue -----------------------------
(***************************************************************************)
(* The bounded queue of input packets (packet_queue_t, input.cpp): the     *)
(* control thread pushes what a client sends, one task of the pool at a    *)
(* time injects it, and joining the session stops the queue, which a       *)
(* resumed session of the same client opens again.  A packet keeps its     *)
(* kind, the fields batch() compares, and the numbers of the first and the *)
(* last message it stands for.                                             *)
(***************************************************************************)
EXTENDS Integers, FiniteSets

CONSTANTS
    Packets,      \* what the client may send
    Capacity,     \* capacity of the queue
    MaxShort,     \* the largest short, for the overflow test of batch()
    MaxSent,      \* bound: messages sent
    MaxResets     \* bound: sessions that end

(* A std::list has a size, and a constexpr its capacity. *)
ASSUME QueueAssumption == Capacity \in Nat

VARIABLES
    packets,      \* impl_t::packets: by place, numbered as they were taken
    accepting,    \* impl_t::accepting
    scheduled,    \* impl_t::worker_scheduled
    drains,       \* passthrough_next_message tasks in the pool
    drain,        \* the running task: "idle", "injecting", "empty"
    offered,      \* the packets push() holds while it waits for room: one or none
    arrivals,     \* messages sent so far
    edges,        \* numbers of the edges accepted and not yet injected
    resets        \* sessions ended

queueVars == <<packets, accepting, scheduled, drains, drain, offered,
               arrivals, edges, resets>>

QueueInit ==
    /\ packets = [k \in {} |-> 0] /\ accepting = TRUE /\ scheduled = FALSE
    /\ drains = 0 /\ drain = "idle" /\ offered = {}
    /\ arrivals = 0 /\ edges = {} /\ resets = 0

-----------------------------------------------------------------------------
(* batch(): whether src can be merged into dest ("batched"), is passed     *)
(* over ("not_batchable"), or ends the attempt ("terminate_batch").        *)
Fits(n) == -MaxShort - 1 <= n /\ n <= MaxShort

(* Relative motion and both scroll axes add up unless the sum overflows.   *)
BatchDelta(dest, src) ==
    IF Fits(dest.value + src.value) THEN "batched" ELSE "terminate_batch"

(* Absolute motion: the newest wins, if the surface is the same one.       *)
BatchAbsolute(dest, src) ==
    IF dest.mode = src.mode THEN "batched" ELSE "terminate_batch"

(* Controller state: same mask (mode), same pad, same buttons (value).     *)
BatchController(dest, src) ==
    IF dest.mode # src.mode THEN "terminate_batch"
    ELSE IF dest.device # src.device THEN "not_batchable"
    ELSE IF dest.value # src.value THEN "terminate_batch"
    ELSE "batched"

Moves(p) == p.mode \in {"move", "hover"}

(* Touch events: only moves and hovers, of the same pointer. *)
BatchTouch(dest, src) ==
    IF ~Moves(dest) \/ ~Moves(src) THEN "terminate_batch"
    ELSE IF dest.device # src.device THEN "not_batchable"
    ELSE IF dest.mode # src.mode THEN "terminate_batch"
    ELSE "batched"

(* Pen events: only moves and hovers with the same buttons and tool.       *)
BatchPen(dest, src) ==
    IF Moves(dest) /\ dest.mode = src.mode /\ dest.value = src.value
    THEN "batched" ELSE "terminate_batch"

(* Touch on a controller: the pad is compared before the event kind; pad   *)
(* and pointer together are the device here.                               *)
BatchControllerTouch(dest, src) ==
    IF ~Moves(dest) THEN "terminate_batch"
    ELSE IF dest.device # src.device THEN "not_batchable"
    ELSE IF ~Moves(src) \/ dest.mode # src.mode THEN "terminate_batch"
    ELSE "batched"

(* Motion sensors: same pad and same sensor, else passed over. *)
BatchMotion(dest, src) ==
    IF dest.device = src.device THEN "batched" ELSE "not_batchable"

Batch(dest, src) ==
    IF dest.magic # src.magic THEN "terminate_batch"
    ELSE CASE dest.magic \in {"relative", "scroll"} -> BatchDelta(dest, src)
           [] dest.magic = "absolute" -> BatchAbsolute(dest, src)
           [] dest.magic = "controller" -> BatchController(dest, src)
           [] dest.magic = "touch" -> BatchTouch(dest, src)
           [] dest.magic = "pen" -> BatchPen(dest, src)
           [] dest.magic = "padtouch" -> BatchControllerTouch(dest, src)
           [] dest.magic = "motion" -> BatchMotion(dest, src)
           [] OTHER -> "terminate_batch"

(* What the list keeps of a packet: the numbers are those of the messages. *)
Entry(p, amount, from, upto) ==
    [magic |-> p.magic, device |-> p.device, mode |-> p.mode, value |-> amount,
     first |-> from, last |-> upto]

(* The packet that stands for both, in dest's place. *)
Merge(dest, src) ==
    Entry(src, IF src.magic \in {"relative", "scroll"}
               THEN dest.value + src.value ELSE src.value, dest.first, src.last)

(* is_intrinsically_droppable_motion *)
Droppable(p) ==
    \/ p.magic \in {"relative", "absolute", "motion"}
    \/ p.magic \in {"touch", "padtouch"} /\ Moves(p)

IsEdge(p) == p.magic = "edge"

-----------------------------------------------------------------------------
Places == DOMAIN packets
Oldest(S) == {k \in S : \A j \in S : k <= j}
Without(S) == [k \in Places \ S |-> packets[k]]

(* The last entry that p can be merged into: everything after it was       *)
(* passed over.                                                            *)
MergeTargets(p) ==
    {k \in Places :
        /\ Batch(packets[k], p) = "batched"
        /\ \A j \in Places : j > k => Batch(packets[j], p) = "not_batchable"}

(* The pairs the overflow path may combine: the first one is combined, in  *)
(* the later entry's place.                                                *)
Pairs ==
    {pair \in Places \X Places :
        /\ pair[1] < pair[2]
        /\ Batch(packets[pair[1]], packets[pair[2]]) = "batched"
        /\ \A k \in Places : pair[1] < k /\ k < pair[2] =>
              Batch(packets[pair[1]], packets[k]) = "not_batchable"}

FirstPairs ==
    {pair \in Pairs : \A other \in Pairs :
        pair[1] < other[1] \/ (pair[1] = other[1] /\ pair[2] <= other[2])}

Combined(pair) ==
    [Without({pair[1]}) EXCEPT ![pair[2]] = Merge(packets[pair[1]], @)]

(* A bug: the oldest packet is dropped, whatever it is. *)
StaleAny == Places

StalePlaces == {k \in Places : Droppable(packets[k])}
Full == Cardinality(Places) >= Capacity

(* The list once there is room; none if no room can be made. *)
MadeRoom ==
    IF ~Full THEN {packets}
    ELSE IF Pairs # {} THEN {Combined(pair) : pair \in FirstPairs}
    ELSE {Without({k}) : k \in Oldest(StalePlaces)}

(* The packet goes in; the first one since the worker left schedules it.   *)
Accept(p) ==
    /\ \E list \in MadeRoom :
          packets' = [k \in DOMAIN list \cup {p.last} |->
                        IF k = p.last THEN p ELSE list[k]]
    /\ edges' = IF IsEdge(p) THEN edges \cup {p.last} ELSE edges
    /\ scheduled' = TRUE
    /\ drains' = IF scheduled THEN drains ELSE drains + 1
    /\ offered' = {}

(* validate_input_packet() *)
Malformed(p) == p.magic = "malformed"

(* passthrough(): malformed packets and those for a closed queue are       *)
(* dropped; a mergeable one is merged in place; otherwise it is queued     *)
(* once there is room, and an edge waits for it.                           *)
Push(packet) ==
    /\ arrivals < MaxSent /\ offered = {}
    /\ arrivals' = arrivals + 1
    /\ LET p == Entry(packet, packet.value, arrivals', arrivals')
           targets == MergeTargets(p)
       IN  \/ /\ ~accepting \/ Malformed(p)
              /\ UNCHANGED <<packets, edges, scheduled, drains, offered>>
           \/ /\ accepting /\ ~Malformed(p) /\ targets # {}
              /\ packets' = [k \in Places |->
                    IF k \in targets THEN Merge(packets[k], p) ELSE packets[k]]
              /\ UNCHANGED <<edges, scheduled, drains, offered>>
           \/ /\ accepting /\ ~Malformed(p) /\ targets = {} /\ MadeRoom = {}
              /\ offered' = {p}
              /\ UNCHANGED <<packets, edges, scheduled, drains>>
           \/ accepting /\ ~Malformed(p) /\ targets = {} /\ Accept(p)
    /\ UNCHANGED <<accepting, drain, resets>>

(* space_available: the waiting push() goes on, or gives up if closed.     *)
PushWoken ==
    /\ \E p \in offered :
          \/ /\ ~accepting /\ offered' = {}
             /\ UNCHANGED <<packets, edges, scheduled, drains>>
          \/ accepting /\ Accept(p)
    /\ UNCHANGED <<accepting, drain, arrivals, resets>>

-----------------------------------------------------------------------------
(* pop(): the places, after the front, of the packets that can be merged   *)
(* into it, and go with it.                                                *)
Drained(front) ==
    LET run[k \in front..arrivals] ==
            IF k = front THEN [entry |-> packets[front], over |-> FALSE]
            ELSE IF k \notin Places \/ run[k - 1].over THEN run[k - 1]
            ELSE LET entry == run[k - 1].entry
                     result == Batch(entry, packets[k])
                 IN  [entry |-> IF result = "batched" THEN Merge(entry, packets[k])
                                ELSE entry,
                      over |-> result = "terminate_batch"]
    IN  {k \in Places : /\ k > front /\ ~run[k - 1].over
                        /\ Batch(run[k - 1].entry, packets[k]) = "batched"}

WorkerPop ==
    /\ drains > 0 /\ drain = "idle"
    /\ drains' = drains - 1
    /\ \/ /\ Places = {} /\ drain' = "empty" /\ UNCHANGED <<packets, edges>>
       \/ \E front \in Oldest(Places) :
            /\ drain' = "injecting"
            /\ packets' = Without({front} \cup Drained(front))
            /\ edges' = IF IsEdge(packets[front]) THEN edges \ Oldest(edges) ELSE edges
    /\ UNCHANGED <<accepting, scheduled, offered, arrivals, resets>>

(* worker_finished(): a task that found nothing ignores the answer. *)
WorkerFinished ==
    /\ drain # "idle" /\ drain' = "idle"
    /\ IF ~accepting \/ Places = {}
       THEN scheduled' = FALSE /\ UNCHANGED drains
       ELSE /\ UNCHANGED scheduled
            /\ drains' = IF drain = "injecting" THEN drains + 1 ELSE drains
    /\ UNCHANGED <<packets, accepting, offered, arrivals, edges, resets>>

(* reset(): join() of the session closes and clears the queue. *)
QueueStop ==
    /\ accepting /\ resets < MaxResets
    /\ resets' = resets + 1
    /\ accepting' = FALSE /\ packets' = Without(Places) /\ edges' = {}
    /\ UNCHANGED <<scheduled, drains, drain, offered, arrivals>>

(* alloc() of a session of the same client finds the retained input. *)
QueueResume ==
    /\ ~accepting /\ offered = {} /\ accepting' = TRUE
    /\ UNCHANGED <<packets, scheduled, drains, drain, offered, arrivals, edges,
                   resets>>

QueueNext ==
    \/ \E p \in Packets : Push(p)
    \/ PushWoken \/ WorkerPop \/ WorkerFinished \/ QueueStop \/ QueueResume

QueueSpec == QueueInit /\ [][QueueNext]_queueVars

-----------------------------------------------------------------------------
(* Batching and overflow never lose, duplicate or reorder a button, key or *)
(* other edge, and no motion crosses one: what the queue holds before an   *)
(* edge was sent before it, what it holds after it was sent after it.  At  *)
(* most one task drains the queue, so injection keeps that order.          *)
EdgesInOrder ==
    /\ {packets[k].last : k \in {j \in Places : IsEdge(packets[j])}} = edges
    /\ \A j, k \in Places :
          j < k /\ (IsEdge(packets[j]) \/ IsEdge(packets[k])) =>
              packets[j].last < packets[k].first
    /\ drains + (IF drain = "idle" THEN 0 ELSE 1) <= 1
    /\ Cardinality(Places) <= Capacity

(* "Whether exactly one worker owns future draining": a queue that is open *)
(* and not empty has a task that will drain it.                            *)
QueueIsServed == accepting /\ Places # {} => drains > 0 \/ drain # "idle"
=============================================================================
