---------------------------- MODULE Media_proofs ----------------------------
(***************************************************************************)
(* The invariants of MCMedia for any sessions, packets, buttons, encoders, *)
(* rates and bounds: each component has an inductive invariant of its own, *)
(* which its own steps keep and no other component's step touches.         *)
(***************************************************************************)
EXTENDS MCMedia, FiniteSetTheorems, TLAPS

(* A step of the suite is one of the component it looks at, or leaves it.  *)
LEMMA ComponentSteps ==
    ASSUME [Steps]_allVars
    PROVE  /\ focus' = focus
           /\ [focus = "queue" /\ QueueNext]_queueVars
           /\ [focus = "keys" /\ Key!Next]_keysVars
           /\ [focus = "pads" /\ Pad!Next]_padsVars
           /\ [focus = "combos" /\ Combos!Next]_combosVars
           /\ [focus = "capture" /\ Capture!Next]_captureVars
           /\ [focus = "hdr" /\ Hdr!Next]_hdrVars
           /\ [focus = "probe" /\ Hdr!ProbeNext]_probeVars
           /\ [focus = "rate" /\ Rate!RateNext]_rateVars
           /\ [focus = "pace" /\ Rate!PaceNext]_paceVars
           /\ [focus = "idr" /\ Rate!IdrNext]_idrVars
  BY DEF Steps, OnlyFocus, allVars

-----------------------------------------------------------------------------

-----------------------------------------------------------------------------
(* Input packets. *)

(* What may stand at a place: what was taken there, with messages before   *)
(* it and after it.                                                        *)
Sent(p, k) ==
    p.first \in Nat /\ p.last \in Nat /\ p.first <= k /\ k <= p.last /\ p.last <= arrivals

(* The list, with the places and numbers its entries have.                 *)
ListInv ==
    /\ arrivals \in Nat /\ Places \subseteq 1..arrivals /\ IsFiniteSet(Places)
    /\ packets = [k \in Places |-> packets[k]]
    /\ \A k \in Places : Sent(packets[k], k)
    /\ Cardinality(Places) \in Nat /\ Cardinality(Places) <= Capacity

(* What is queued stays on its side of every edge. *)
SideInv ==
    \A j, k \in Places :
        j < k /\ (IsEdge(packets[j]) \/ IsEdge(packets[k])) => packets[j].last < packets[k].first

EdgesInv == {packets[k].last : k \in {j \in Places : IsEdge(packets[j])}} = edges

(* What waits was sent after everything that is queued. *)
WaitInv ==
    \A p \in offered : /\ Sent(p, p.last) /\ p.last \in 1..arrivals
                       /\ \A k \in Places : k < p.last /\ packets[k].last < p.first

(* One task at a time, and none while the worker is not scheduled.         *)
WorkerInv ==
    /\ drain \in {"idle", "injecting", "empty"}
    /\ \/ drains = 0 /\ drain = "idle"
       \/ scheduled /\ drains = 1 /\ drain = "idle"
       \/ scheduled /\ drains = 0 /\ drain # "idle"

QueueInv == ListInv /\ SideInv /\ EdgesInv /\ WaitInv /\ WorkerInv

(* Only packets of one kind are merged or passed over, and edges never.    *)
LEMMA BatchKinds ==
    ASSUME NEW p, NEW q, Batch(p, q) \in {"batched", "not_batchable"}
    PROVE  ~IsEdge(p) /\ ~IsEdge(q)
<1>1. p.magic = q.magic
  BY DEF Batch
<1>2. p.magic # "edge"
  BY <1>1 DEF Batch
<1> QED
  BY <1>1, <1>2 DEF IsEdge

LEMMA DroppableIsNoEdge == \A p : Droppable(p) => ~IsEdge(p)
  BY DEF Droppable, IsEdge

(* Leaving packets out, none of them an edge, keeps the others in order.   *)
LEMMA LeftOut ==
    ASSUME ListInv, SideInv, NEW S \in SUBSET Places
    PROVE  /\ DOMAIN Without(S) = Places \ S
           /\ \A k \in Places \ S : Without(S)[k] = packets[k]
           /\ IsFiniteSet(Places \ S) /\ Cardinality(Places \ S) \in Nat
           /\ Cardinality(Places \ S) <= Cardinality(Places)
           /\ S # {} => Cardinality(Places \ S) < Cardinality(Places)
<1>1. Places \ S \in SUBSET Places /\ IsFiniteSet(Places) /\ Cardinality(Places) \in Nat
  BY DEF ListInv
<1>2. /\ IsFiniteSet(Places \ S) /\ Cardinality(Places \ S) <= Cardinality(Places)
      /\ Cardinality(Places) = Cardinality(Places \ S) => Places = Places \ S
  BY <1>1, FS_Subset
<1>3. Cardinality(Places \ S) \in Nat
  BY <1>2, FS_CardinalityType
<1> QED
  BY <1>1, <1>2, <1>3 DEF Without

(* The list with room for one more: the same edges, each where it was.     *)
Roomy(list) ==
    /\ DOMAIN list \subseteq Places /\ IsFiniteSet(DOMAIN list)
    /\ Cardinality(DOMAIN list) \in Nat /\ Cardinality(DOMAIN list) < Capacity
    /\ \A k \in DOMAIN list : Sent(list[k], k)
    /\ \A k \in Places : IsEdge(packets[k]) => k \in DOMAIN list /\ list[k] = packets[k]
    /\ \A k \in DOMAIN list : IsEdge(list[k]) => list[k] = packets[k]
    /\ \A k \in DOMAIN list : \E j \in Places : list[k].last = packets[j].last
    /\ \A j, k \in DOMAIN list :
          j < k /\ (IsEdge(list[j]) \/ IsEdge(list[k])) => list[j].last < list[k].first

LEMMA RoomIsMade == ASSUME ListInv, SideInv, NEW list \in MadeRoom PROVE Roomy(list)
<1> USE DEF SideInv
<1>0. /\ arrivals \in Nat /\ Places \subseteq 1..arrivals /\ IsFiniteSet(Places)
      /\ Cardinality(Places) \in Nat /\ Cardinality(Places) <= Capacity
      /\ packets = [k \in Places |-> packets[k]]
      /\ \A k \in Places : Sent(packets[k], k)
      /\ Capacity \in Nat
  BY QueueAssumption DEF ListInv
<1>1. CASE ~Full
  <2>1. list = packets /\ DOMAIN list = Places
    BY <1>1 DEF MadeRoom, Places
  <2> QED
    BY <1>0, <1>1, <2>1 DEF Full, Roomy
<1>2. CASE Full /\ Pairs # {}
  <2>1. PICK pair \in Pairs : list = Combined(pair)
    BY <1>2 DEF MadeRoom, FirstPairs
  <2> DEFINE a == pair[1]
             b == pair[2]
             m == Merge(packets[a], packets[b])
  <2>2. /\ a \in Places /\ b \in Places /\ a < b
        /\ Batch(packets[a], packets[b]) = "batched"
        /\ \A k \in Places : a < k /\ k < b => Batch(packets[a], packets[k]) = "not_batchable"
    BY <2>1 DEF Pairs
  <2>3. /\ ~IsEdge(packets[a]) /\ ~IsEdge(packets[b])
        /\ \A k \in Places : a < k /\ k < b => ~IsEdge(packets[k])
    BY <2>2, BatchKinds
  <2>4. /\ m.first = packets[a].first /\ m.last = packets[b].last /\ ~IsEdge(m)
    BY <2>3 DEF Merge, Entry, IsEdge
  <2>5. /\ DOMAIN Without({a}) = Places \ {a}
        /\ \A k \in Places \ {a} : Without({a})[k] = packets[k]
        /\ IsFiniteSet(Places \ {a}) /\ Cardinality(Places \ {a}) \in Nat
        /\ Cardinality(Places \ {a}) < Cardinality(Places)
    BY <2>2, LeftOut
  <2>6. list = [Without({a}) EXCEPT ![b] = Merge(packets[a], @)]
    BY <2>1 DEF Combined
  <2>7. b \in Places \ {a} /\ a \in 1..arrivals /\ b \in 1..arrivals
    BY <1>0, <2>2
  <2>8. /\ DOMAIN list = Places \ {a} /\ list[b] = m
        /\ \A k \in Places \ {a} : k # b => list[k] = packets[k]
    BY <2>5, <2>6, <2>7 DEF Without
  <2> HIDE DEF a, b, m
  <2>9. Sent(m, b)
    BY <1>0, <2>2, <2>4, <2>7 DEF Sent
  <2> QED
    BY <1>0, <2>2, <2>3, <2>4, <2>5, <2>7, <2>8, <2>9 DEF Roomy
<1>3. CASE Full /\ Pairs = {}
  <2>1. PICK k \in Oldest(StalePlaces) : list = Without({k})
    BY <1>3 DEF MadeRoom
  <2>2. k \in Places /\ ~IsEdge(packets[k])
    BY <2>1, DroppableIsNoEdge DEF Oldest, StalePlaces
  <2>3. /\ DOMAIN list = Places \ {k} /\ \A j \in Places \ {k} : list[j] = packets[j]
        /\ IsFiniteSet(Places \ {k}) /\ Cardinality(Places \ {k}) \in Nat
        /\ Cardinality(Places \ {k}) < Cardinality(Places)
    BY <2>1, <2>2, LeftOut
  <2> QED
    BY <1>0, <2>2, <2>3 DEF Roomy
<1> QED
  BY <1>1, <1>2, <1>3

(* A packet after all others, put into a list with room. *)
LEMMA AcceptKept ==
    ASSUME ListInv, SideInv, EdgesInv, WorkerInv, NEW p, Accept(p), arrivals' \in Nat,
           arrivals <= arrivals', p.last \in 1..arrivals', p.first \in Nat, p.first <= p.last,
           \A k \in Places : k < p.last /\ packets[k].last < p.first, drain' = drain
    PROVE  QueueInv'
<1>0. /\ arrivals \in Nat /\ Places \subseteq 1..arrivals
      /\ \A k \in Places : Sent(packets[k], k)
  BY DEF ListInv
<1> DEFINE n == p.last
<1>1. PICK list \in MadeRoom :
        packets' = [k \in DOMAIN list \cup {n} |-> IF k = n THEN p ELSE list[k]]
  BY DEF Accept
<1>2. Roomy(list)
  BY <1>1, RoomIsMade
<1>3. /\ Places' = DOMAIN list \cup {n} /\ packets'[n] = p
      /\ \A k \in DOMAIN list : k # n => packets'[k] = list[k]
  BY <1>1 DEF Places
<1>4. /\ p.first \in Nat /\ n \in Nat /\ p.first <= n /\ n <= arrivals' /\ n \in 1..arrivals'
  OBVIOUS
<1>5. n \notin DOMAIN list /\ n \notin Places
  BY <1>0, <1>2, <1>4 DEF Roomy
<1>6. \A k \in DOMAIN list : /\ packets'[k] = list[k] /\ k \in 1..arrivals' /\ k < n
                             /\ Sent(list[k], k) /\ list[k].last < p.first
  <2> SUFFICES ASSUME NEW k \in DOMAIN list
               PROVE  /\ packets'[k] = list[k] /\ k \in 1..arrivals' /\ k < n
                      /\ Sent(list[k], k) /\ list[k].last < p.first
    OBVIOUS
  <2>1. k \in Places /\ Sent(list[k], k)
    BY <1>2 DEF Roomy
  <2>2. PICK j \in Places : list[k].last = packets[j].last
    BY <1>2 DEF Roomy
  <2>3. list[k].last < p.first /\ k < n
    BY <2>1, <2>2
  <2>4. k \in 1..arrivals
    BY <1>0, <2>1
  <2>5. k \in 1..arrivals'
    BY <1>0, <2>4
  <2> QED
    BY <1>3, <1>5, <2>1, <2>3, <2>5
<1>7. ListInv'
  <2>1. /\ IsFiniteSet(Places') /\ Cardinality(Places') = Cardinality(DOMAIN list) + 1
    BY <1>2, <1>3, <1>5, FS_AddElement DEF Roomy
  <2>2. Cardinality(Places') \in Nat /\ Cardinality(Places') <= Capacity
    BY <1>2, <2>1, QueueAssumption DEF Roomy
  <2>3. Places' \subseteq 1..arrivals'
    BY <1>3, <1>4, <1>6
  <2>4. \A k \in Places' : Sent(packets[k], k)'
    BY <1>3, <1>4, <1>6 DEF Sent
  <2>5. (packets = [k \in Places |-> packets[k]])'
    BY <1>1 DEF Places
  <2> QED
    BY <2>1, <2>2, <2>3, <2>4, <2>5 DEF ListInv
<1>8. SideInv'
  BY <1>2, <1>3, <1>4, <1>6 DEF SideInv, Roomy
<1>9. EdgesInv'
  <2> DEFINE old == {packets[k].last : k \in {j \in Places : IsEdge(packets[j])}}
             new == {packets'[k].last : k \in {j \in Places' : IsEdge(packets'[j])}}
  <2>1. old = edges
    BY DEF EdgesInv
  <2>2. \A k \in Places : IsEdge(packets[k]) => k \in DOMAIN list /\ packets'[k] = packets[k]
    BY <1>2, <1>6 DEF Roomy
  <2>3. \A k \in DOMAIN list : IsEdge(packets'[k]) => k \in Places /\ packets'[k] = packets[k]
    BY <1>2, <1>6 DEF Roomy
  <2>4. new = IF IsEdge(p) THEN old \cup {n} ELSE old
    BY <1>3, <2>2, <2>3
  <2> QED
    BY <2>1, <2>4 DEF EdgesInv, Accept
<1>10. WaitInv'
  BY DEF WaitInv, Accept
<1>11. WorkerInv'
  BY DEF WorkerInv, Accept
<1> QED
  BY <1>7, <1>8, <1>9, <1>10, <1>11 DEF QueueInv

LEMMA QueueStart == QueueInit => QueueInv
<1> SUFFICES ASSUME QueueInit PROVE QueueInv
  OBVIOUS
<1>1. Places = {} /\ arrivals = 0 /\ packets = [k \in {} |-> 0]
  BY DEF QueueInit, Places
<1>2. IsFiniteSet(Places) /\ Cardinality(Places) = 0
  BY <1>1, FS_EmptySet
<1>3. ListInv
  BY <1>1, <1>2, QueueAssumption DEF ListInv
<1>4. SideInv /\ EdgesInv /\ WaitInv /\ WorkerInv
  BY <1>1 DEF SideInv, EdgesInv, WaitInv, WorkerInv, QueueInit
<1> QED
  BY <1>3, <1>4 DEF QueueInv

(* A message: dropped, merged in place, made to wait, or queued.           *)
LEMMA PushKept == ASSUME QueueInv, NEW packet \in Packets, Push(packet) PROVE QueueInv'
<1>a. PICK n : n = arrivals + 1
  OBVIOUS
<1>b. PICK p : p = Entry(packet, packet.value, n, n)
  OBVIOUS
<1>0. /\ ListInv /\ SideInv /\ EdgesInv /\ WaitInv /\ WorkerInv
      /\ arrivals \in Nat /\ Places \subseteq 1..arrivals
      /\ \A k \in Places : Sent(packets[k], k)
  BY DEF QueueInv, ListInv
<1>1. /\ p.first = n /\ p.last = n /\ p.magic = packet.magic
      /\ n \in Nat /\ n \in 1..n /\ arrivals <= n
  BY <1>0, <1>a, <1>b DEF Entry
<1>2. arrivals' = n /\ offered = {} /\ UNCHANGED <<accepting, drain, resets>>
  BY <1>a DEF Push
<1>3. \/ UNCHANGED <<packets, edges, scheduled, drains, offered>>
      \/ /\ packets' = [k \in Places |-> IF k \in MergeTargets(p) THEN Merge(packets[k], p)
                                         ELSE packets[k]]
         /\ UNCHANGED <<edges, scheduled, drains, offered>>
      \/ offered' = {p} /\ UNCHANGED <<packets, edges, scheduled, drains>>
      \/ Accept(p)
  BY <1>2, <1>b DEF Push
<1>4. \A k \in Places : /\ k < n /\ packets[k].last < n /\ k \in 1..n
                        /\ packets[k].first \in Nat /\ packets[k].last \in Nat
                        /\ packets[k].first <= k /\ k <= packets[k].last
  <2> SUFFICES ASSUME NEW k \in Places
               PROVE  /\ k < n /\ packets[k].last < n /\ k \in 1..n
                      /\ packets[k].first \in Nat /\ packets[k].last \in Nat
                      /\ packets[k].first <= k /\ k <= packets[k].last
    OBVIOUS
  <2>1. k \in 1..arrivals /\ Sent(packets[k], k)
    BY <1>0
  <2>2. k < n /\ k \in 1..n
    BY <1>0, <1>a, <2>1
  <2> QED
    BY <1>0, <1>a, <2>1, <2>2 DEF Sent
<1>5. CASE UNCHANGED <<packets, edges, scheduled, drains, offered>>
  BY <1>0, <1>1, <1>2, <1>4, <1>5
  DEF QueueInv, ListInv, SideInv, EdgesInv, WaitInv, WorkerInv, Places, Sent
<1>6. CASE /\ packets' = [k \in Places |-> IF k \in MergeTargets(p) THEN Merge(packets[k], p)
                                           ELSE packets[k]]
           /\ UNCHANGED <<edges, scheduled, drains, offered>>
  <2>1. Places' = Places /\ packets' = [k \in Places' |-> packets'[k]]
    BY <1>6 DEF Places
  <2>2. ASSUME NEW k \in Places, k \in MergeTargets(p)
        PROVE  /\ packets'[k].first = packets[k].first /\ packets'[k].last = n
               /\ ~IsEdge(packets[k]) /\ ~IsEdge(packets'[k])
               /\ \A j \in Places : j > k => ~IsEdge(packets[j])
    <3>1. /\ Batch(packets[k], p) = "batched"
          /\ \A j \in Places : j > k => Batch(packets[j], p) = "not_batchable"
      BY <2>2 DEF MergeTargets
    <3>2. /\ ~IsEdge(packets[k]) /\ ~IsEdge(p)
          /\ \A j \in Places : j > k => ~IsEdge(packets[j])
      BY <3>1, BatchKinds
    <3>3. packets'[k] = Merge(packets[k], p)
      BY <1>6, <2>2
    <3> QED
      BY <1>1, <3>2, <3>3 DEF Merge, Entry, IsEdge
  <2>3. \A k \in Places : k \notin MergeTargets(p) => packets'[k] = packets[k]
    BY <1>6
  <2>4. \A k \in Places : /\ IsEdge(packets'[k]) <=> IsEdge(packets[k])
                          /\ IsEdge(packets[k]) => packets'[k] = packets[k]
                          /\ packets'[k].first = packets[k].first
                          /\ packets'[k].last # packets[k].last =>
                                packets'[k].last = n /\ \A j \in Places :
                                    j >= k => ~IsEdge(packets[j])
    BY <1>4, <2>2, <2>3
  <2>5. ListInv'
    BY <1>0, <1>1, <1>2, <1>4, <2>1, <2>4 DEF ListInv, Sent
  <2>6. SideInv'
    BY <1>0, <1>4, <2>1, <2>4 DEF SideInv
  <2>7. EdgesInv'
    <3>1. \A k \in Places : /\ IsEdge(packets'[k]) <=> IsEdge(packets[k])
                            /\ IsEdge(packets[k]) => packets'[k] = packets[k]
      BY <2>4
    <3>2. {packets'[k].last : k \in {j \in Places : IsEdge(packets'[j])}}
             = {packets[k].last : k \in {j \in Places : IsEdge(packets[j])}}
      BY <3>1
    <3>3. edges' = edges
      BY <1>6
    <3> QED
      BY <1>0, <2>1, <3>2, <3>3 DEF EdgesInv
  <2> QED
    BY <1>0, <1>2, <1>6, <2>5, <2>6, <2>7 DEF QueueInv, WaitInv, WorkerInv
<1>7. CASE offered' = {p} /\ UNCHANGED <<packets, edges, scheduled, drains>>
  <2>1. ListInv' /\ SideInv' /\ EdgesInv' /\ WorkerInv'
    BY <1>0, <1>1, <1>2, <1>4, <1>7
    DEF ListInv, SideInv, EdgesInv, WorkerInv, Places, Sent
  <2>2. WaitInv'
    BY <1>1, <1>2, <1>4, <1>7 DEF WaitInv, Sent, Places
  <2> QED
    BY <2>1, <2>2 DEF QueueInv
<1>8. CASE Accept(p)
  <2>1. p.last \in 1..arrivals' /\ p.first \in Nat /\ p.first <= p.last
    BY <1>1, <1>2
  <2>2. \A k \in Places : k < p.last /\ packets[k].last < p.first
    BY <1>1, <1>4
  <2>3. arrivals' \in Nat /\ arrivals <= arrivals'
    BY <1>1, <1>2
  <2> QED
    BY <1>0, <1>2, <1>8, <2>1, <2>2, <2>3, AcceptKept
<1> QED
  BY <1>3, <1>5, <1>6, <1>7, <1>8

LEMMA WokenKept == ASSUME QueueInv, PushWoken PROVE QueueInv'
<1>0. /\ ListInv /\ SideInv /\ EdgesInv /\ WaitInv /\ WorkerInv /\ arrivals \in Nat
      /\ arrivals' = arrivals /\ drain' = drain
  BY DEF QueueInv, ListInv, PushWoken
<1>1. PICK p \in offered : \/ offered' = {} /\ UNCHANGED <<packets, edges, scheduled, drains>>
                           \/ Accept(p)
  BY DEF PushWoken
<1>2. CASE offered' = {} /\ UNCHANGED <<packets, edges, scheduled, drains>>
  BY <1>0, <1>2 DEF QueueInv, ListInv, SideInv, EdgesInv, WaitInv, WorkerInv, Places, Sent
<1>3. CASE Accept(p)
  <2>1. /\ Sent(p, p.last) /\ p.last \in 1..arrivals
        /\ \A k \in Places : k < p.last /\ packets[k].last < p.first
    BY <1>0 DEF WaitInv
  <2>2. p.first \in Nat /\ p.first <= p.last /\ p.last \in 1..arrivals'
    BY <1>0, <2>1 DEF Sent
  <2> QED
    BY <1>0, <1>3, <2>1, <2>2, AcceptKept
<1> QED
  BY <1>1, <1>2, <1>3

(* Only what may be merged into the front leaves with it, so no edge does. *)
LEMMA PopKept == ASSUME QueueInv, WorkerPop PROVE QueueInv'
<1>0. /\ ListInv /\ SideInv /\ EdgesInv /\ WaitInv /\ WorkerInv
      /\ arrivals \in Nat /\ Places \subseteq 1..arrivals
      /\ Cardinality(Places) \in Nat /\ Cardinality(Places) <= Capacity
      /\ \A k \in Places : Sent(packets[k], k)
  BY DEF QueueInv, ListInv
<1>1. /\ drains > 0 /\ drain = "idle" /\ drains' = drains - 1
      /\ drain' \in {"injecting", "empty"}
      /\ UNCHANGED <<accepting, scheduled, offered, arrivals, resets>>
  BY DEF WorkerPop
<1>2. WorkerInv'
  BY <1>0, <1>1 DEF WorkerInv
<1>3. CASE UNCHANGED <<packets, edges>>
  BY <1>0, <1>1, <1>2, <1>3 DEF QueueInv, ListInv, SideInv, EdgesInv, WaitInv, Places, Sent
<1>4. ASSUME NEW k \in Oldest(Places), packets' = Without({k} \cup Drained(k)),
             edges' = IF IsEdge(packets[k]) THEN edges \ Oldest(edges) ELSE edges
      PROVE  QueueInv'
  <2> DEFINE out == {k} \cup Drained(k)
  <2>1. k \in Places /\ \A j \in Places : j # k => k < j
    BY <1>0 DEF Oldest
  <2>2. \A j \in Drained(k) : j \in Places /\ ~IsEdge(packets[j])
    BY BatchKinds DEF Drained
  <2>3. /\ Places' = Places \ out /\ \A j \in Places' : packets'[j] = packets[j]
        /\ IsFiniteSet(Places') /\ Cardinality(Places') \in Nat
        /\ Cardinality(Places') <= Cardinality(Places)
    <3>1. out \in SUBSET Places
      BY <2>1, <2>2
    <3>2. Places' = DOMAIN Without(out)
      BY <1>4 DEF Places
    <3> HIDE DEF out
    <3> QED
      BY <1>0, <1>4, <3>1, <3>2, LeftOut DEF out
  <2>4. (packets = [j \in Places |-> packets[j]])'
    BY <1>4 DEF Without, Places
  <2> HIDE DEF out
  <2>5. ListInv'
    BY <1>0, <1>1, <2>3, <2>4, QueueAssumption DEF ListInv, Sent
  <2>6. SideInv' /\ WaitInv'
    BY <1>0, <1>1, <2>3 DEF SideInv, WaitInv, Sent
  <2>7. EdgesInv'
    <3> DEFINE old == {packets[j].last : j \in {i \in Places : IsEdge(packets[i])}}
               new == {packets'[j].last : j \in {i \in Places' : IsEdge(packets'[i])}}
    <3>1. old = edges
      BY <1>0 DEF EdgesInv
    <3>2. \A j \in Places : IsEdge(packets[j]) /\ j # k => j \in Places'
      BY <2>2, <2>3 DEF out
    <3>3. k \notin Places' /\ Places' \subseteq Places
      BY <2>3 DEF out
    <3>4. CASE ~IsEdge(packets[k])
      <4>1. new = old
        BY <2>3, <3>2, <3>3, <3>4
      <4> QED
        BY <1>4, <3>1, <3>4, <4>1 DEF EdgesInv
    <3>5. CASE IsEdge(packets[k])
      <4> DEFINE m == packets[k].last
      <4>1. \A j \in Places : IsEdge(packets[j]) /\ j # k => packets[j].last > m
        BY <1>0, <2>1 DEF SideInv, Sent
      <4>2. m \in old /\ \A x \in old : x = m \/ x > m
        BY <2>1, <3>5, <4>1
      <4>3. m \in Nat /\ \A x \in old : x \in Nat
        BY <1>0, <2>1 DEF Sent
      <4> HIDE DEF old, m
      <4>4. Oldest(old) = {m}
        <5>1. m \in Oldest(old)
          BY <4>2, <4>3 DEF Oldest
        <5>2. \A x \in Oldest(old) : x = m
          BY <4>2, <4>3 DEF Oldest
        <5> QED
          BY <5>1, <5>2
      <4>5. new = old \ {m}
        BY <2>1, <2>3, <3>2, <3>3, <4>1, <4>3 DEF old, m
      <4> QED
        BY <1>4, <3>1, <3>5, <4>4, <4>5 DEF EdgesInv, old
    <3> QED
      BY <3>4, <3>5
  <2> QED
    BY <1>2, <2>5, <2>6, <2>7 DEF QueueInv
<1> QED
  BY <1>3, <1>4 DEF WorkerPop

LEMMA QueueKept == QueueInv /\ QueueNext => QueueInv'
<1> SUFFICES ASSUME QueueInv, QueueNext PROVE QueueInv'
  OBVIOUS
<1>0. /\ ListInv /\ SideInv /\ EdgesInv /\ WaitInv /\ WorkerInv
  BY DEF QueueInv
<1>1. CASE WorkerFinished
  <2>1. WorkerInv'
    BY <1>0, <1>1 DEF WorkerInv, WorkerFinished
  <2> QED
    BY <1>0, <1>1, <2>1
    DEF WorkerFinished, QueueInv, ListInv, SideInv, EdgesInv, WaitInv, Places, Sent
<1>2. CASE QueueStop
  <2>1. /\ Places' = {} /\ edges' = {} /\ packets' = [k \in {} |-> packets[k]]
        /\ UNCHANGED <<scheduled, drains, drain, offered, arrivals>>
    BY <1>2 DEF QueueStop, Without, Places
  <2>2. ListInv'
    BY <1>0, <2>1, FS_EmptySet, QueueAssumption DEF ListInv
  <2> QED
    BY <1>0, <2>1, <2>2 DEF QueueInv, SideInv, EdgesInv, WaitInv, WorkerInv, Sent
<1>3. CASE QueueResume
  BY <1>0, <1>3
  DEF QueueResume, QueueInv, ListInv, SideInv, EdgesInv, WaitInv, WorkerInv, Places, Sent
<1> QED
  BY <1>1, <1>2, <1>3, PushKept, WokenKept, PopKept DEF QueueNext

LEMMA QueueFollows == QueueInv => EdgesInOrder
  BY DEF QueueInv, ListInv, SideInv, EdgesInv, WorkerInv, EdgesInOrder
(* Keyboard and mouse. *)

(* The state never stops being tracked, so the property is inductive. *)
LEMMA KeysStart == Key!Init => Key!HeldIsTracked
  BY DEF Key!Init, Key!HeldIsTracked

LEMMA KeysKept == Key!HeldIsTracked /\ Key!Next => Key!HeldIsTracked'
<1> SUFFICES ASSUME Key!HeldIsTracked, Key!Next PROVE Key!HeldIsTracked'
  OBVIOUS
<1> USE DEF Key!HeldIsTracked, Key!SendKey
<1>1. ASSUME NEW k \in Key!AllKeys, Key!KeyDown(k) PROVE Key!HeldIsTracked'
  BY <1>1 DEF Key!KeyDown
<1>2. ASSUME NEW k \in Key!AllKeys, Key!KeyUp(k) PROVE Key!HeldIsTracked'
  BY <1>2 DEF Key!KeyUp
<1>3. ASSUME NEW b \in Key!Buttons, Key!ButtonDown(b) PROVE Key!HeldIsTracked'
  BY <1>3 DEF Key!ButtonDown
<1>4. ASSUME NEW b \in Key!Buttons, Key!ButtonUp(b) PROVE Key!HeldIsTracked'
  BY <1>4 DEF Key!ButtonUp
<1>5. ASSUME NEW relative \in BOOLEAN, Key!MoveMouse(relative) PROVE Key!HeldIsTracked'
  BY <1>5 DEF Key!MoveMouse
<1>6. CASE Key!RepeatKey
  BY <1>6 DEF Key!RepeatKey
<1>7. CASE Key!LeftRelease
  BY <1>7 DEF Key!LeftRelease
<1>8. CASE Key!Reset
  BY <1>8 DEF Key!Reset
<1>9. CASE Key!ResetState
  BY <1>9 DEF Key!ResetState
<1>10. CASE Key!Refresh
  BY <1>10 DEF Key!Refresh
<1>11. CASE Key!Resume
  BY <1>11 DEF Key!Resume
<1> QED
  BY <1>1, <1>2, <1>3, <1>4, <1>5, <1>6, <1>7, <1>8, <1>9, <1>10, <1>11 DEF Key!Next

-----------------------------------------------------------------------------
(* Gamepad slots. *)

PadTasks ==
    ({"rebind"} \X Pad!Inputs \X PadSessions) \cup ({"reset"} \X Pad!Inputs \X {"none"})
    \cup ({"destroy"} \X (SUBSET Pad!Inputs) \X {"none"})
    \cup ({"free"} \X {0} \X (SUBSET PadSlots))

(* A slot that some controller has, and one that a queued task will free.  *)
Taken(x) == \E o \in Pad!Inputs : \E i \in Controllers : pads[o][i] = x
FreedIn(tasks, x) == \E n \in DOMAIN tasks : tasks[n][1] = "free" /\ x \in tasks[n][3]

(* No slot is freed by two tasks. *)
FreesOnce(tasks) ==
    \A m, n \in DOMAIN tasks :
        tasks[m][1] = "free" /\ tasks[n][1] = "free" /\ tasks[m][3] \cap tasks[n][3] # {}
            => m = n

PadTypes ==
    /\ retained \in [Pad!Clients -> Pad!Inputs \cup {0}]
    /\ holder \in [PadSessions -> Pad!Inputs \cup {0, Pad!Gone}]
    /\ pads \in [Pad!Inputs -> [Controllers -> PadSlots \cup {0}]]
    /\ mask \subseteq PadSlots /\ device \in [PadSlots -> PadSessions \cup {"none"}]
    /\ pool \in Seq(PadTasks) /\ inputs \in 0..MaxPadInputs

(* A taken slot has one controller or one task to free it, and a device.   *)
OneOwner ==
    /\ \A o, p \in Pad!Inputs : \A i, j \in Controllers :
          pads[o][i] # 0 /\ pads[o][i] = pads[p][j] => o = p /\ i = j
    /\ \A x \in PadSlots : /\ x \in mask <=> Taken(x) \/ FreedIn(pool, x)
                           /\ ~(Taken(x) /\ FreedIn(pool, x))
                           /\ x \in mask <=> device[x] # "none"

PadsInv == PadTypes /\ OneOwner /\ FreesOnce(pool)

(* A task that is queued last. *)
LEMMA TaskQueued ==
    ASSUME NEW q \in Seq(PadTasks), FreesOnce(q), NEW t \in PadTasks,
           t[1] = "free" => \A x \in t[3] : ~FreedIn(q, x)
    PROVE  /\ Append(q, t) \in Seq(PadTasks) /\ FreesOnce(Append(q, t))
           /\ \A x : FreedIn(Append(q, t), x) <=> FreedIn(q, x) \/ (t[1] = "free" /\ x \in t[3])
<1> DEFINE a == Append(q, t)
<1>1. /\ a \in Seq(PadTasks) /\ Len(q) \in Nat /\ DOMAIN q = 1..Len(q)
      /\ DOMAIN a = 1..(Len(q) + 1) /\ a[Len(q) + 1] = t
      /\ \A i \in 1..Len(q) : a[i] = q[i]
  OBVIOUS
<1>2. \A i \in 1..(Len(q) + 1) : i \in 1..Len(q) \/ i = Len(q) + 1
  BY <1>1
<1>3. Len(q) + 1 \in 1..(Len(q) + 1) /\ 1..Len(q) \subseteq 1..(Len(q) + 1)
  BY <1>1
<1> HIDE DEF a
<1>4. \A x : FreedIn(a, x) <=> FreedIn(q, x) \/ (t[1] = "free" /\ x \in t[3])
  BY <1>1, <1>2, <1>3 DEF FreedIn
<1>5. FreesOnce(a)
  <2> SUFFICES ASSUME NEW m \in DOMAIN a, NEW n \in DOMAIN a,
                      a[m][1] = "free", a[n][1] = "free", a[m][3] \cap a[n][3] # {}
               PROVE  m = n
    BY DEF FreesOnce
  <2>1. CASE m \in 1..Len(q) /\ n \in 1..Len(q)
    BY <1>1, <2>1 DEF FreesOnce
  <2>2. CASE m \in 1..Len(q) /\ n = Len(q) + 1
    BY <1>1, <2>2 DEF FreedIn
  <2>3. CASE n \in 1..Len(q) /\ m = Len(q) + 1
    BY <1>1, <2>3 DEF FreedIn
  <2> QED
    BY <1>1, <1>2, <2>1, <2>2, <2>3
<1> QED
  BY <1>1, <1>4, <1>5 DEF a

(* The task the worker takes. *)
LEMMA TaskTaken ==
    ASSUME NEW q \in Seq(PadTasks), q # <<>>, FreesOnce(q)
    PROVE  /\ Head(q) \in PadTasks /\ Tail(q) \in Seq(PadTasks) /\ FreesOnce(Tail(q))
           /\ \A x : FreedIn(q, x)
                     <=> FreedIn(Tail(q), x) \/ (Head(q)[1] = "free" /\ x \in Head(q)[3])
           /\ \A x : ~(FreedIn(Tail(q), x) /\ Head(q)[1] = "free" /\ x \in Head(q)[3])
<1> DEFINE t == Tail(q)
<1>1. /\ t \in Seq(PadTasks) /\ Len(q) \in Nat /\ Len(q) > 0 /\ Head(q) = q[1]
      /\ DOMAIN q = 1..Len(q) /\ DOMAIN t = 1..(Len(q) - 1) /\ Head(q) \in PadTasks
      /\ \A i \in 1..(Len(q) - 1) : t[i] = q[i + 1]
  OBVIOUS
<1>2. \A i \in 1..Len(q) : i = 1 \/ (i - 1 \in 1..(Len(q) - 1) /\ (i - 1) + 1 = i)
  BY <1>1
<1>3. 1 \in 1..Len(q) /\ \A i \in 1..(Len(q) - 1) : i + 1 \in 1..Len(q) /\ i + 1 # 1
  BY <1>1
<1>4. \A i, j \in 1..(Len(q) - 1) : i + 1 = j + 1 => i = j
  BY <1>1
<1> HIDE DEF t
<1>5. \A i \in 1..Len(q) : i = 1 \/ \E j \in DOMAIN t : t[j] = q[i]
  <2> SUFFICES ASSUME NEW i \in 1..Len(q) PROVE i = 1 \/ (i - 1 \in DOMAIN t /\ t[i - 1] = q[i])
    BY <1>1
  <2> QED
    BY <1>1, <1>2
<1>6. \A x : FreedIn(q, x) <=> FreedIn(t, x) \/ (Head(q)[1] = "free" /\ x \in Head(q)[3])
  <2>1. \A x : FreedIn(q, x) => FreedIn(t, x) \/ (Head(q)[1] = "free" /\ x \in Head(q)[3])
    BY <1>1, <1>5 DEF FreedIn
  <2>2. \A x : FreedIn(t, x) \/ (Head(q)[1] = "free" /\ x \in Head(q)[3]) => FreedIn(q, x)
    BY <1>1, <1>3 DEF FreedIn
  <2> QED
    BY <2>1, <2>2
<1>7. \A x : ~(FreedIn(t, x) /\ Head(q)[1] = "free" /\ x \in Head(q)[3])
  BY <1>1, <1>3 DEF FreedIn, FreesOnce
<1>8. FreesOnce(t)
  <2> SUFFICES ASSUME NEW m \in DOMAIN t, NEW n \in DOMAIN t,
                      t[m][1] = "free", t[n][1] = "free", t[m][3] \cap t[n][3] # {}
               PROVE  m = n
    BY DEF FreesOnce
  <2>1. m + 1 \in DOMAIN q /\ n + 1 \in DOMAIN q /\ t[m] = q[m + 1] /\ t[n] = q[n + 1]
    BY <1>1, <1>3
  <2>2. m + 1 = n + 1
    BY <2>1 DEF FreesOnce
  <2> QED
    BY <1>1, <1>4, <2>2
<1> QED
  BY <1>1, <1>6, <1>7, <1>8 DEF t

(* The slots of a task's kind. *)
LEMMA TaskKinds ==
    ASSUME NEW t \in PadTasks
    PROVE  /\ t[1] = "rebind" => t[2] \in Pad!Inputs /\ t[3] \in PadSessions
           /\ t[1] = "destroy" => t[2] \subseteq Pad!Inputs
           /\ t[1] = "free" => t[3] \subseteq PadSlots
  BY DEF PadTasks

(* Nothing is allocated at first. *)
LEMMA PadsStart == Pad!Init => PadsInv
<1> SUFFICES ASSUME Pad!Init PROVE PadsInv
  OBVIOUS
<1>1. PadTypes
  BY PadAssumption DEF Pad!Init, PadTypes, Pad!Inputs, Pad!Clients, Pad!None
<1>2. pool = <<>> /\ mask = {} /\ device = [x \in PadSlots |-> "none"]
      /\ pads = [o \in Pad!Inputs |-> [i \in Controllers |-> 0]]
  BY DEF Pad!Init, Pad!None
<1>3. OneOwner
  BY <1>2, PadAssumption DEF OneOwner, Taken, FreedIn
<1>4. FreesOnce(pool)
  BY <1>2 DEF FreesOnce
<1> QED
  BY <1>1, <1>3, <1>4 DEF PadsInv

(* A task that frees nothing changes no owner. *)
LEMMA QueuedNoFree ==
    ASSUME PadsInv, NEW t \in PadTasks, t[1] # "free", pool' = Append(pool, t),
           UNCHANGED <<pads, mask, device>>
    PROVE  OneOwner' /\ FreesOnce(pool)' /\ pool' \in Seq(PadTasks)
<1>1. pool' \in Seq(PadTasks) /\ FreesOnce(pool)'
      /\ \A x : FreedIn(pool', x) <=> FreedIn(pool, x)
  <2>1. pool \in Seq(PadTasks) /\ FreesOnce(pool)
    BY DEF PadsInv, PadTypes
  <2> QED
    BY <2>1, TaskQueued
<1>2. OneOwner'
  BY <1>1 DEF PadsInv, OneOwner, Taken
<1> QED
  BY <1>1, <1>2

(* The tasks that the other threads queue. *)
LEMMA StartKept ==
    ASSUME PadsInv, NEW s \in PadSessions, Pad!Start(s)
    PROVE  PadsInv'
<1> DEFINE c == PadOwners[s]
<1>1. UNCHANGED <<pads, mask, device, back>> /\ c \in Pad!Clients
  BY DEF Pad!Start, Pad!Clients
<1>2. CASE retained[c] # 0
  <2>1. /\ holder' = [holder EXCEPT ![s] = retained[c]]
        /\ pool' = Append(pool, <<"rebind", retained[c], s>>)
        /\ UNCHANGED <<retained, inputs>>
    BY <1>2 DEF Pad!Start
  <2>2. retained[c] \in Pad!Inputs
    BY <1>1, <1>2 DEF PadsInv, PadTypes
  <2>3. <<"rebind", retained[c], s>> \in PadTasks
    BY <2>2 DEF PadTasks
  <2>4. OneOwner' /\ FreesOnce(pool)' /\ pool' \in Seq(PadTasks)
    BY <1>1, <2>1, <2>3, QueuedNoFree
  <2> QED
    BY <1>1, <2>1, <2>2, <2>4 DEF PadsInv, PadTypes
<1>3. CASE retained[c] = 0
  <2>1. /\ inputs < MaxPadInputs /\ inputs' = inputs + 1
        /\ holder' = [holder EXCEPT ![s] = inputs + 1]
        /\ retained' = [retained EXCEPT ![c] = inputs + 1]
        /\ pool' = pool
    BY <1>3 DEF Pad!Start
  <2>2. inputs + 1 \in Pad!Inputs /\ inputs' \in 0..MaxPadInputs
    BY <2>1, PadAssumption DEF PadsInv, PadTypes, Pad!Inputs
  <2>3. PadTypes'
    BY <1>1, <2>1, <2>2 DEF PadsInv, PadTypes
  <2> QED
    BY <1>1, <2>1, <2>3 DEF PadsInv, OneOwner, Taken
<1> QED
  BY <1>2, <1>3

LEMMA EndKept ==
    ASSUME PadsInv, NEW s \in PadSessions, Pad!End(s)
    PROVE  PadsInv'
<1>1. /\ holder[s] \in Pad!Inputs /\ holder' = [holder EXCEPT ![s] = Pad!Gone]
      /\ pool' = Append(pool, <<"reset", holder[s], "none">>)
      /\ UNCHANGED <<retained, pads, mask, device, inputs>>
  BY DEF Pad!End, Pad!Live, Pad!None
<1>2. <<"reset", holder[s], "none">> \in PadTasks
  BY <1>1 DEF PadTasks
<1>3. OneOwner' /\ FreesOnce(pool)' /\ pool' \in Seq(PadTasks)
  BY <1>1, <1>2, QueuedNoFree
<1> QED
  BY <1>1, <1>3 DEF PadsInv, PadTypes

LEMMA TerminateKept ==
    ASSUME PadsInv, NEW clients \in SUBSET Pad!Clients, Pad!Terminate(clients)
    PROVE  PadsInv'
<1> DEFINE dropped == {retained[c] : c \in clients} \ {0}
<1>1. /\ retained' = [c \in Pad!Clients |-> IF c \in clients THEN 0 ELSE retained[c]]
      /\ pool' = Append(pool, <<"destroy", dropped, "none">>)
      /\ UNCHANGED <<holder, pads, mask, device, inputs>>
  BY DEF Pad!Terminate, Pad!None
<1>2. dropped \subseteq Pad!Inputs
  BY DEF PadsInv, PadTypes
<1> HIDE DEF dropped
<1>3. <<"destroy", dropped, "none">> \in PadTasks
  BY <1>2 DEF PadTasks
<1>4. OneOwner' /\ FreesOnce(pool)' /\ pool' \in Seq(PadTasks)
  BY <1>1, <1>3, QueuedNoFree
<1> QED
  BY <1>1, <1>4 DEF PadsInv, PadTypes

(* A destructor hands its slots over to the task that frees them. *)
LEMMA DestructKept ==
    ASSUME PadsInv, NEW o \in Pad!Inputs, Pad!Destruct(o)
    PROVE  PadsInv'
<1> DEFINE xs == {pads[o][i] : i \in Controllers} \ {0}
           t == <<"free", 0, xs>>
<1>1. /\ pool' = Append(pool, t)
      /\ pads' = [pads EXCEPT ![o] = [i \in Controllers |-> 0]]
      /\ UNCHANGED <<retained, holder, mask, device, inputs>>
  BY DEF Pad!Destruct
<1>2. PadTypes /\ OneOwner /\ FreesOnce(pool)
  BY DEF PadsInv
<1>3. xs \subseteq PadSlots /\ \A x \in xs : Taken(x) /\ ~FreedIn(pool, x)
  BY <1>2 DEF PadTypes, OneOwner, Taken
<1>4. t \in PadTasks /\ t[1] = "free" /\ t[3] = xs
  BY <1>3 DEF PadTasks
<1> HIDE DEF t
<1>5. pool' \in Seq(PadTasks) /\ FreesOnce(pool)'
      /\ \A x : FreedIn(pool', x) <=> FreedIn(pool, x) \/ x \in xs
  <2>1. pool \in Seq(PadTasks)
    BY <1>2 DEF PadTypes
  <2> QED
    BY <1>1, <1>2, <1>3, <1>4, <2>1, TaskQueued
<1>6. PadTypes'
  BY <1>1, <1>2, <1>5 DEF PadTypes
<1>7. \A p \in Pad!Inputs : \A i \in Controllers :
         pads'[p][i] = IF p = o THEN 0 ELSE pads[p][i]
  BY <1>1, <1>2 DEF PadTypes
<1>8. \A x \in PadSlots : Taken(x)' <=> Taken(x) /\ x \notin xs
  <2> SUFFICES ASSUME NEW x \in PadSlots PROVE Taken(x)' <=> Taken(x) /\ x \notin xs
    OBVIOUS
  <2>1. x # 0
    BY PadAssumption
  <2>2. x \in xs => \A p \in Pad!Inputs : \A i \in Controllers : pads[p][i] = x => p = o
    BY <1>2, <2>1 DEF OneOwner
  <2>3. Taken(x)' => Taken(x) /\ x \notin xs
    BY <1>7, <2>1, <2>2 DEF Taken
  <2>4. Taken(x) /\ x \notin xs => Taken(x)'
    BY <1>7, <2>1 DEF Taken
  <2> QED
    BY <2>3, <2>4
<1> HIDE DEF xs
<1>9. OneOwner'
  <2>1. \A p, q \in Pad!Inputs : \A i, j \in Controllers :
           pads'[p][i] # 0 /\ pads'[p][i] = pads'[q][j] => p = q /\ i = j
    BY <1>2, <1>7 DEF OneOwner
  <2>2. \A x \in PadSlots : /\ x \in mask' <=> Taken(x)' \/ FreedIn(pool', x)
                            /\ ~(Taken(x)' /\ FreedIn(pool', x))
    BY <1>1, <1>2, <1>3, <1>5, <1>8 DEF OneOwner
  <2>3. \A x \in PadSlots : x \in mask' <=> device'[x] # "none"
    BY <1>1, <1>2 DEF OneOwner
  <2> QED
    BY <2>1, <2>2, <2>3 DEF OneOwner
<1> QED
  BY <1>5, <1>6, <1>9 DEF PadsInv

(* A controller gets a free slot. *)
LEMMA ArriveKept ==
    ASSUME PadsInv, NEW s \in PadSessions, NEW i \in Controllers, Pad!Arrive(s, i)
    PROVE  PadsInv'
<1> DEFINE o == holder[s]
<1>1. PICK x \in PadSlots :
        /\ x \notin mask /\ pads' = [pads EXCEPT ![o][i] = x]
        /\ mask' = mask \cup {x} /\ device' = [device EXCEPT ![x] = s]
  BY DEF Pad!Arrive, Pad!NextSlot
<1>2. o \in Pad!Inputs /\ pads[o][i] = 0 /\ UNCHANGED <<retained, holder, pool, inputs>>
  BY DEF Pad!Arrive, Pad!Live
<1>3. PadTypes /\ OneOwner
  BY DEF PadsInv
<1>4. x # 0 /\ s # "none"
  BY PadAssumption
<1> HIDE DEF o
<1>5. PadTypes'
  BY <1>1, <1>2, <1>3 DEF PadTypes
<1>6. \A p \in Pad!Inputs : \A j \in Controllers :
         pads'[p][j] = IF p = o /\ j = i THEN x ELSE pads[p][j]
  BY <1>1, <1>2, <1>3 DEF PadTypes
<1>7. ~Taken(x) /\ ~FreedIn(pool, x)
  BY <1>1, <1>3 DEF OneOwner
<1>8. \A y \in PadSlots : Taken(y)' <=> Taken(y) \/ y = x
  <2> SUFFICES ASSUME NEW y \in PadSlots PROVE Taken(y)' <=> Taken(y) \/ y = x
    OBVIOUS
  <2>1. y # 0
    BY PadAssumption
  <2> QED
    BY <1>2, <1>6, <2>1 DEF Taken
<1>9. OneOwner'
  <2>1. \A p, q \in Pad!Inputs : \A j, k \in Controllers :
           pads'[p][j] # 0 /\ pads'[p][j] = pads'[q][k] => p = q /\ j = k
    BY <1>3, <1>6, <1>7 DEF OneOwner, Taken
  <2>2. \A y \in PadSlots : /\ y \in mask' <=> Taken(y)' \/ FreedIn(pool', y)
                            /\ ~(Taken(y)' /\ FreedIn(pool', y))
    BY <1>1, <1>2, <1>3, <1>7, <1>8 DEF OneOwner
  <2>3. \A y \in PadSlots : y \in mask' <=> device'[y] # "none"
    BY <1>1, <1>3, <1>4 DEF OneOwner, PadTypes
  <2> QED
    BY <2>1, <2>2, <2>3 DEF OneOwner
<1> QED
  BY <1>2, <1>5, <1>9 DEF PadsInv

(* A controller that is unplugged gives its slot back. *)
LEMMA UnplugKept ==
    ASSUME PadsInv, NEW s \in PadSessions, NEW i \in Controllers, Pad!Unplug(s, i)
    PROVE  PadsInv'
<1> DEFINE o == holder[s]
           x == pads[o][i]
<1>1. /\ o \in Pad!Inputs /\ x # 0 /\ mask' = mask \ {x}
      /\ device' = [y \in PadSlots |-> IF y \in {x} THEN "none" ELSE device[y]]
      /\ pads' = [pads EXCEPT ![o][i] = 0]
      /\ UNCHANGED <<retained, holder, pool, inputs>>
  BY DEF Pad!Unplug, Pad!Live, Pad!FreeSlots, Pad!None
<1>2. PadTypes /\ OneOwner
  BY DEF PadsInv
<1>3. x \in PadSlots /\ Taken(x)
  BY <1>1, <1>2 DEF PadTypes, Taken
<1>4. \A p \in Pad!Inputs : \A j \in Controllers :
         pads[p][j] = x => p = o /\ j = i
  BY <1>1, <1>2 DEF OneOwner
<1>5. \A p \in Pad!Inputs : \A j \in Controllers :
         pads'[p][j] = IF p = o /\ j = i THEN 0 ELSE pads[p][j]
  BY <1>1, <1>2 DEF PadTypes
<1>6. pads[o][i] = x
  OBVIOUS
<1> HIDE DEF o, x
<1>7. PadTypes'
  BY <1>1, <1>2 DEF PadTypes
<1>8. \A y \in PadSlots : Taken(y)' <=> Taken(y) /\ y # x
  <2> SUFFICES ASSUME NEW y \in PadSlots PROVE Taken(y)' <=> Taken(y) /\ y # x
    OBVIOUS
  <2>1. y # 0
    BY PadAssumption
  <2> QED
    BY <1>4, <1>5, <1>6, <2>1 DEF Taken
<1>9. OneOwner'
  <2>1. \A p, q \in Pad!Inputs : \A j, k \in Controllers :
           pads'[p][j] # 0 /\ pads'[p][j] = pads'[q][k] => p = q /\ j = k
    BY <1>2, <1>5 DEF OneOwner
  <2>2. \A y \in PadSlots : /\ y \in mask' <=> Taken(y)' \/ FreedIn(pool', y)
                            /\ ~(Taken(y)' /\ FreedIn(pool', y))
    BY <1>1, <1>2, <1>3, <1>8 DEF OneOwner
  <2>3. \A y \in PadSlots : y \in mask' <=> device'[y] # "none"
    BY <1>1, <1>2 DEF OneOwner
  <2> QED
    BY <2>1, <2>2, <2>3 DEF OneOwner
<1> QED
  BY <1>1, <1>7, <1>9 DEF PadsInv

(* The worker takes a task that frees nothing. *)
LEMMA TakenNoFree ==
    ASSUME PadsInv, pool # <<>>, pool' = Tail(pool), Head(pool)[1] # "free"
    PROVE  /\ Head(pool) \in PadTasks /\ pool' \in Seq(PadTasks) /\ FreesOnce(pool)'
           /\ \A x : FreedIn(pool', x) <=> FreedIn(pool, x)
<1>1. pool \in Seq(PadTasks) /\ FreesOnce(pool)
  BY DEF PadsInv, PadTypes
<1> QED
  BY <1>1, TaskTaken

(* No pad has lost its device, so the pads are all bound to the session.   *)
LEMMA RebindKept ==
    ASSUME PadsInv, Pad!Rebind
    PROVE  PadsInv'
<1> DEFINE o == Head(pool)[2]
           s == Head(pool)[3]
           lost == {i \in Controllers : pads[o][i] # 0 /\ device[pads[o][i]] = "none"}
           kept == {pads[o][i] : i \in Controllers \ lost} \ {0}
<1>1. /\ pool # <<>> /\ Head(pool)[1] = "rebind" /\ pool' = Tail(pool)
      /\ pads' = [pads EXCEPT ![o] = [i \in Controllers |-> IF i \in lost THEN 0 ELSE pads[o][i]]]
      /\ mask' = mask \ {pads[o][i] : i \in lost}
      /\ device' = [x \in PadSlots |-> IF x \in kept THEN s ELSE device[x]]
      /\ UNCHANGED <<retained, holder, inputs>>
  BY DEF Pad!Rebind, Pad!None
<1>2. PadTypes /\ OneOwner
  BY DEF PadsInv
<1>3. /\ Head(pool) \in PadTasks /\ pool' \in Seq(PadTasks) /\ FreesOnce(pool)'
      /\ \A x : FreedIn(pool', x) <=> FreedIn(pool, x)
  BY <1>1, TakenNoFree
<1>4. o \in Pad!Inputs /\ s \in PadSessions
  BY <1>1, <1>3, TaskKinds
<1>5. \A i \in Controllers : pads[o][i] # 0 => pads[o][i] \in mask
  BY <1>2, <1>4 DEF PadTypes, OneOwner, Taken
<1>6. lost = {}
  BY <1>2, <1>4, <1>5 DEF PadTypes, OneOwner
<1>7. kept \subseteq mask
  BY <1>5
<1> HIDE DEF o, s, lost, kept
<1>8. mask' = mask
  BY <1>1, <1>6
<1>9. pads' = pads
  BY <1>1, <1>2, <1>4, <1>6 DEF PadTypes
<1>10. PadTypes'
  BY <1>1, <1>2, <1>3, <1>4, <1>8, <1>9 DEF PadTypes
<1>11. \A x \in PadSlots : x \in mask <=> device'[x] # "none"
  BY <1>1, <1>2, <1>4, <1>7, PadAssumption DEF OneOwner
<1>12. OneOwner'
  BY <1>2, <1>3, <1>8, <1>9, <1>11 DEF OneOwner, Taken
<1> QED
  BY <1>3, <1>10, <1>12 DEF PadsInv

(* The pads of an input that was terminated. *)
LEMMA DestroyKept ==
    ASSUME PadsInv, Pad!DestroyPads
    PROVE  PadsInv'
<1> DEFINE os == Head(pool)[2]
           xs == {pads[o][i] : o \in os, i \in Controllers}
<1>1. /\ pool # <<>> /\ Head(pool)[1] = "destroy" /\ pool' = Tail(pool)
      /\ mask' = mask \ xs
      /\ device' = [x \in PadSlots |-> IF x \in xs THEN "none" ELSE device[x]]
      /\ pads' = [o \in Pad!Inputs |-> IF o \in os THEN [i \in Controllers |-> 0] ELSE pads[o]]
      /\ UNCHANGED <<retained, holder, inputs>>
  BY DEF Pad!DestroyPads, Pad!FreeSlots, Pad!None
<1>2. PadTypes /\ OneOwner
  BY DEF PadsInv
<1>3. /\ Head(pool) \in PadTasks /\ pool' \in Seq(PadTasks) /\ FreesOnce(pool)'
      /\ \A x : FreedIn(pool', x) <=> FreedIn(pool, x)
  BY <1>1, TakenNoFree
<1>4. os \subseteq Pad!Inputs
  BY <1>1, <1>3, TaskKinds
<1>5. \A x : x \in xs <=> \E o \in os : \E i \in Controllers : pads[o][i] = x
  OBVIOUS
<1> HIDE DEF os, xs
<1>6. PadTypes'
  BY <1>1, <1>2, <1>3, PadAssumption DEF PadTypes
<1>7. \A p \in Pad!Inputs : \A i \in Controllers :
         pads'[p][i] = IF p \in os THEN 0 ELSE pads[p][i]
  BY <1>1
<1>8. \A x \in PadSlots : Taken(x)' <=> Taken(x) /\ x \notin xs
  <2> SUFFICES ASSUME NEW x \in PadSlots PROVE Taken(x)' <=> Taken(x) /\ x \notin xs
    OBVIOUS
  <2>1. x # 0
    BY PadAssumption
  <2>2. Taken(x)' => Taken(x) /\ x \notin xs
    <3> SUFFICES ASSUME NEW p \in Pad!Inputs, NEW i \in Controllers, pads'[p][i] = x
                 PROVE  Taken(x) /\ x \notin xs
      BY DEF Taken
    <3>1. p \notin os /\ pads[p][i] = x
      BY <1>7, <2>1
    <3>2. \A o \in os : \A j \in Controllers : pads[o][j] # x
      BY <1>2, <1>4, <2>1, <3>1 DEF OneOwner
    <3> QED
      BY <1>5, <3>1, <3>2 DEF Taken
  <2>3. Taken(x) /\ x \notin xs => Taken(x)'
    BY <1>5, <1>7 DEF Taken
  <2> QED
    BY <2>2, <2>3
<1>9. \A x \in xs : x \in PadSlots => Taken(x)
  BY <1>4, <1>5 DEF Taken
<1>10. OneOwner'
  <2>1. \A p, q \in Pad!Inputs : \A j, k \in Controllers :
           pads'[p][j] # 0 /\ pads'[p][j] = pads'[q][k] => p = q /\ j = k
    BY <1>2, <1>7 DEF OneOwner
  <2>2. \A y \in PadSlots : /\ y \in mask' <=> Taken(y)' \/ FreedIn(pool', y)
                            /\ ~(Taken(y)' /\ FreedIn(pool', y))
    BY <1>1, <1>2, <1>3, <1>8, <1>9 DEF OneOwner
  <2>3. \A y \in PadSlots : y \in mask' <=> device'[y] # "none"
    BY <1>1, <1>2 DEF OneOwner
  <2> QED
    BY <2>1, <2>2, <2>3 DEF OneOwner
<1> QED
  BY <1>3, <1>6, <1>10 DEF PadsInv

(* The slots that a destructor handed over. *)
LEMMA FreeKept ==
    ASSUME PadsInv, Pad!FreePads
    PROVE  PadsInv'
<1> DEFINE xs == Head(pool)[3]
<1>1. /\ pool # <<>> /\ Head(pool)[1] = "free" /\ pool' = Tail(pool)
      /\ mask' = mask \ xs
      /\ device' = [x \in PadSlots |-> IF x \in xs THEN "none" ELSE device[x]]
      /\ UNCHANGED <<retained, holder, pads, inputs>>
  BY DEF Pad!FreePads, Pad!FreeSlots, Pad!None
<1>2. PadTypes /\ OneOwner /\ FreesOnce(pool)
  BY DEF PadsInv
<1>3. /\ pool' \in Seq(PadTasks) /\ FreesOnce(pool)'
      /\ \A x : FreedIn(pool, x) <=> FreedIn(pool', x) \/ x \in xs
      /\ \A x : ~(FreedIn(pool', x) /\ x \in xs)
  <2>1. pool \in Seq(PadTasks)
    BY <1>2 DEF PadTypes
  <2> QED
    BY <1>1, <1>2, <2>1, TaskTaken
<1> HIDE DEF xs
<1>4. PadTypes'
  BY <1>1, <1>2, <1>3 DEF PadTypes
<1>5. OneOwner'
  <2>1. \A x \in PadSlots : Taken(x)' <=> Taken(x)
    BY <1>1 DEF Taken
  <2>2. \A y \in PadSlots : /\ y \in mask' <=> Taken(y)' \/ FreedIn(pool', y)
                            /\ ~(Taken(y)' /\ FreedIn(pool', y))
    BY <1>1, <1>2, <1>3, <2>1 DEF OneOwner
  <2>3. \A y \in PadSlots : y \in mask' <=> device'[y] # "none"
    BY <1>1, <1>2 DEF OneOwner
  <2> QED
    BY <1>1, <1>2, <2>2, <2>3 DEF OneOwner
<1> QED
  BY <1>3, <1>4, <1>5 DEF PadsInv

(* Sessions, packets, terminations, destructors and the worker. *)
LEMMA PadsKept == PadsInv /\ Pad!Next => PadsInv'
<1> SUFFICES ASSUME PadsInv, Pad!Next PROVE PadsInv'
  OBVIOUS
<1>1. ASSUME UNCHANGED <<retained, holder, pads, mask, device, pool, inputs>> PROVE PadsInv'
  BY <1>1 DEF PadsInv, PadTypes, OneOwner, Taken
<1>2. ASSUME NEW s \in PadSessions, NEW i \in Controllers,
             Pad!Arrive(s, i) \/ Pad!Unplug(s, i) \/ Pad!HoldBack(s, i)
      PROVE  PadsInv'
  BY <1>1, <1>2, ArriveKept, UnplugKept DEF Pad!HoldBack
<1>3. CASE Pad!BackFires
  BY <1>1, <1>3 DEF Pad!BackFires
<1>4. CASE Pad!ResetPads
  <2>1. pool # <<>> /\ pool' = Tail(pool) /\ Head(pool)[1] # "free"
        /\ UNCHANGED <<retained, holder, pads, mask, device, inputs>>
    BY <1>4 DEF Pad!ResetPads
  <2> QED
    BY <2>1, TakenNoFree DEF PadsInv, PadTypes, OneOwner, Taken
<1>5. ASSUME NEW c \in Pad!Clients, Pad!Terminate({c}) PROVE PadsInv'
  BY <1>5, TerminateKept
<1>6. CASE Pad!Terminate(Pad!Clients)
  BY <1>6, TerminateKept
<1> QED
  BY <1>2, <1>3, <1>4, <1>5, <1>6, StartKept, EndKept, DestructKept, RebindKept, DestroyKept,
     FreeKept DEF Pad!Next

(* The sets of the property are those of the invariant. *)
LEMMA PadsFollow == PadsInv => Pad!SlotsAccounted
<1> SUFFICES ASSUME PadsInv PROVE Pad!SlotsAccounted
  OBVIOUS
<1>1. PadTypes /\ OneOwner
  BY DEF PadsInv
<1>2. \A x : x \in Pad!Freeing <=> FreedIn(pool, x)
  BY DEF Pad!Freeing, FreedIn
<1>3. \A x : x \in UNION {Pad!SlotsOf(o) : o \in Pad!Inputs} <=> Taken(x) /\ x # 0
  BY DEF Pad!SlotsOf, Taken
<1>4. \A x : FreedIn(pool, x) => x \in PadSlots
  BY <1>1 DEF PadTypes, PadTasks, FreedIn
<1>5. \A x : Taken(x) /\ x # 0 => x \in PadSlots
  BY <1>1 DEF PadTypes, Taken
<1>6. mask = (UNION {Pad!SlotsOf(o) : o \in Pad!Inputs}) \cup Pad!Freeing
  <2> DEFINE all == UNION {Pad!SlotsOf(o) : o \in Pad!Inputs}
  <2>1. \A x : x \in mask => x \in PadSlots /\ x # 0
    BY <1>1, PadAssumption DEF PadTypes
  <2>2. \A x \in PadSlots : x \in mask <=> Taken(x) \/ FreedIn(pool, x)
    BY <1>1 DEF OneOwner
  <2>3. \A x : x \in all <=> Taken(x) /\ x # 0
    BY <1>3
  <2> HIDE DEF all
  <2>4. \A x : x \in mask <=> x \in all \/ x \in Pad!Freeing
    BY <1>2, <1>4, <1>5, <2>1, <2>2, <2>3, Zenon
  <2>5. mask = all \cup Pad!Freeing
    BY <2>4, Zenon
  <2> QED
    BY <2>5 DEF all
<1>7. \A o \in Pad!Inputs : Pad!SlotsOf(o) \cap Pad!Freeing = {}
  <2> SUFFICES ASSUME NEW o \in Pad!Inputs, NEW x \in Pad!SlotsOf(o) PROVE x \notin Pad!Freeing
    OBVIOUS
  <2>1. Taken(x) /\ x # 0
    BY DEF Pad!SlotsOf, Taken
  <2> QED
    BY <1>1, <1>2, <1>5, <2>1 DEF OneOwner
<1> QED
  BY <1>1, <1>6, <1>7 DEF OneOwner, Pad!SlotsAccounted, Pad!None

-----------------------------------------------------------------------------
(* What a game sees of a gamepad. *)

(* Everything that is shown, or rendered by a turbo tick, is in the turbo  *)
(* tracker's own copy of the packet, which holds nothing that was taken.   *)
ShownInv ==
    /\ turbo = [active |-> turbo.active, since |-> turbo.since, hidden |-> turbo.hidden,
                previous |-> turbo.previous, input |-> turbo.input]
    /\ shown \subseteq turbo.input /\ padState \subseteq turbo.input
    /\ turbo.input \subseteq reported
    /\ turbo.input \cap (suppressed \cup turbo.hidden) = {}

(* Only a pad that was removed stops its ticks while a turbo button is     *)
(* held.                                                                   *)
PulseInv == ~stale /\ Combos!Ticking(turbo) => plugged /\ turboTick

(* The identifiers of a list are unique. *)
Unique(ss) == ss \subseteq SavedShortcuts /\ \A s, o \in ss : s.id = o.id => s = o

(* A timer is the current one of its shortcut. *)
TimersInv ==
    /\ Unique(shortcuts) /\ Unique(usedShortcuts)
    /\ DOMAIN timeouts = Combos!Ids
    /\ \A t \in timers : /\ t.fired \in SavedShortcuts
                         /\ t.n = timeouts[t.fired.id]
    /\ \A t, u \in timers : t.fired.id = u.fired.id => t = u

(* What is armed was armed by the last packet; while the list does not     *)
(* change, all timers know all shortcuts.                                  *)
Acts(t) == t.fired.id \in armed /\ t.fired \in usedShortcuts

ArmedInv ==
    /\ \A t \in timers : Acts(t) =>
        /\ t.fired.keys \subseteq reported
        /\ ~\E o \in usedShortcuts : /\ o.enabled /\ o.keys \subseteq reported
                                     /\ t.fired.keys \subseteq o.keys
                                     /\ o.keys # t.fired.keys
    /\ ~edited => \A t \in timers : /\ t.list = usedShortcuts /\ shortcuts = usedShortcuts
                                    /\ Acts(t) => t.fired.keys \cap suppressed = {}

CombosInv == ShownInv /\ PulseInv /\ TimersInv /\ ArmedInv

(* Nothing is shown, saved or armed at first. *)
LEMMA CombosStart == Combos!Init => CombosInv
  BY DEF Combos!Init, CombosInv, ShownInv, PulseInv, TimersInv, ArmedInv, Unique,
         Combos!NoTurbo, Combos!Ticking

(* After the last frame of an output its keys are released. *)
LEMMA LastFrame ==
    ASSUME NEW output \in Seq(PadButtons \cup {"home"}), output # <<>>, NEW base
    PROVE  Combos!Last(Combos!OutputFrames(output, base)) = base
<1> DEFINE k == Len(output)
           frames == Combos!OutputFrames(output, base)
<1>1. k \in Nat /\ k > 0
  OBVIOUS
<1>2. Len(frames) = 2 * k
  BY <1>1 DEF Combos!OutputFrames
<1>3. 2 * k \in 1..(2 * k) /\ ~(2 * k <= k) /\ 2 * k - 2 * k = 0
  BY <1>1
<1>4. frames[2 * k] = base \cup Combos!ToSet(SubSeq(output, 1, 0))
  BY <1>3 DEF Combos!OutputFrames
<1>5. SubSeq(output, 1, 0) = <<>>
  OBVIOUS
<1>6. Combos!ToSet(<<>>) = {}
  BY DEF Combos!ToSet
<1> QED
  BY <1>2, <1>4, <1>5, <1>6 DEF Combos!Last

(* A change of the list on the Web page. *)
LEMMA PublishKept ==
    ASSUME CombosInv, NEW ss, Unique(ss), Combos!Publish(ss)
    PROVE  CombosInv'
<1> USE DEF CombosInv, Combos!packetVars, Combos!backVars
<1>1. ShownInv'
  BY DEF Combos!Publish, ShownInv
<1>2. PulseInv'
  BY DEF Combos!Publish, PulseInv, Combos!Ticking
<1>3. TimersInv'
  BY DEF Combos!Publish, TimersInv, Unique
<1>4. ArmedInv'
  BY DEF Combos!Publish, ArmedInv, Acts
<1> QED
  BY <1>1, <1>2, <1>3, <1>4

(* A packet: what is rendered is what it holds, without what was taken.    *)
LEMMA ReportShown ==
    ASSUME CombosInv, NEW r, Combos!Report(r)
    PROVE  ShownInv' /\ PulseInv'
<1> DEFINE down == Combos!AfterBack(r)
           taken == suppressed \cap down
           pulse == Combos!Updated(down \ taken)
<1>1. /\ reported' = down /\ stale' = FALSE /\ plugged' = TRUE
      /\ suppressed' = taken /\ turbo' = pulse
      /\ padState' \in Combos!Rendered(pulse, pulse.since \ turbo.since) /\ shown' = padState'
      /\ turboTick' = (turboTick \/ Combos!Ticking(pulse))
  BY DEF Combos!Report
<1>2. /\ pulse = [active |-> pulse.active, since |-> pulse.since, hidden |-> pulse.hidden,
                  previous |-> pulse.previous, input |-> pulse.input]
      /\ pulse.input = (down \ taken) \ pulse.hidden
  BY DEF Combos!Updated
<1> HIDE DEF down, taken, pulse
<1>3. padState' \subseteq pulse.input
  BY <1>1 DEF Combos!Rendered
<1>4. ShownInv'
  BY <1>1, <1>2, <1>3 DEF ShownInv
<1>5. PulseInv'
  BY <1>1 DEF PulseInv
<1> QED
  BY <1>4, <1>5

(* The timers after a packet: those of shortcuts that stayed as they were, *)
(* and one for each that is armed now and was not.                         *)
LEMMA ReportTimers ==
    ASSUME CombosInv, NEW r, Combos!Report(r)
    PROVE  TimersInv' /\ ArmedInv'
<1> DEFINE down == Combos!AfterBack(r)
           taken == suppressed \cap down
           now == Combos!Armable(shortcuts, down, taken)
           began == {s \in now : s.id \notin armed}
           ended == armed \ {s.id : s \in now}
<1>1. /\ reported' = down /\ suppressed' = taken /\ usedShortcuts' = shortcuts
      /\ armed' = {s.id : s \in now} /\ shortcuts' = shortcuts
      /\ Combos!HoldTimers(now) /\ Combos!StillEdited
  BY DEF Combos!Report, Combos!webVars
<1>2. TimersInv /\ ArmedInv
  BY DEF CombosInv
<1>3. \A s \in now : s \in shortcuts
  BY DEF Combos!Armable, Combos!RawHeld
<1>4. \A s \in now : /\ s.keys \subseteq down /\ s.keys \cap taken = {}
                     /\ ~\E o \in shortcuts : /\ o.enabled /\ o.keys \subseteq down
                                             /\ s.keys \subseteq o.keys /\ o.keys # s.keys
  BY DEF Combos!Armable, Combos!RawHeld, Combos!Held
<1>5. \A t \in timers' :
        \/ /\ t \in timers
           /\ ~(t.fired.id \in ended \cup {s.id : s \in began} /\ t.n = timeouts[t.fired.id])
        \/ \E s \in began : t = [n |-> reports + 1, fired |-> s, list |-> shortcuts]
  BY <1>1 DEF Combos!HoldTimers
<1>6. timeouts' = [i \in Combos!Ids |-> IF i \in {s.id : s \in began} THEN reports + 1
                                       ELSE IF i \in ended THEN 0 ELSE timeouts[i]]
  BY <1>1 DEF Combos!HoldTimers
<1> HIDE DEF down, taken, now
<1>7. \A t \in timers' :
        \/ t \in timers /\ t.fired.id \notin ended /\ t.fired.id \notin {s.id : s \in began}
        \/ t.fired \in began /\ t = [n |-> reports + 1, fired |-> t.fired, list |-> shortcuts]
  <2> SUFFICES ASSUME NEW t \in timers'
               PROVE  \/ t \in timers /\ t.fired.id \notin ended
                                      /\ t.fired.id \notin {s.id : s \in began}
                      \/ t.fired \in began
                         /\ t = [n |-> reports + 1, fired |-> t.fired, list |-> shortcuts]
    OBVIOUS
  <2>1. t \in timers => t.n = timeouts[t.fired.id]
    BY <1>2 DEF TimersInv
  <2> HIDE DEF began, ended
  <2>2. ASSUME NEW s \in began, t = [n |-> reports + 1, fired |-> s, list |-> shortcuts]
        PROVE  t.fired \in began
               /\ t = [n |-> reports + 1, fired |-> t.fired, list |-> shortcuts]
    BY <2>2
  <2> QED
    BY <1>5, <2>1, <2>2
<1>8. \A s \in began : s \in now /\ s \in SavedShortcuts /\ s.id \in Combos!Ids
  BY <1>2, <1>3 DEF TimersInv, Unique, Combos!Ids
<1>9. TimersInv'
  <2>1. Unique(shortcuts)' /\ Unique(usedShortcuts)' /\ DOMAIN timeouts' = Combos!Ids
    BY <1>1, <1>2, <1>6 DEF TimersInv, Unique
  <2>2. ASSUME NEW t \in timers'
        PROVE  t.fired \in SavedShortcuts /\ t.n = timeouts'[t.fired.id]
    <3>1. CASE t \in timers /\ t.fired.id \notin ended /\ t.fired.id \notin {s.id : s \in began}
      <4>1. t.fired \in SavedShortcuts /\ t.fired.id \in Combos!Ids /\ t.n = timeouts[t.fired.id]
        BY <1>2, <3>1 DEF TimersInv, Combos!Ids
      <4> HIDE DEF began, ended
      <4> QED
        BY <1>6, <3>1, <4>1
    <3>2. CASE t.fired \in began
               /\ t = [n |-> reports + 1, fired |-> t.fired, list |-> shortcuts]
      <4>1. t.n = reports + 1
        BY <3>2
      <4>2. t.fired.id \in {s.id : s \in began} /\ t.fired.id \in Combos!Ids
            /\ t.fired \in SavedShortcuts
        BY <1>8, <3>2
      <4> HIDE DEF began, ended
      <4> QED
        BY <1>6, <4>1, <4>2
    <3> QED
      BY <1>7, <3>1, <3>2
  <2>3. ASSUME NEW t \in timers', NEW u \in timers', t.fired.id = u.fired.id PROVE t = u
    <3>1. CASE t \in timers /\ u \in timers
      BY <1>2, <2>3, <3>1 DEF TimersInv
    <3>2. CASE t.fired \in began /\ u.fired \in began
               /\ t = [n |-> reports + 1, fired |-> t.fired, list |-> shortcuts]
               /\ u = [n |-> reports + 1, fired |-> u.fired, list |-> shortcuts]
      <4>1. t.fired \in shortcuts /\ u.fired \in shortcuts
        BY <1>3, <1>8, <3>2
      <4>2. t.fired = u.fired
        BY <1>2, <2>3, <4>1 DEF TimersInv, Unique
      <4> QED
        BY <3>2, <4>2
    <3> QED
      BY <1>7, <2>3, <3>1, <3>2
  <2> QED
    BY <2>1, <2>2, <2>3 DEF TimersInv
<1>10. ArmedInv'
  <2>1. ASSUME NEW t \in timers', Acts(t)' PROVE t.fired \in now
    <3>1. t.fired.id \in {s.id : s \in now} /\ t.fired \in shortcuts
      BY <1>1, <2>1 DEF Acts
    <3> QED
      BY <1>2, <1>3, <3>1 DEF TimersInv, Unique
  <2>2. \A t \in timers' : Acts(t)' =>
          /\ t.fired.keys \subseteq reported' /\ t.fired.keys \cap suppressed' = {}
          /\ ~\E o \in usedShortcuts' : /\ o.enabled /\ o.keys \subseteq reported'
                                        /\ t.fired.keys \subseteq o.keys
                                        /\ o.keys # t.fired.keys
    BY <1>1, <1>4, <2>1
  <2>3. ~edited' => \A t \in timers' : t.list = usedShortcuts' /\ shortcuts' = usedShortcuts'
    <3> SUFFICES ASSUME ~edited', NEW t \in timers' PROVE t.list = shortcuts
      BY <1>1
    <3>1. ~edited
      BY <1>1 DEF Combos!StillEdited
    <3>2. t \in timers => t.list = shortcuts
      BY <1>2, <3>1 DEF ArmedInv
    <3>3. t = [n |-> reports + 1, fired |-> t.fired, list |-> shortcuts] => t.list = shortcuts
      OBVIOUS
    <3> QED
      BY <1>7, <3>2, <3>3
  <2> QED
    BY <2>2, <2>3 DEF ArmedInv, Acts
<1> QED
  BY <1>9, <1>10

(* A timer that ends: if it fires, its inputs are taken from the pad, from *)
(* the ticks and from every shortcut it knows.                             *)
LEMMA HoldEndsKept ==
    ASSUME CombosInv, NEW t \in timers, Combos!HoldEnds(t)
    PROVE  CombosInv'
<1>1. /\ timers' = timers \ {t} /\ timeouts' = [timeouts EXCEPT ![t.fired.id] = 0]
      /\ Combos!StillEdited
      /\ UNCHANGED <<shortcuts, usedShortcuts, reported, stale, plugged, turboTick>>
      /\ \/ Combos!Fire(t)
         \/ UNCHANGED <<suppressed, padState, shown, armed, turbo>>
  BY DEF Combos!HoldEnds, Combos!webVars, Combos!packetVars
<1>2. ShownInv /\ PulseInv /\ TimersInv /\ ArmedInv
  BY DEF CombosInv
<1>3. TimersInv'
  <2>1. \A u \in timers' : u \in timers /\ u.fired.id # t.fired.id
    BY <1>1, <1>2 DEF TimersInv
  <2>2. \A u \in timers' : timeouts'[u.fired.id] = timeouts[u.fired.id]
    BY <1>1, <1>2, <2>1 DEF TimersInv
  <2> QED
    BY <1>1, <1>2, <2>1, <2>2 DEF TimersInv, Unique
<1>4. ~edited' => ~edited \/ timers' = {}
  BY <1>1 DEF Combos!StillEdited
<1>5. CASE UNCHANGED <<suppressed, padState, shown, armed, turbo>>
  <2>1. ShownInv' /\ PulseInv'
    BY <1>1, <1>2, <1>5 DEF ShownInv, PulseInv, Combos!Ticking
  <2>2. ArmedInv'
    BY <1>1, <1>2, <1>4, <1>5 DEF ArmedInv, Acts
  <2> QED
    BY <1>3, <2>1, <2>2 DEF CombosInv
<1>6. CASE Combos!Fire(t)
  <2> DEFINE taken == suppressed \cup t.fired.keys
  <2>1. /\ suppressed' = taken /\ padState' = padState \ t.fired.keys
        /\ shown' = Combos!Last(Combos!OutputFrames(t.fired.output, padState'))
        /\ armed' = {i \in armed \ {t.fired.id} :
                        \A s \in t.list : s.id = i => s.keys \cap taken = {}}
        /\ turbo' = [turbo EXCEPT !.input = turbo.input \ t.fired.keys]
    BY <1>6 DEF Combos!Fire
  <2>2. shown' = padState'
    <3>1. t.fired.output \in Seq(PadButtons \cup {"home"}) /\ t.fired.output # <<>>
      BY <1>2, ShortcutAssumption DEF TimersInv
    <3> QED
      BY <2>1, <3>1, LastFrame
  <2>3. /\ turbo'.input = turbo.input \ t.fired.keys
        /\ turbo'.hidden = turbo.hidden /\ turbo'.active = turbo.active
        /\ turbo' = [active |-> turbo'.active, since |-> turbo'.since, hidden |-> turbo'.hidden,
                     previous |-> turbo'.previous, input |-> turbo'.input]
    BY <1>2, <2>1 DEF ShownInv
  <2>4. ShownInv'
    BY <1>1, <1>2, <2>1, <2>2, <2>3 DEF ShownInv
  <2>5. PulseInv'
    <3>1. Combos!Ticking(turbo') => Combos!Ticking(turbo)
      BY <2>3 DEF Combos!Ticking
    <3> QED
      BY <1>1, <1>2, <3>1 DEF PulseInv
  <2>6. ArmedInv'
    <3>1. \A u \in timers' : u \in timers
      BY <1>1
    <3>2. armed' \subseteq armed
      BY <2>1
    <3>3. \A u \in timers' : Acts(u)' => Acts(u)
      BY <1>1, <3>1, <3>2 DEF Acts
    <3>4. ASSUME NEW u \in timers', ~edited, Acts(u)' PROVE u.fired.keys \cap suppressed' = {}
      <4>1. t.list = usedShortcuts /\ u.fired \in t.list
        BY <1>1, <1>2, <3>1, <3>4 DEF ArmedInv, Acts
      <4>2. u.fired.id \in armed'
        BY <3>4 DEF Acts
      <4> QED
        BY <2>1, <4>1, <4>2
    <3> QED
      BY <1>1, <1>2, <1>4, <3>1, <3>3, <3>4 DEF ArmedInv, Acts
  <2> QED
    BY <1>3, <2>4, <2>5, <2>6 DEF CombosInv
<1> QED
  BY <1>1, <1>5, <1>6

(* The Web page, packets, timers and ticks. *)
LEMMA CombosKept == CombosInv /\ Combos!Next => CombosInv'
<1> SUFFICES ASSUME CombosInv, Combos!Next PROVE CombosInv'
  OBVIOUS
<1>0. ShownInv /\ PulseInv /\ TimersInv /\ ArmedInv
  BY DEF CombosInv
<1> USE DEF Combos!webVars, Combos!packetVars, Combos!backVars
<1>1. ASSUME NEW s \in SavedShortcuts, Combos!Upsert(s) PROVE CombosInv'
  <2>1. Unique((shortcuts \ Combos!WithId(s.id)) \cup {s})
    BY <1>0, <1>1 DEF Combos!Upsert, Combos!WithId, Unique, TimersInv
  <2> QED
    BY <1>1, <2>1, PublishKept DEF Combos!Upsert
<1>2. ASSUME NEW i \in Combos!Ids, Combos!RemoveShortcut(i) PROVE CombosInv'
  <2>1. Unique(shortcuts \ Combos!WithId(i))
    BY <1>0 DEF Unique, TimersInv
  <2> QED
    BY <1>2, <2>1, PublishKept DEF Combos!RemoveShortcut
<1>3. CASE Combos!SetTurbo
  <2>1. ShownInv' /\ PulseInv'
    BY <1>0, <1>3 DEF Combos!SetTurbo, ShownInv, PulseInv, Combos!Ticking
  <2>2. TimersInv' /\ ArmedInv'
    BY <1>0, <1>3 DEF Combos!SetTurbo, TimersInv, ArmedInv, Unique, Acts
  <2> QED
    BY <2>1, <2>2 DEF CombosInv
<1>4. ASSUME NEW r \in SUBSET PadButtons, Combos!Report(r) PROVE CombosInv'
  BY <1>4, ReportShown, ReportTimers DEF CombosInv
<1>5. CASE Combos!Unplug
  <2>1. ShownInv' /\ PulseInv'
    BY <1>0, <1>5 DEF Combos!Unplug, ShownInv, PulseInv, Combos!Ticking
  <2>2. TimersInv' /\ ArmedInv'
    BY <1>0, <1>5 DEF Combos!Unplug, TimersInv, ArmedInv, Unique, Acts
  <2> QED
    BY <2>1, <2>2 DEF CombosInv
<1>6. CASE Combos!Arrival
  <2>1. ShownInv' /\ PulseInv'
    BY <1>0, <1>6 DEF Combos!Arrival, ShownInv, PulseInv, Combos!Ticking
  <2>2. TimersInv' /\ ArmedInv'
    BY <1>0, <1>6 DEF Combos!Arrival, TimersInv, ArmedInv, Unique, Acts
  <2> QED
    BY <2>1, <2>2 DEF CombosInv
<1>7. CASE Combos!ResetPad
  <2>1. timers' = {}
    BY <1>0, <1>7 DEF Combos!ResetPad, TimersInv
  <2>2. ShownInv' /\ PulseInv'
    BY <1>7 DEF Combos!ResetPad, ShownInv, PulseInv, Combos!Ticking, Combos!NoTurbo
  <2>3. TimersInv' /\ ArmedInv'
    BY <1>0, <1>7, <2>1 DEF Combos!ResetPad, TimersInv, ArmedInv, Unique
  <2> QED
    BY <2>2, <2>3 DEF CombosInv
<1>8. ASSUME NEW t \in timers, Combos!HoldEnds(t) PROVE CombosInv'
  BY <1>8, HoldEndsKept
<1>9. ASSUME NEW n \in backTimers, Combos!BackEnds(n) PROVE CombosInv'
  <2>1. ShownInv' /\ PulseInv'
    BY <1>0, <1>9 DEF Combos!BackEnds, ShownInv, PulseInv, Combos!Ticking
  <2>2. TimersInv' /\ ArmedInv'
    BY <1>0, <1>9 DEF Combos!BackEnds, TimersInv, ArmedInv, Unique, Acts
  <2> QED
    BY <2>1, <2>2 DEF CombosInv
<1>10. CASE Combos!TurboTick
  <2> DEFINE now == IF settings.on THEN turbo ELSE [turbo EXCEPT !.active = {}, !.since = {}]
  <2>1. TimersInv' /\ ArmedInv'
    BY <1>0, <1>10 DEF Combos!TurboTick, TimersInv, ArmedInv, Unique, Acts
  <2>2. CASE ~plugged
    BY <1>0, <1>10, <2>1, <2>2
    DEF Combos!TurboTick, CombosInv, ShownInv, PulseInv, Combos!Ticking
  <2>3. CASE plugged
    <3>1. /\ turbo' = now /\ padState' \in Combos!Rendered(now, {})
          /\ shown' = (IF padState' # padState THEN padState' ELSE shown)
          /\ turboTick' = Combos!Ticking(now)
          /\ UNCHANGED <<plugged, stale, reported, suppressed>>
      BY <1>10, <2>3 DEF Combos!TurboTick
    <3>2. /\ now.input = turbo.input /\ now.hidden = turbo.hidden
          /\ now = [active |-> now.active, since |-> now.since, hidden |-> now.hidden,
                    previous |-> now.previous, input |-> now.input]
      <4>1. CASE settings.on
        BY <1>0, <4>1 DEF ShownInv
      <4>2. CASE ~settings.on
        BY <1>0, <4>2 DEF ShownInv
      <4> QED
        BY <4>1, <4>2
    <3> HIDE DEF now
    <3>3. padState' \subseteq now.input
      BY <3>1 DEF Combos!Rendered
    <3>4. ShownInv'
      BY <1>0, <3>1, <3>2, <3>3 DEF ShownInv
    <3>5. PulseInv'
      BY <2>3, <3>1 DEF PulseInv
    <3> QED
      BY <2>1, <3>4, <3>5 DEF CombosInv
  <2> QED
    BY <2>2, <2>3
<1> QED
  BY <1>1, <1>2, <1>3, <1>4, <1>5, <1>6, <1>7, <1>8, <1>9, <1>10 DEF Combos!Next

(* The properties of the pad follow. *)
LEMMA CombosFollow == CombosInv => Combos!CombosHold
<1> SUFFICES ASSUME CombosInv PROVE Combos!CombosHold
  OBVIOUS
<1>1. Combos!TakenStaysHidden /\ Combos!NoPhantomPress
  BY DEF CombosInv, ShownInv, Combos!TakenStaysHidden, Combos!NoPhantomPress
<1>2. Combos!FiresOnlyWhenHeld
  BY DEF CombosInv, TimersInv, ArmedInv, Acts, Combos!FiresOnlyWhenHeld
<1>3. Combos!PulseGoesOn
  BY DEF CombosInv, PulseInv, Combos!PulseGoesOn
<1> QED
  BY <1>1, <1>2, <1>3 DEF Combos!CombosHold

-----------------------------------------------------------------------------

-----------------------------------------------------------------------------
(* All of the input. *)
InputInv ==
    /\ focus = "queue" => QueueInv
    /\ focus = "keys" => Key!HeldIsTracked
    /\ focus = "pads" => PadsInv
    /\ focus = "combos" => CombosInv

(* A press or release is injected once and in order, a held key is         *)
(* tracked, a gamepad slot has one owner, and what a shortcut took stays   *)
(* hidden, whatever is sent, plugged in, saved and held.                   *)
THEOREM InputHolds == SuiteSpec => []InputIsAccounted
<1>1. Start => InputInv
  BY QueueStart, KeysStart, PadsStart, CombosStart DEF Start, InputInv
<1>2. InputInv /\ [Steps]_allVars => InputInv'
  <2> SUFFICES ASSUME InputInv, [Steps]_allVars PROVE InputInv'
    OBVIOUS
  <2>1. /\ focus' = focus
        /\ [focus = "queue" /\ QueueNext]_queueVars /\ [focus = "keys" /\ Key!Next]_keysVars
        /\ [focus = "pads" /\ Pad!Next]_padsVars /\ [focus = "combos" /\ Combos!Next]_combosVars
    BY ComponentSteps
  <2>2. CASE focus = "queue"
    <3>1. QueueInv /\ UNCHANGED queueVars => QueueInv'
      BY DEF queueVars, QueueInv, ListInv, SideInv, EdgesInv, WaitInv, WorkerInv, Sent, Places
    <3>2. QueueInv'
      BY <2>1, <2>2, <3>1, QueueKept DEF InputInv
    <3> QED
      BY <2>1, <2>2, <3>2 DEF InputInv
  <2>3. CASE focus = "keys"
    <3>1. Key!HeldIsTracked /\ UNCHANGED keysVars => Key!HeldIsTracked'
      BY DEF keysVars, Key!HeldIsTracked
    <3>2. Key!HeldIsTracked'
      BY <2>1, <2>3, <3>1, KeysKept DEF InputInv
    <3> QED
      BY <2>1, <2>3, <3>2 DEF InputInv
  <2>4. CASE focus = "pads"
    <3>1. PadsInv /\ UNCHANGED padsVars => PadsInv'
      BY DEF padsVars, PadsInv, PadTypes, OneOwner, FreesOnce, Taken, FreedIn
    <3>2. PadsInv'
      BY <2>1, <2>4, <3>1, PadsKept DEF InputInv
    <3> QED
      BY <2>1, <2>4, <3>2 DEF InputInv
  <2>5. CASE focus = "combos"
    <3>1. CombosInv /\ UNCHANGED combosVars => CombosInv'
      BY DEF combosVars, CombosInv, ShownInv, PulseInv, TimersInv, ArmedInv, Acts, Unique,
             Combos!Ticking
    <3>2. CombosInv'
      BY <2>1, <2>5, <3>1, CombosKept DEF InputInv
    <3> QED
      BY <2>1, <2>5, <3>2 DEF InputInv
  <2> QED
    BY <2>1, <2>2, <2>3, <2>4, <2>5 DEF InputInv
<1>3. InputInv => InputIsAccounted
  BY QueueFollows, PadsFollow, CombosFollow DEF InputInv, InputIsAccounted
<1> QED
  BY <1>1, <1>2, <1>3, PTL DEF SuiteSpec
(* Sessions that share the capture thread. *)

(* A session that encodes, or waits for a display to encode from. *)
Active == {"loop", "peeked", "prepare", "encode"}

(* The capture thread knows the session, or the session was stopped. *)
Served(s) ==
    \/ s \in ctxs
    \/ \E i \in DOMAIN waitingCtxs : waitingCtxs[i] = s
    \/ images[s] = "stopped"

(* A session holds a reference from ref() until it leaves; one that was    *)
(* accepted, or raised its context in time to be, is known to the thread,  *)
(* and a thread that has ended has stopped the queue and whom it knew.     *)
CaptureInv ==
    /\ waitingCtxs \in Seq(Streams)
    /\ DOMAIN stream = Streams /\ DOMAIN images = Streams
    /\ \A s \in Streams :
        /\ stream[s] \in Active \cup {"ref", "raised", "leave"} => s \in refs
        /\ s \in refs => images[s] \in {"open", "stopped"}
        /\ stream[s] \in Active => Served(s)
        /\ stream[s] = "raised" /\ ctxQueue = "open" => Served(s)
        /\ capture = "done" /\ stream[s] \in Active => images[s] = "stopped"
    /\ capture = "first" => ctxs = {}
    /\ capture = "done" => ctxQueue = "stopped"

(* No session runs at first. *)
LEMMA CaptureStarts == Capture!Init => CaptureInv
  BY DEF Capture!Init, CaptureInv, Active

(* What an element appended to a queue, or taken from it, leaves there. *)
LEMMA QueueAppend ==
    ASSUME NEW q \in Seq(Streams), NEW e \in Streams
    PROVE  /\ Append(q, e) \in Seq(Streams)
           /\ \A s : (\E i \in DOMAIN Append(q, e) : Append(q, e)[i] = s)
                     <=> s = e \/ \E i \in DOMAIN q : q[i] = s
<1> DEFINE a == Append(q, e)
<1>1. a \in Seq(Streams) /\ Len(a) = Len(q) + 1 /\ a[Len(q) + 1] = e
      /\ DOMAIN a = 1..(Len(q) + 1) /\ DOMAIN q = 1..Len(q) /\ Len(q) \in Nat
      /\ \A i \in 1..Len(q) : a[i] = q[i]
  OBVIOUS
<1>2. \A i \in 1..(Len(q) + 1) : i \in 1..Len(q) \/ i = Len(q) + 1
  BY <1>1
<1>3. Len(q) + 1 \in 1..(Len(q) + 1) /\ 1..Len(q) \subseteq 1..(Len(q) + 1)
  BY <1>1
<1> HIDE DEF a
<1>4. \A s : (\E i \in DOMAIN a : a[i] = s) <=> s = e \/ \E i \in DOMAIN q : q[i] = s
  BY <1>1, <1>2, <1>3
<1> QED
  BY <1>1, <1>4 DEF a

(* The head of a queue and the rest of it are all of it. *)
LEMMA QueueTail ==
    ASSUME NEW q \in Seq(Streams), q # <<>>
    PROVE  /\ Tail(q) \in Seq(Streams)
           /\ \A s : (\E i \in DOMAIN q : q[i] = s)
                     <=> s = Head(q) \/ \E i \in DOMAIN Tail(q) : Tail(q)[i] = s
<1> DEFINE t == Tail(q)
<1>1. t \in Seq(Streams) /\ Len(q) \in Nat /\ Len(q) > 0 /\ Head(q) = q[1]
      /\ DOMAIN q = 1..Len(q) /\ DOMAIN t = 1..(Len(q) - 1)
      /\ \A i \in 1..(Len(q) - 1) : t[i] = q[i + 1]
  OBVIOUS
<1>2. \A i \in 1..Len(q) : i = 1 \/ (i - 1 \in 1..(Len(q) - 1) /\ i = (i - 1) + 1)
  BY <1>1
<1>3. 1 \in 1..Len(q) /\ \A i \in 1..(Len(q) - 1) : i + 1 \in 1..Len(q)
  BY <1>1
<1> HIDE DEF t
<1>4. \A i \in DOMAIN q : q[i] = Head(q) \/ \E j \in DOMAIN t : t[j] = q[i]
  <2> SUFFICES ASSUME NEW i \in 1..Len(q) PROVE i = 1 \/ t[i - 1] = q[i]
    BY <1>1, <1>2
  <2> QED
    BY <1>1, <1>2
<1>5. \A s : s = Head(q) \/ (\E i \in DOMAIN t : t[i] = s) => \E i \in DOMAIN q : q[i] = s
  BY <1>1, <1>3
<1> QED
  BY <1>1, <1>4, <1>5 DEF t

(* A step of a session. *)
LEMMA StreamStepKept ==
    ASSUME CaptureInv, NEW s \in Streams, Capture!StreamStep(s) \/ Capture!Shutdown(s)
    PROVE  CaptureInv'
<1> USE DEF CaptureInv, Served, Active, Capture!threadVars, Capture!At
<1>1. CASE Capture!Ref(s)
  <2>1. CASE refs = {}
    BY <1>1, <2>1 DEF Capture!Ref
  <2>2. CASE refs # {}
    BY <1>1, <2>2 DEF Capture!Ref
  <2> QED
    BY <2>1, <2>2
<1>2. CASE Capture!Raise(s)
  <2>1. CASE ctxQueue = "open"
    BY <1>2, <2>1, QueueAppend DEF Capture!Raise
  <2>2. CASE ctxQueue # "open"
    BY <1>2, <2>2 DEF Capture!Raise
  <2> QED
    BY <2>1, <2>2
<1>3. CASE Capture!CheckQueue(s)
  BY <1>3 DEF Capture!CheckQueue
<1>4. CASE Capture!Loop(s)
  BY <1>4 DEF Capture!Loop
<1>5. CASE Capture!LockDisplay(s)
  BY <1>5 DEF Capture!LockDisplay
<1>6. CASE Capture!Prepare(s)
  BY <1>6 DEF Capture!Prepare
<1>7. CASE Capture!EncodeTurn(s)
  BY <1>7 DEF Capture!EncodeTurn
<1>8. CASE Capture!Release(s)
  BY <1>8 DEF Capture!Release
<1>9. CASE Capture!Join(s)
  BY <1>9 DEF Capture!Join
<1>10. CASE Capture!StopImages(s)
  BY <1>10 DEF Capture!StopImages
<1>11. CASE Capture!Shutdown(s)
  BY <1>11 DEF Capture!Shutdown
<1> QED
  BY <1>1, <1>2, <1>3, <1>4, <1>5, <1>6, <1>7, <1>8, <1>9, <1>10, <1>11
  DEF Capture!StreamStep

(* A step of the capture thread, or a request to switch the display. *)
LEMMA CaptureStepKept ==
    ASSUME CaptureInv, Capture!CaptureStep \/ Capture!RequestSwitch
    PROVE  CaptureInv'
<1> USE DEF CaptureInv, Served, Active, Capture!streamVars, Capture!Running, Capture!ToSet
<1>1. CASE Capture!FirstContext
  <2> DEFINE q == waitingCtxs
  <2>0. q \in Seq(Streams) /\ q # <<>> /\ ctxs' = {Head(q)} /\ waitingCtxs' = Tail(q)
    BY <1>1 DEF Capture!FirstContext
  <2>1. \A s : (\E i \in DOMAIN waitingCtxs : waitingCtxs[i] = s)
               => s \in ctxs' \/ \E i \in DOMAIN waitingCtxs' : waitingCtxs'[i] = s
    <3> HIDE DEF CaptureInv, Served
    <3>1. \A s : (\E i \in DOMAIN q : q[i] = s)
                    => s = Head(q) \/ \E i \in DOMAIN Tail(q) : Tail(q)[i] = s
      BY <2>0, QueueTail
    <3> QED
      BY <2>0, <3>1
  <2>2. waitingCtxs' \in Seq(Streams)
    BY <2>0, QueueTail DEF Capture!FirstContext
  <2> QED
    BY <1>1, <2>1, <2>2 DEF Capture!FirstContext
<1>2. CASE Capture!OpenDisplay
  BY <1>2 DEF Capture!OpenDisplay
<1>3. CASE Capture!PushImage
  BY <1>3 DEF Capture!PushImage
<1>4. CASE Capture!BeginReinit
  BY <1>4 DEF Capture!BeginReinit
<1>5. CASE Capture!DrainCheck
  BY <1>5 DEF Capture!DrainCheck
<1>6. CASE Capture!DrainDrop
  BY <1>6 DEF Capture!DrainDrop
<1>7. CASE Capture!RenewDisplay
  BY <1>7 DEF Capture!RenewDisplay
<1>8. CASE Capture!PublishDisplay
  BY <1>8 DEF Capture!PublishDisplay
<1>9. CASE Capture!CaptureFails
  BY <1>9 DEF Capture!CaptureFails, Capture!EndCapture
<1>10. CASE Capture!RequestSwitch
  BY <1>10 DEF Capture!RequestSwitch
<1> QED
  BY <1>1, <1>2, <1>3, <1>4, <1>5, <1>6, <1>7, <1>8, <1>9, <1>10
  DEF Capture!CaptureStep

(* The guard of captureThread() stops every session that was accepted,     *)
(* also one whose context came in while the thread was ending, for any     *)
(* sessions, displays, mode changes and switches.                          *)
THEOREM StreamsHaveCapture == SuiteSpec => []NoStreamWithoutCapture
<1>1. Start => CaptureInv
  BY CaptureStarts DEF Start
<1>2. CaptureInv /\ [Steps]_allVars => CaptureInv'
  <2> SUFFICES ASSUME CaptureInv, [Steps]_allVars PROVE CaptureInv'
    OBVIOUS
  <2>1. CASE UNCHANGED captureVars
    BY <2>1 DEF captureVars, CaptureInv, Served
  <2>2. CASE Capture!Next
    BY <2>2, StreamStepKept, CaptureStepKept DEF Capture!Next
  <2> QED
    BY <2>1, <2>2, ComponentSteps
<1>3. CaptureInv => NoStreamWithoutCapture
  BY DEF CaptureInv, NoStreamWithoutCapture, Capture!NoStreamWithoutCapture, Active
<1> QED
  BY <1>1, <1>2, <1>3, PTL DEF SuiteSpec

-----------------------------------------------------------------------------
(* Codec and dynamic range. *)

(* Where a stream is once its HDR policy was applied. *)
Decided == {"device", "open", "signal", "encode"}

(* From the moment the policy was applied, a stream that asked for HDR and *)
(* met an HDR source keeps ten bits.                                       *)
HdrInv ==
    /\ DOMAIN step = Players /\ DOMAIN range = Players /\ DOMAIN saw = Players
    /\ \A p \in Players : step[p] \in Decided /\ request[p].hdr /\ saw[p] => range[p] = 1

(* No policy was applied at first. *)
LEMMA HdrStarts == Hdr!Init => HdrInv
  BY DEF Hdr!Init, HdrInv, Decided

(* Only Select moves a stream past the policy, and it refuses the rest.    *)
LEMMA HdrKept == HdrInv /\ Hdr!Next => HdrInv'
<1> SUFFICES ASSUME HdrInv, Hdr!Next PROVE HdrInv'
  OBVIOUS
<1> USE DEF HdrInv, Decided, Hdr!fixed
<1>1. ASSUME NEW p \in Players, Hdr!Announce(p) PROVE HdrInv'
  BY <1>1 DEF Hdr!Announce
<1>2. ASSUME NEW p \in Players, Hdr!StartCapture(p) PROVE HdrInv'
  BY <1>2 DEF Hdr!StartCapture
<1>3. ASSUME NEW p \in Players, Hdr!Select(p) PROVE HdrInv'
  BY <1>3 DEF Hdr!Select, Hdr!Refused
<1>4. ASSUME NEW p \in Players, Hdr!MakeDevice(p) PROVE HdrInv'
  BY <1>4 DEF Hdr!MakeDevice
<1>5. ASSUME NEW p \in Players, Hdr!OpenSession(p) PROVE HdrInv'
  BY <1>5 DEF Hdr!OpenSession
<1>6. ASSUME NEW p \in Players, Hdr!Signal(p) PROVE HdrInv'
  BY <1>6 DEF Hdr!Signal
<1>7. ASSUME NEW p \in Players, Hdr!Reinit(p) PROVE HdrInv'
  BY <1>7 DEF Hdr!Reinit
<1>8. CASE Hdr!SourceChanges
  BY <1>8 DEF Hdr!SourceChanges
<1> QED
  BY <1>1, <1>2, <1>3, <1>4, <1>5, <1>6, <1>7, <1>8 DEF Hdr!Next

-----------------------------------------------------------------------------
(* The encoder that is probed for. *)

(* An encoder that captures in hardware. *)
Hardware == Hdr!Encoders \ {"software"}

(* What is left to try of the list, and the encoder that was found, are in *)
(* hardware while a virtual session is active; the session changes only    *)
(* between two probes.                                                     *)
ProbeInv ==
    /\ left \subseteq DOMAIN Order
    /\ chosen \in {"none"} \cup Hdr!Encoders
    /\ phase # "idle" /\ owned => \A i \in left : Order[i] \in Hardware
    /\ phase = "finish" => chosen # "none"
    /\ phase = "finish" /\ owned => chosen \in Hardware
    /\ probed = "owned" => chosen \in Hardware

(* There is no encoder at first. *)
LEMMA ProbeStarts == Hdr!ProbeInit => ProbeInv
  BY DEF Hdr!ProbeInit, ProbeInv

(* An encoder that is found was in the list.                               *)
LEMMA EncoderFound ==
    ASSUME ProbeInv, phase # "idle", NEW i \in left, NEW b, NEW n,
           Hdr!Found(Order[i], b, n), UNCHANGED <<owned, probed>>, probed # "owned"
    PROVE  ProbeInv'
<1>1. Order[i] \in Hdr!Encoders
  BY DEF ProbeInv, Hdr!Encoders
<1> QED
  BY <1>1, ProbeAssumption DEF ProbeInv, Hdr!Found, Hardware, Hdr!Encoders

(* While a probe runs there is no result. *)
ProbeRuns == phase # "idle" => probed # "owned"

(* A probe that succeeds for a virtual session has found an encoder that   *)
(* is in the list of that session, or kept one of last resort in no case.  *)
LEMMA ProbeKept == ProbeInv /\ ProbeRuns /\ Hdr!ProbeNext => (ProbeInv /\ ProbeRuns)'
<1> SUFFICES ASSUME ProbeInv, ProbeRuns, Hdr!ProbeNext PROVE (ProbeInv /\ ProbeRuns)'
  OBVIOUS
<1> USE DEF ProbeRuns, Hdr!hostVars
<1>1. ASSUME NEW again \in BOOLEAN, Hdr!Begin(again) PROVE (ProbeInv /\ ProbeRuns)'
  <2>1. CASE Hdr!Keeps(again)
    BY <1>1, <2>1 DEF Hdr!Begin, Hdr!Keeps, ProbeInv, Hardware
  <2>2. CASE ~Hdr!Keeps(again)
    BY <1>1, <2>2 DEF Hdr!Begin, ProbeInv, Hardware, Hdr!List, Hdr!Encoders
  <2> QED
    BY <2>1, <2>2
<1>2. CASE Hdr!ProbeRefused
  BY <1>2 DEF Hdr!ProbeRefused, ProbeInv
<1>3. CASE Hdr!TryNamed
  <2>1. ASSUME NEW i \in left, NEW b, Hdr!Found(Order[i], b, Hdr!Adjusted(b)) PROVE ProbeInv'
    BY <1>3, <2>1, EncoderFound DEF Hdr!TryNamed
  <2>2. CASE \E i \in left : \E b : Hdr!Found(Order[i], b, Hdr!Adjusted(b))
    BY <1>3, <2>1, <2>2 DEF Hdr!TryNamed, Hdr!Found
  <2>3. CASE ~\E i \in left : \E b : Hdr!Found(Order[i], b, Hdr!Adjusted(b))
    BY <1>3, <2>3 DEF Hdr!TryNamed, Hdr!Drop, ProbeInv
  <2> QED
    BY <2>2, <2>3
<1>4. CASE Hdr!TryForCodec
  <2>1. ASSUME NEW i \in left, NEW b, Hdr!Found(Order[i], b, hevcMode) PROVE ProbeInv'
    BY <1>4, <2>1, EncoderFound DEF Hdr!TryForCodec
  <2>2. CASE \E i \in left : \E b : Hdr!Found(Order[i], b, hevcMode)
    BY <1>4, <2>1, <2>2 DEF Hdr!TryForCodec, Hdr!Found
  <2>3. CASE ~\E i \in left : \E b : Hdr!Found(Order[i], b, hevcMode)
    BY <1>4, <2>3 DEF Hdr!TryForCodec, Hdr!Drop, Hdr!NextFrom, ProbeInv
  <2> QED
    BY <2>2, <2>3
<1>5. CASE Hdr!TryAny
  <2>1. ASSUME NEW i \in left, NEW b, Hdr!Found(Order[i], b, Hdr!Adjusted(b)) PROVE ProbeInv'
    BY <1>5, <2>1, EncoderFound DEF Hdr!TryAny, Hdr!Found
  <2>2. CASE \E i \in left : \E b : Hdr!Found(Order[i], b, Hdr!Adjusted(b))
    BY <1>5, <2>1, <2>2 DEF Hdr!TryAny, Hdr!Found
  <2>3. CASE ~\E i \in left : \E b : Hdr!Found(Order[i], b, Hdr!Adjusted(b))
    BY <1>5, <2>3 DEF Hdr!TryAny, Hdr!Drop, Hdr!NextFrom, ProbeInv
  <2> QED
    BY <2>2, <2>3
<1>6. CASE Hdr!Finish
  BY <1>6 DEF Hdr!Finish, ProbeInv
<1>7. CASE Hdr!SessionChanges
  BY <1>7 DEF Hdr!SessionChanges, ProbeInv
<1> QED
  BY <1>1, <1>2, <1>3, <1>4, <1>5, <1>6, <1>7 DEF Hdr!ProbeNext

-----------------------------------------------------------------------------
(* The policies of a session. *)

(* apply_hdr_policy() lets no stream that asked for HDR fall back late     *)
(* from a source in HDR mode, and probe_encoders() never answers a virtual *)
(* session with software encoding, whatever it had chosen before, for any  *)
(* players, changes of the source, encoders and probes.                    *)
THEOREM PoliciesHold == SuiteSpec => []SessionPolicyHolds
<1>1. Start => HdrInv /\ ProbeInv /\ ProbeRuns
  BY HdrStarts, ProbeStarts DEF Start, Hdr!ProbeInit, ProbeRuns
<1>2. HdrInv /\ [Steps]_allVars => HdrInv'
  <2> SUFFICES ASSUME HdrInv, [Steps]_allVars PROVE HdrInv'
    OBVIOUS
  <2>1. CASE UNCHANGED hdrVars
    BY <2>1 DEF hdrVars, HdrInv
  <2> QED
    BY <2>1, ComponentSteps, HdrKept
<1>3. ProbeInv /\ ProbeRuns /\ [Steps]_allVars => (ProbeInv /\ ProbeRuns)'
  <2> SUFFICES ASSUME ProbeInv, ProbeRuns, [Steps]_allVars PROVE (ProbeInv /\ ProbeRuns)'
    OBVIOUS
  <2>1. CASE UNCHANGED probeVars
    BY <2>1 DEF probeVars, ProbeInv, ProbeRuns
  <2> QED
    BY <2>1, ComponentSteps, ProbeKept
<1>4. HdrInv /\ ProbeInv => SessionPolicyHolds
  BY ProbeAssumption DEF HdrInv, ProbeInv, SessionPolicyHolds, Hdr!NoLateFallback, Decided,
         Hardware,
     Hdr!NoSoftwareForOwnedSession, Hdr!Encoders
<1> QED
  BY <1>1, <1>2, <1>3, <1>4, PTL DEF SuiteSpec
-----------------------------------------------------------------------------
(* Adaptive bitrate. *)

(* Windows without pressure that congestion, once left behind, leaves to   *)
(* wait for besides the two clean ones that raise the target.              *)
Pause == IF last = 1 THEN 1 ELSE 2

(* The target stays in the envelope, which bounds what the encoder runs at *)
(* and what the next session starts from.                                  *)
EnvelopeInv ==
    /\ envelope \in [minimum : Nat, target : Nat, maximum : Nat, peak : Nat]
    /\ envelope.minimum <= envelope.target /\ envelope.target <= envelope.maximum
    /\ activeRate \in Nat /\ activeRate <= envelope.maximum
    /\ learned \in Nat /\ learned <= envelope.maximum

(* The windows that were calm, and those of the cooldown still to come,    *)
(* make up the pause and the clean windows counted after it.               *)
Counts ==
    /\ clean \in Nat /\ cooldown \in Nat /\ calm \in Nat
    /\ pressure \in 0..2 /\ last \in 0..2

Paused ==
    /\ cooldown > 0 => calm + cooldown >= Pause
    /\ cooldown = 0 => calm >= clean + Pause

Rested == calm >= 2 + Pause

Streaming == envelope.target > 0

(* An IDR burst that the next sample has still to account for is no calm.  *)
RateInv ==
    /\ EnvelopeInv /\ Counts
    /\ burst \in BOOLEAN /\ grew \in BOOLEAN
    /\ Streaming /\ ~burst => Paused
    /\ grew => Rested

(* There is no rate before a stream. *)
LEMMA RateStarts == Rate!RateInit => RateInv
<1> SUFFICES ASSUME Rate!RateInit PROVE RateInv
  OBVIOUS
<1>1. EnvelopeInv /\ Counts /\ ~Streaming
  BY DEF Rate!RateInit, EnvelopeInv, Counts, Streaming
<1> QED
  BY <1>1 DEF Rate!RateInit, RateInv

(* make_envelope() bounds the rate it starts from. *)
LEMMA EnvelopeFits ==
    ASSUME NEW rate \in Ceilings
    PROVE  LET e == Rate!EnvelopeOf(rate)
           IN  /\ e \in [minimum : Nat, target : Nat, maximum : Nat, peak : Nat]
               /\ e.minimum <= e.target /\ e.target = e.maximum
<1> DEFINE most == Rate!MinOf(rate, IF AdminMax > 0 THEN AdminMax ELSE rate)
           least == Rate!MinOf(most, Rate!MaxOf(most \div 4, 10))
<1>1. most \in Nat
  BY RateAssumption DEF Rate!MinOf
<1>2. Rate!EnvelopeOf(rate)
      = [minimum |-> least, target |-> most, maximum |-> most, peak |-> most]
  BY DEF Rate!EnvelopeOf
<1>3. least \in Nat /\ least <= most
  <2> HIDE DEF most
  <2>1. most \div 4 \in Nat
    BY <1>1
  <2> QED
    BY <1>1, <2>1 DEF Rate!MinOf, Rate!MaxOf
<1> HIDE DEF most, least
<1> QED
  BY <1>1, <1>2, <1>3

(* A reduction stays in the envelope. *)
LEMMA ReducedFits ==
    ASSUME EnvelopeInv, NEW percent \in {10, 20}, envelope' = Rate!Reduced(percent),
           UNCHANGED <<activeRate, learned>>
    PROVE  EnvelopeInv' /\ envelope'.target <= envelope.target
<1> DEFINE cut == Rate!MaxOf((envelope.target * percent) \div 100, 1)
           t == Rate!MaxOf(envelope.minimum, envelope.target - cut)
<1>1. envelope.target \in Nat /\ envelope.minimum \in Nat
  BY DEF EnvelopeInv
<1>2. (envelope.target * percent) \div 100 \in Nat
  BY <1>1
<1>3. cut \in Nat /\ cut >= 1
  BY <1>2 DEF Rate!MaxOf
<1>4. envelope' = [envelope EXCEPT !.target = t, !.peak = t]
  BY DEF Rate!Reduced
<1> HIDE DEF cut
<1>5. t \in Nat /\ envelope.minimum <= t /\ t <= envelope.target
  BY <1>1, <1>3 DEF EnvelopeInv, Rate!MaxOf
<1> HIDE DEF t
<1>6. /\ envelope' \in [minimum : Nat, target : Nat, maximum : Nat, peak : Nat]
      /\ envelope'.minimum = envelope.minimum /\ envelope'.target = t
      /\ envelope'.maximum = envelope.maximum
  BY <1>4, <1>5 DEF EnvelopeInv
<1> QED
  BY <1>5, <1>6 DEF EnvelopeInv

(* So does a raise. *)
LEMMA RaisedFits ==
    ASSUME EnvelopeInv, envelope' = Rate!Raised, UNCHANGED <<activeRate, learned>>
    PROVE  EnvelopeInv'
<1> DEFINE gain == Rate!MaxOf(envelope.target \div 20, 1)
           t == Rate!MinOf(envelope.maximum, envelope.target + gain)
<1>1. envelope.target \in Nat /\ envelope.maximum \in Nat
  BY DEF EnvelopeInv
<1>2. envelope.target \div 20 \in Nat
  BY <1>1
<1>3. gain \in Nat
  BY <1>2 DEF Rate!MaxOf
<1>4. envelope' = [envelope EXCEPT !.target = t, !.peak = t]
  BY DEF Rate!Raised
<1> HIDE DEF gain
<1>5. t \in Nat /\ envelope.target <= t /\ t <= envelope.maximum
  BY <1>1, <1>3 DEF EnvelopeInv, Rate!MinOf
<1> HIDE DEF t
<1>6. /\ envelope' \in [minimum : Nat, target : Nat, maximum : Nat, peak : Nat]
      /\ envelope'.minimum = envelope.minimum /\ envelope'.target = t
      /\ envelope'.maximum = envelope.maximum
  BY <1>4, <1>5 DEF EnvelopeInv
<1> QED
  BY <1>5, <1>6 DEF EnvelopeInv

(* A window under pressure reduces the target and restarts the cooldown.   *)
LEMMA HotWindow ==
    ASSUME EnvelopeInv, NEW worst \in {1, 2}, NEW waits \in Nat,
           Rate!Decide(worst, waits), calm' = 0, last' = worst, pressure' = 0,
           UNCHANGED <<activeRate, learned>>
    PROVE  EnvelopeInv' /\ Counts' /\ Paused' /\ ~(envelope'.target > envelope.target)
<1>1. CASE worst = 2
  <2>1. envelope' = Rate!Reduced(20) /\ clean' = 0 /\ cooldown' = 2
    BY <1>1 DEF Rate!Decide
  <2>2. EnvelopeInv' /\ envelope'.target <= envelope.target
    BY <2>1, ReducedFits
  <2>3. ~(envelope'.target > envelope.target)
    BY <2>2 DEF EnvelopeInv
  <2> QED
    BY <1>1, <2>1, <2>2, <2>3 DEF Counts, Paused, Pause
<1>2. CASE worst = 1
  <2>1. envelope' = Rate!Reduced(10) /\ clean' = 0 /\ cooldown' = Rate!MaxOf(waits, 1)
    BY <1>2 DEF Rate!Decide
  <2>2. EnvelopeInv' /\ envelope'.target <= envelope.target
    BY <2>1, ReducedFits
  <2>3. ~(envelope'.target > envelope.target)
    BY <2>2 DEF EnvelopeInv
  <2> QED
    BY <1>2, <2>1, <2>2, <2>3 DEF Counts, Paused, Pause, Rate!MaxOf
<1> QED
  BY <1>1, <1>2

(* A window without pressure is one of the cooldown, or counts as clean;   *)
(* the second clean one may raise the target.                              *)
LEMMA CalmWindow ==
    ASSUME EnvelopeInv, Counts, NEW waits \in Nat, NEW before \in Nat,
           Rate!Decide(0, waits), calm' = before + 1, last' = last, pressure' = 0,
           waits > 0 => before + waits >= Pause,
           waits = 0 => cooldown = 0 /\ before >= clean + Pause,
           UNCHANGED <<activeRate, learned>>
    PROVE  /\ EnvelopeInv' /\ Counts' /\ Paused'
           /\ envelope'.target > envelope.target => Rested'
<1>1. CASE waits > 0
  <2>0. 0 # 2 /\ 0 # 1 /\ waits # 0 /\ waits - 1 \in Nat
    BY <1>1
  <2>1. clean' = 0 /\ cooldown' = waits - 1 /\ envelope' = envelope
    BY <1>1, <2>0, Zenon DEF Rate!Decide
  <2>2. EnvelopeInv' /\ ~(envelope'.target > envelope.target)
    BY <2>1 DEF EnvelopeInv
  <2> QED
    BY <1>1, <2>1, <2>2 DEF Counts, Paused, Pause
<1>2. CASE waits = 0
  <2>1. cooldown' = 0
    BY <1>2 DEF Rate!Decide
  <2>2. CASE clean' = Rate!MinOf(clean + 1, 2) /\ envelope' = envelope
    <3>1. EnvelopeInv' /\ ~(envelope'.target > envelope.target)
      BY <2>2 DEF EnvelopeInv
    <3> QED
      BY <1>2, <2>1, <2>2, <3>1 DEF Counts, Paused, Pause, Rate!MinOf
  <2>3. CASE clean + 1 >= 2 /\ clean' = 0 /\ envelope' = Rate!Raised
    <3>1. EnvelopeInv'
      BY <2>3, RaisedFits
    <3>2. Counts' /\ Paused' /\ Rested'
      BY <1>2, <2>1, <2>3 DEF Counts, Paused, Rested, Pause
    <3> QED
      BY <3>1, <3>2
  <2>4. \/ clean' = Rate!MinOf(clean + 1, 2) /\ envelope' = envelope
        \/ ~(clean + 1 < 2) /\ clean' = 0 /\ envelope' = Rate!Raised
    BY <1>2 DEF Rate!Decide
  <2> QED
    BY <2>2, <2>3, <2>4 DEF Counts
<1> QED
  BY <1>1, <1>2

(* The end of a window. *)
LEMMA CloseKept ==
    ASSUME RateInv, NEW level \in 0..2, Rate!Close(level)
    PROVE  RateInv'
<1> DEFINE worst == Rate!MaxOf(pressure, level)
           waits == IF burst THEN Rate!MaxOf(cooldown, 2) ELSE cooldown
<1>1. /\ Rate!Decide(worst, waits)
      /\ calm' = IF worst > 0 THEN 0 ELSE IF burst THEN 1 ELSE calm + 1
      /\ last' = IF worst > 0 THEN worst ELSE last
      /\ grew' = (envelope'.target > envelope.target)
      /\ burst' = FALSE /\ pressure' = 0 /\ Streaming
      /\ UNCHANGED <<activeRate, learned>>
  BY DEF Rate!Close, Streaming
<1>2. worst \in 0..2 /\ EnvelopeInv /\ Counts
  BY DEF RateInv, Counts, Rate!MaxOf
<1>3. burst => waits = Rate!MaxOf(cooldown, 2)
  OBVIOUS
<1>4. ~burst => waits = cooldown
  OBVIOUS
<1>5. waits \in Nat /\ (burst => waits >= 2)
  <2>1. Rate!MaxOf(cooldown, 2) \in Nat /\ Rate!MaxOf(cooldown, 2) >= 2 /\ cooldown \in Nat
    BY <1>2 DEF Counts, Rate!MaxOf
  <2> QED
    BY <1>3, <1>4, <2>1
<1> HIDE DEF worst, waits
<1>6. EnvelopeInv' /\ Counts' /\ Paused' /\ (envelope'.target > envelope.target => Rested')
  <2>1. CASE worst > 0
    <3>1. worst \in {1, 2} /\ calm' = 0 /\ last' = worst
      BY <1>1, <1>2, <2>1
    <3> QED
      BY <1>1, <1>2, <1>5, <3>1, HotWindow
  <2>2. CASE worst = 0 /\ burst
    <3>1. calm' = 0 + 1 /\ last' = last /\ waits >= 2
      BY <1>1, <1>5, <2>2
    <3>2. 0 + waits >= Pause /\ waits # 0
      BY <1>5, <3>1 DEF Pause
    <3>3. 0 \in Nat
      OBVIOUS
    <3> QED
      BY <1>1, <1>2, <1>5, <2>2, <3>1, <3>2, <3>3, CalmWindow
  <2>3. CASE worst = 0 /\ ~burst
    <3>1. calm' = calm + 1 /\ last' = last /\ waits = cooldown
      BY <1>1, <1>4, <2>3
    <3>2. Paused
      BY <1>1, <2>3 DEF RateInv
    <3>3. calm \in Nat /\ (waits > 0 => calm + waits >= Pause)
          /\ (waits = 0 => cooldown = 0 /\ calm >= clean + Pause)
      BY <1>2, <3>1, <3>2 DEF Paused, Counts
    <3> QED
      BY <1>1, <1>2, <1>5, <2>3, <3>1, <3>3, CalmWindow
  <2>4. worst > 0 \/ worst = 0
    BY <1>2
  <2> QED
    BY <2>1, <2>2, <2>3, <2>4
<1>7. grew' \in BOOLEAN /\ burst' = FALSE
  BY <1>1
<1> QED
  BY <1>1, <1>6, <1>7 DEF RateInv

(* The controller, and the encoder thread that applies its target. *)
LEMMA RateKept == RateInv /\ Rate!RateNext => RateInv'
<1> SUFFICES ASSUME RateInv, Rate!RateNext PROVE RateInv'
  OBVIOUS
<1>1. ASSUME NEW rate \in Ceilings, Rate!StartStream(rate) PROVE RateInv'
  <2> DEFINE e == Rate!EnvelopeOf(rate)
  <2>1. /\ envelope' = e /\ activeRate' = e.target /\ learned' = e.target
        /\ clean' = 0 /\ cooldown' = 0 /\ calm' = 0 /\ pressure' = 0 /\ last' = 0
    BY <1>1 DEF Rate!StartStream
  <2>2. /\ e \in [minimum : Nat, target : Nat, maximum : Nat, peak : Nat]
        /\ e.minimum <= e.target /\ e.target = e.maximum
    BY EnvelopeFits
  <2>3. burst' = TRUE /\ grew' = FALSE
    BY <1>1 DEF Rate!StartStream
  <2> HIDE DEF e
  <2>4. e.minimum \in Nat /\ e.target \in Nat /\ e.maximum \in Nat
    BY <2>2
  <2>5. EnvelopeInv'
    BY <2>1, <2>2, <2>4 DEF EnvelopeInv
  <2>6. Counts'
    BY <2>1 DEF Counts
  <2> QED
    BY <2>3, <2>5, <2>6 DEF RateInv
<1>2. CASE Rate!RecordIdr
  <2>1. UNCHANGED <<envelope, activeRate, learned, clean, cooldown, calm, pressure, last>>
    BY <1>2 DEF Rate!RecordIdr
  <2>2. EnvelopeInv' /\ Counts' /\ Rested' = Rested
    BY <2>1 DEF RateInv, EnvelopeInv, Counts, Rested, Pause
  <2>3. burst' = TRUE /\ grew' = grew
    BY <1>2 DEF Rate!RecordIdr
  <2> QED
    BY <2>2, <2>3 DEF RateInv
<1>3. ASSUME NEW level \in 0..2, Rate!Collect(level) PROVE RateInv'
  <2>1. /\ pressure' = level
        /\ UNCHANGED <<envelope, clean, activeRate, learned, last>>
    BY <1>3 DEF Rate!Collect
  <2>2. burst' = FALSE /\ grew' = FALSE
    BY <1>3 DEF Rate!Collect
  <2>3. EnvelopeInv' /\ Streaming' = Streaming
    BY <2>1 DEF RateInv, EnvelopeInv, Streaming
  <2>4. Counts' /\ (Streaming => Paused')
    <3>1. CASE burst
      <4>1. cooldown' = Rate!MaxOf(cooldown, 2) /\ calm' = 0
        BY <1>3, <3>1 DEF Rate!Collect
      <4>2. Counts
        BY DEF RateInv
      <4> QED
        BY <2>1, <4>1, <4>2 DEF Counts, Paused, Pause, Rate!MaxOf
    <3>2. CASE ~burst
      <4>1. cooldown' = cooldown /\ calm' = calm
        BY <1>3, <3>2 DEF Rate!Collect
      <4>2. Counts /\ (Streaming => Paused)
        BY <3>2 DEF RateInv
      <4> QED
        BY <2>1, <4>1, <4>2 DEF Counts, Paused, Pause
    <3> QED
      BY <3>1, <3>2
  <2> QED
    BY <2>2, <2>3, <2>4 DEF RateInv
<1>4. ASSUME NEW level \in 0..2, Rate!Close(level) PROVE RateInv'
  BY <1>4, CloseKept
<1>5. CASE Rate!ApplyTarget
  <2>1. UNCHANGED <<envelope, pressure, clean, cooldown, calm, last>> /\ UNCHANGED <<burst, grew>>
    BY <1>5 DEF Rate!ApplyTarget
  <2>2. activeRate' \in {envelope.target, activeRate} /\ learned' \in {envelope.target, activeRate}
    BY <1>5 DEF Rate!ApplyTarget
  <2>3. EnvelopeInv'
    BY <2>1, <2>2 DEF RateInv, EnvelopeInv
  <2>4. Counts' = Counts /\ Paused' = Paused /\ Rested' = Rested /\ Streaming' = Streaming
    BY <2>1 DEF Counts, Paused, Rested, Streaming, Pause
  <2> QED
    BY <2>1, <2>3, <2>4 DEF RateInv
<1> QED
  BY <1>1, <1>2, <1>3, <1>4, <1>5 DEF Rate!RateNext

-----------------------------------------------------------------------------
(* Frame pacing. *)

(* A quotient and the next number enclose the dividend. *)
LEMMA Quotient ==
    ASSUME NEW n \in Nat
    PROVE  LET q == n \div Period IN q \in Nat /\ q * Period <= n /\ n < (q + 1) * Period
<1>1. Period \in Nat \ {0}
  BY PaceAssumption
<1> DEFINE q == n \div Period
           r == n % Period
<1>2. q \in Nat /\ r \in Nat /\ r < Period /\ n = q * Period + r
  BY <1>1
<1> HIDE DEF q, r
<1>3. (q + 1) * Period = q * Period + Period
  BY <1>1, <1>2
<1>4. q * Period \in Nat
  BY <1>1, <1>2
<1>5. q * Period <= n /\ n < (q + 1) * Period
  BY <1>1, <1>2, <1>3, <1>4
<1> QED
  BY <1>2, <1>5 DEF q

(* When the pacer wants the next duplicate. *)
Due == Rate!NextDeadline(epoch, index)

PaceTypes ==
    /\ tick \in Nat /\ epoch \in Nat /\ index \in Nat \ {0}
    /\ lastUnique \in Nat /\ lastOutput \in Nat /\ turnDue \in Nat

(* The thread runs no later than Lag after the deadline of the pacer, and  *)
(* that deadline is near: less than one period away, and, whatever was     *)
(* skipped, not long after the last frame that was sent.                   *)
DueSoon ==
    /\ epoch <= tick /\ tick <= turnDue
    /\ Due \in Nat /\ turnDue <= Due + Lag
    /\ Due <= tick + Period
    /\ Due <= lastOutput + Keepalive + Period

DueAtOnce == Due <= lastOutput + Period

PaceInv ==
    /\ PaceTypes /\ DueSoon
    /\ observed \in BOOLEAN
    /\ ~observed => DueAtOnce

(* The first deadline is one period away. *)
LEMMA PaceStarts == Rate!PaceInit => PaceInv
<1> SUFFICES ASSUME Rate!PaceInit PROVE PaceInv
  OBVIOUS
<1>1. PaceTypes /\ DueSoon /\ DueAtOnce
  BY PaceAssumption DEF Rate!PaceInit, PaceTypes, DueSoon, DueAtOnce, Due, Rate!NextDeadline
<1> QED
  BY <1>1 DEF Rate!PaceInit, PaceInv

(* poll() skips to the first deadline that has not passed. *)
LEMMA PolledAhead ==
    ASSUME PaceTypes, DueSoon
    PROVE  /\ Rate!Polled.next \in Nat \ {0}
           /\ Rate!NextDeadline(epoch, Rate!Polled.next) \in Nat
           /\ tick < Rate!NextDeadline(epoch, Rate!Polled.next)
           /\ Rate!NextDeadline(epoch, Rate!Polled.next) <= tick + Period
<1> DEFINE gone == (tick - epoch) \div Period
           due == IF gone > index THEN gone ELSE index
<1>0. Period \in Nat /\ tick - epoch \in Nat /\ tick \in Nat /\ epoch \in Nat /\ index \in Nat
      /\ tick = epoch + (tick - epoch)
  BY PaceAssumption DEF PaceTypes, DueSoon
<1>1. CASE tick < Due
  <2>1. Rate!Polled.next = index
    BY <1>1 DEF Rate!Polled, Due
  <2> QED
    BY <1>1, <2>1 DEF Due, PaceTypes, DueSoon
<1>2. CASE ~(tick < Due)
  <2>1. Rate!Polled.next = due + 1
    BY <1>2 DEF Rate!Polled, Due
  <2>2. gone \in Nat /\ gone * Period <= tick - epoch /\ tick - epoch < (gone + 1) * Period
    BY <1>0, Quotient
  <2> HIDE DEF gone
  <2>3. epoch + index * Period <= tick
    <3>1. Due <= tick
      BY <1>0, <1>2 DEF DueSoon
    <3> QED
      BY <3>1 DEF Due, Rate!NextDeadline
  <2>4. due \in Nat /\ due * Period <= tick - epoch /\ gone <= due
    BY <1>0, <2>2, <2>3
  <2> HIDE DEF due
  <2>5. (gone + 1) * Period <= (due + 1) * Period
    <3>1. (due + 1) * Period = (gone + 1) * Period + (due - gone) * Period
      BY <1>0, <2>2, <2>4
    <3>2. due - gone \in Nat
      BY <2>2, <2>4
    <3>3. (due - gone) * Period \in Nat /\ (gone + 1) * Period \in Nat
      BY <1>0, <2>2, <3>2
    <3> QED
      BY <3>1, <3>3
  <2>6. (due + 1) * Period = due * Period + Period /\ due * Period \in Nat
        /\ (gone + 1) * Period \in Nat
    BY <1>0, <2>2, <2>4
  <2>7. Rate!NextDeadline(epoch, due + 1) = epoch + (due + 1) * Period
    BY DEF Rate!NextDeadline
  <2>8. tick < epoch + (due + 1) * Period /\ epoch + (due + 1) * Period <= tick + Period
        /\ epoch + (due + 1) * Period \in Nat
    <3>1. (due + 1) * Period \in Nat
      BY <1>0, <2>6
    <3> QED
      BY <1>0, <2>2, <2>4, <2>5, <2>6, <3>1
  <2> QED
    BY <2>1, <2>4, <2>7, <2>8
<1> QED
  BY <1>1, <1>2

(* A turn leaves a deadline that is ahead, and one period at most; it      *)
(* sends a frame unless the source is still and one was sent a while ago.  *)
LEMMA TurnKept == PaceInv /\ Rate!Turn => PaceInv'
<1> SUFFICES ASSUME PaceInv, Rate!Turn PROVE PaceInv'
  OBVIOUS
<1> DEFINE unique == waiting = "new"
           polls == ~idr /\ ~unique
           polled == IF polls THEN Rate!Polled ELSE [next |-> index, late |-> 0]
           seen == observed \/ unique
           when == IF unique THEN tick ELSE lastUnique
           encodes == Rate!ShouldEncode(idr, seen, when)
           immediate == encodes /\ (unique \/ idr)
<1>1. /\ observed' = seen /\ lastUnique' = when
      /\ lastOutput' = (IF encodes THEN tick ELSE lastOutput)
      /\ epoch' = (IF immediate THEN tick ELSE epoch)
      /\ index' = (IF immediate THEN 1 ELSE polled.next)
      /\ turnDue' = Rate!NextDeadline(epoch', index') + Lag
      /\ tick' = tick
  BY DEF Rate!Turn
<1>2. PaceTypes /\ DueSoon /\ when \in Nat
  BY DEF PaceInv, PaceTypes
<1>3. unique \/ idr => encodes
  <2>1. CASE idr
    BY <2>1 DEF Rate!ShouldEncode
  <2>2. CASE unique
    <3>1. when = tick
      BY <2>2
    <3>2. ~(tick - tick >= StaticAfter)
      BY <1>2, PaceAssumption DEF PaceTypes
    <3> QED
      BY <3>1, <3>2 DEF Rate!ShouldEncode, Rate!StaticMode
  <2> QED
    BY <2>1, <2>2
<1>4. /\ epoch' \in Nat /\ index' \in Nat \ {0} /\ epoch' <= tick
      /\ Rate!NextDeadline(epoch', index') \in Nat
      /\ tick <= Rate!NextDeadline(epoch', index')
      /\ Rate!NextDeadline(epoch', index') <= tick + Period
  <2>1. CASE immediate
    <3>1. epoch' = tick /\ index' = 1
      BY <1>1, <2>1
    <3> QED
      BY <1>2, <3>1, PaceAssumption DEF Rate!NextDeadline, PaceTypes
  <2>2. CASE ~immediate
    <3>1. polls
      BY <1>3, <2>2
    <3>2. epoch' = epoch /\ index' = Rate!Polled.next
      BY <1>1, <2>2, <3>1
    <3> QED
      BY <1>2, <3>2, PolledAhead DEF PaceTypes, DueSoon
  <2> QED
    BY <2>1, <2>2
<1>5. encodes => lastOutput' = tick
  BY <1>1
<1>6. ~encodes => lastOutput' = lastOutput /\ seen /\ ~(tick - lastOutput >= Keepalive)
  BY <1>1 DEF Rate!ShouldEncode, Rate!StaticMode
<1>7. observed' = seen /\ seen \in BOOLEAN
  BY <1>1 DEF PaceInv
<1>8. lastUnique' \in Nat
  BY <1>1, <1>2
<1> HIDE DEF when, encodes, seen
<1>9. DueSoon' /\ PaceTypes' /\ (encodes => DueAtOnce')
  <2>1. Due' = Rate!NextDeadline(epoch', index')
    BY DEF Due, Rate!NextDeadline
  <2> DEFINE d == Rate!NextDeadline(epoch', index')
  <2>2. d \in Nat /\ tick <= d /\ d <= tick + Period /\ turnDue' = d + Lag /\ tick' = tick
        /\ epoch' <= tick /\ tick \in Nat /\ lastOutput \in Nat
    BY <1>1, <1>2, <1>4 DEF PaceTypes
  <2>3. Due' = d
    BY <2>1
  <2> HIDE DEF d
  <2>4. CASE encodes
    <3>1. lastOutput' = tick
      BY <1>5, <2>4
    <3> QED
      BY <1>4, <1>8, <2>2, <2>3, <3>1, PaceAssumption DEF DueSoon, DueAtOnce, PaceTypes
  <2>5. CASE ~encodes
    <3>1. lastOutput' = lastOutput /\ ~(tick - lastOutput >= Keepalive)
      BY <1>6, <2>5
    <3>2. DueSoon' /\ PaceTypes'
      BY <1>4, <1>8, <2>2, <2>3, <3>1, PaceAssumption DEF DueSoon, PaceTypes
    <3> QED
      BY <2>5, <3>2
  <2> QED
    BY <2>4, <2>5
<1> QED
  BY <1>6, <1>7, <1>9 DEF PaceInv

(* Time, images and requests leave the deadline where it is. *)
LEMMA PaceKept == PaceInv /\ Rate!PaceNext => PaceInv'
<1> SUFFICES ASSUME PaceInv, Rate!PaceNext PROVE PaceInv'
  OBVIOUS
<1>0. PaceTypes /\ DueSoon
  BY DEF PaceInv
<1>1. CASE Rate!Tick
  <2>1. tick < turnDue /\ tick' = tick + 1
        /\ UNCHANGED <<epoch, index, lastUnique, lastOutput, turnDue>> /\ observed' = observed
    BY <1>1 DEF Rate!Tick
  <2>2. PaceTypes' /\ DueSoon' /\ DueAtOnce' = DueAtOnce
    BY <1>0, <2>1, PaceAssumption DEF PaceTypes, DueSoon, DueAtOnce, Due, Rate!NextDeadline
  <2> QED
    BY <2>1, <2>2 DEF PaceInv
<1>2. CASE Rate!IdrRequested
  <2>1. UNCHANGED <<tick, epoch, index, lastUnique, lastOutput, turnDue>> /\ observed' = observed
    BY <1>2 DEF Rate!IdrRequested
  <2>2. PaceTypes' /\ DueSoon' /\ DueAtOnce' = DueAtOnce
    BY <1>0, <2>1 DEF PaceTypes, DueSoon, DueAtOnce, Due, Rate!NextDeadline
  <2> QED
    BY <2>1, <2>2 DEF PaceInv
<1>3. CASE Rate!Turn
  BY <1>3, TurnKept
<1>4. ASSUME NEW image \in {"new", "same"}, Rate!ImageArrives(image) PROVE PaceInv'
  <2>1. turnDue' = Rate!Earlier(turnDue, tick + Lag)
        /\ UNCHANGED <<tick, epoch, index, lastUnique, lastOutput>> /\ observed' = observed
    BY <1>4 DEF Rate!ImageArrives
  <2>2. turnDue' \in Nat /\ tick <= turnDue' /\ turnDue' <= turnDue
    BY <1>0, <2>1, PaceAssumption DEF Rate!Earlier, PaceTypes, DueSoon
  <2>3. PaceTypes' /\ DueSoon' /\ DueAtOnce' = DueAtOnce
    BY <1>0, <2>1, <2>2, PaceAssumption
    DEF PaceTypes, DueSoon, DueAtOnce, Due, Rate!NextDeadline
  <2> QED
    BY <2>1, <2>3 DEF PaceInv
<1> QED
  BY <1>1, <1>2, <1>3, <1>4 DEF Rate!PaceNext

-----------------------------------------------------------------------------
(* The rate and the pace of a stream. *)

(* observe() raises the target only after the windows of the pause, and    *)
(* keeps it in the envelope; the pacer sends the next frame in time.  For  *)
(* any ceilings, feedback, images, requests, delays and scheduling.        *)
THEOREM RateHolds == SuiteSpec => []RateIsSteady
<1>1. Start => RateInv /\ PaceInv
  BY RateStarts, PaceStarts DEF Start
<1>2. RateInv /\ [Steps]_allVars => RateInv'
  <2> SUFFICES ASSUME RateInv, [Steps]_allVars PROVE RateInv'
    OBVIOUS
  <2>1. CASE UNCHANGED rateVars
    BY <2>1 DEF rateVars, RateInv, EnvelopeInv, Counts, Streaming, Paused, Rested, Pause
  <2> QED
    BY <2>1, ComponentSteps, RateKept
<1>3. PaceInv /\ [Steps]_allVars => PaceInv'
  <2> SUFFICES ASSUME PaceInv, [Steps]_allVars PROVE PaceInv'
    OBVIOUS
  <2>1. CASE UNCHANGED paceVars
    BY <2>1 DEF paceVars, PaceInv, PaceTypes, DueSoon, DueAtOnce, Due, Rate!NextDeadline
  <2> QED
    BY <2>1, ComponentSteps, PaceKept
<1>4. RateInv => Rate!SlowRecovery
  <2> SUFFICES ASSUME RateInv PROVE Rate!SlowRecovery
    OBVIOUS
  <2>1. EnvelopeInv /\ Counts /\ (grew => Rested)
    BY DEF RateInv
  <2>2. Rested => calm >= (IF last = 1 THEN 3 ELSE 4)
    BY <2>1 DEF Rested, Pause, Counts
  <2> QED
    BY <2>1, <2>2 DEF EnvelopeInv, Rate!SlowRecovery
<1>5. PaceInv => Rate!NoOutputGap
  <2> SUFFICES ASSUME PaceInv PROVE Rate!NoOutputGap
    OBVIOUS
  <2>1. PaceTypes /\ DueSoon /\ (~observed => DueAtOnce)
    BY DEF PaceInv
  <2>2. tick - lastOutput <= Keepalive + Period + Lag
    BY <2>1, PaceAssumption DEF PaceTypes, DueSoon
  <2>3. DueAtOnce => tick - lastOutput <= Period + Lag
    BY <2>1, PaceAssumption DEF PaceTypes, DueSoon, DueAtOnce
  <2> QED
    BY <2>1, <2>2, <2>3 DEF Rate!NoOutputGap
<1>6. RateInv /\ PaceInv => RateIsSteady
  BY <1>4, <1>5 DEF RateIsSteady
<1> QED
  BY <1>1, <1>2, <1>3, <1>6, PTL DEF SuiteSpec

-----------------------------------------------------------------------------
(* Key frames. *)

(* What the sessions keep of a request. *)
IdrTypes ==
    /\ DOMAIN idrEvent = Viewers /\ DOMAIN lossEvent = Viewers
    /\ key \in [Viewers -> BOOLEAN] /\ owed \in [Viewers -> BOOLEAN]
    /\ coder \in [Viewers -> {"none", "closed", "fresh", "open"}]
    /\ DOMAIN turn = Viewers

(* AcceptedIdrIsKept is inductive, given what the sessions are.            *)
IdrInv ==
    /\ IdrTypes
    /\ \A v \in Viewers :
          owed[v] => \/ idrEvent[v] # "none" \/ key[v]
                     \/ coder[v] \in {"closed", "fresh"}

(* Nothing is owed at first. *)
LEMMA IdrStarts == Rate!IdrInit => IdrInv
  BY DEF Rate!IdrInit, IdrInv, IdrTypes

(* Every step of a session, of a client and of the clock keeps it.         *)
LEMMA IdrKept == IdrInv /\ Rate!IdrNext => IdrInv'
<1> SUFFICES ASSUME IdrInv, Rate!IdrNext PROVE IdrInv'
  OBVIOUS
<1> USE DEF IdrInv, IdrTypes
<1>1. ASSUME NEW v \in Viewers, Rate!Connect(v) PROVE IdrInv'
  BY <1>1 DEF Rate!Connect
<1>2. ASSUME NEW v \in Viewers, Rate!RequestIdr(v) PROVE IdrInv'
  BY <1>2 DEF Rate!RequestIdr
<1>3. ASSUME NEW v \in Viewers, Rate!ReportLoss(v) PROVE IdrInv'
  BY <1>3 DEF Rate!ReportLoss
<1>4. ASSUME NEW v \in Viewers, Rate!OpenCoder(v) PROVE IdrInv'
  BY <1>4 DEF Rate!OpenCoder
<1>5. ASSUME NEW v \in Viewers, Rate!TakeLoss(v) PROVE IdrInv'
  BY <1>5 DEF Rate!TakeLoss
<1>6. ASSUME NEW v \in Viewers, Rate!TakeIdr(v) PROVE IdrInv'
  BY <1>6 DEF Rate!TakeIdr
<1>7. ASSUME NEW v \in Viewers, Rate!EncodeFrame(v) PROVE IdrInv'
  BY <1>7 DEF Rate!EncodeFrame, Rate!Encoding
<1>8. ASSUME NEW v \in Viewers, Rate!SkipFrame(v) PROVE IdrInv'
  BY <1>8 DEF Rate!SkipFrame
<1>9. ASSUME NEW v \in Viewers, Rate!CloseCoder(v) PROVE IdrInv'
  BY <1>9 DEF Rate!CloseCoder
<1>10. CASE Rate!Pass
  BY <1>10 DEF Rate!Pass
<1> QED
  BY <1>1, <1>2, <1>3, <1>4, <1>5, <1>6, <1>7, <1>8, <1>9, <1>10 DEF Rate!IdrNext

(* A request for a key frame that was accepted waits in the session's      *)
(* event or on its encoder's key flag, or a new encoder is on its way,     *)
(* until a key frame answers it: capture_async() and encode_run() lose it  *)
(* nowhere, however sessions, requests and renewed encoders interleave.    *)
THEOREM RequestsAreKept == SuiteSpec => []AcceptedIdrIsKept
<1>1. Start => IdrInv
  BY IdrStarts DEF Start
<1>2. IdrInv /\ [Steps]_allVars => IdrInv'
  <2> SUFFICES ASSUME IdrInv, [Steps]_allVars PROVE IdrInv'
    OBVIOUS
  <2>1. CASE UNCHANGED idrVars
    BY <2>1 DEF idrVars, IdrInv, IdrTypes
  <2> QED
    BY <2>1, ComponentSteps, IdrKept
<1>3. IdrInv => AcceptedIdrIsKept
  BY DEF IdrInv, AcceptedIdrIsKept, Rate!AcceptedIdrIsKept
<1> QED
  BY <1>1, <1>2, <1>3, PTL DEF SuiteSpec
-----------------------------------------------------------------------------
=============================================================================
