------------------------ MODULE StreamSession_proofs ------------------------
(***************************************************************************)
(* The safety properties of StreamSession, for every set of sessions.      *)
(***************************************************************************)
EXTENDS StreamSession, TLAPS

(* Before its workers are spawned, and while a clear works on a session.   *)
Early == {"ref", "push", "deadline", "spawn", "remove"}
Held  == {"join", "leave", "report", "erase"}
Alive == {"STOPPED", "RUNNING", "STOPPING"}
Turning == {"pass", "check", "serve", "bye"}

(* Where the threads can be, and that each names a session exactly while   *)
(* it starts or clears one.                                                *)
PlaceInv ==
    /\ at["record"] \in {"idle", "scan", "dropping"}
    /\ at["http"] \in {"idle", "lock"} \cup Clearing
    /\ at["rtsp"] # "scan"
    /\ \A t \in Threads : on[t] \in Sessions <=> at[t] \in Starting \cup Held

(* The two locks: one clear at a time, one thread ending the broadcast,    *)
(* and the control thread is there exactly while somebody holds a          *)
(* reference or is about to join it.                                       *)
LockInv ==
    /\ \A t, u \in Threads : at[t] \in Clearing /\ at[u] \in Clearing => t = u
    /\ \A t, u \in Threads : {at[t], at[u]} \subseteq {"ending", "dropping"} => t = u
    /\ ~ContextFree => refs = {}
    /\ control = "off" <=> refs = {} /\ ContextFree

(* What a session's state says of the rest of it. *)
LifeInv ==
    \A s \in Sessions :
        /\ s \in slots \cup refs => state[s] \in Alive
        /\ spawned[s] => s \in refs
        /\ workers[s] > 0 => spawned[s] /\ s \in slots
        /\ s \in list \/ controlEnd[s] => state[s] # "none"
        /\ state[s] = "freed" => ~controlEnd[s]

(* A session that is being started: nobody stops it before it runs, it     *)
(* keeps its slot until it has workers, and a clear that takes its slot    *)
(* leaves its reference to the announce.                                   *)
StartInv ==
    LET s == on["rtsp"] IN
    at["rtsp"] \in Starting =>
        /\ state[s] \in Alive
        /\ at["rtsp"] \in Early \cup {"run"} => state[s] = "STOPPED"
        /\ at["rtsp"] \in Early => s \in slots /\ ~spawned[s]
        /\ at["rtsp"] \in {"ref", "push", "remove"} => s \notin list /\ ~controlEnd[s]
        /\ at["rtsp"] \in {"push", "deadline", "spawn", "run", "count"} => s \in refs

(* A clear visits slots that are still there, and what it joins it visits  *)
(* no second time.                                                         *)
JoinInv ==
    \A t \in Threads :
        /\ at[t] \in Clearing => todo[t] \subseteq slots
        /\ at[t] \in Held =>
              /\ on[t] \in slots \ todo[t]
              /\ spawned[on[t]]
              /\ at[t] # "join" => workers[on[t]] = 0 /\ controlEnd[on[t]]

(* The control thread has let go of a session whose controlEnd is raised,  *)
(* and of one that is out of the slots or freed.                           *)
ListInv ==
    \A s \in Sessions :
        /\ controlEnd[s] /\ control \in Turning => s \notin list
        /\ state[s] \in Alive /\ s \notin slots =>
              /\ at["rtsp"] \in Starting /\ on["rtsp"] = s
              /\ controlEnd[s] \/ s \notin list
        /\ state[s] = "freed" /\ control \in Turning => s \notin list

IndInv ==
    /\ TypeOK
    /\ PlaceInv
    /\ LockInv
    /\ LifeInv
    /\ StartInv
    /\ JoinInv
    /\ ListInv

-----------------------------------------------------------------------------
(* The first state: nothing exists. *)
LEMMA InitInv == Init => IndInv
<1> SUFFICES ASSUME Init PROVE IndInv
  OBVIOUS
<1> USE DEF Init
<1>1. TypeOK
  <2>1. app \in BOOLEAN
    OBVIOUS
  <2>2. on \in [Threads -> Sessions \cup {"none"}]
    OBVIOUS
  <2>3. /\ state \in [Sessions -> {"none", "STOPPED", "RUNNING", "STOPPING", "freed"}]
        /\ workers \in [Sessions -> 0..2]
        /\ at \in [Threads -> {"idle"}]
        /\ todo \in [Threads -> SUBSET Sessions]
        /\ op \in [Threads -> Ops]
    BY DEF Ops
  <2>4. /\ reason \in [Sessions -> BOOLEAN] /\ deadline \in [Sessions -> BOOLEAN]
        /\ spawned \in [Sessions -> BOOLEAN] /\ peer \in [Sessions -> BOOLEAN]
        /\ controlEnd \in [Sessions -> BOOLEAN] /\ gone \in [Sessions -> BOOLEAN]
        /\ awaiting \in BOOLEAN /\ down \in BOOLEAN
    OBVIOUS
  <2>5. /\ slots = {} /\ list = {} /\ refs = {} /\ running = 0
        /\ platform = "stopped" /\ control = "off"
    OBVIOUS
  <2> HIDE DEF Init
  <2> QED
    BY <2>1, <2>2, <2>3, <2>4, <2>5 DEF TypeOK
<1>2. PlaceInv
  BY NamesAssumption DEF PlaceInv, Threads, Starting, Clearing, Held
<1>3. LockInv
  BY DEF LockInv, Threads, Clearing, ContextFree
<1>4. LifeInv /\ StartInv /\ JoinInv /\ ListInv
  BY DEF LifeInv, StartInv, JoinInv, ListInv, Threads, Starting, Held, Alive
<1> QED
  BY <1>1, <1>2, <1>3, <1>4 DEF IndInv

(* Every step of every thread keeps it.  StartRespond and ClearErase are   *)
(* where a session dies.                                                   *)
LEMMA StepInv == IndInv /\ [Next]_vars => IndInv'
<1> SUFFICES ASSUME IndInv, [Next]_vars PROVE IndInv'
  OBVIOUS
<1> USE NamesAssumption
    DEF IndInv, TypeOK, PlaceInv, LockInv, LifeInv, StartInv, JoinInv, ListInv,
        Threads, Starting, Clearing, Ops, Held, Early, Alive, Turning, ContextFree,
        SlotsFree, Goto, session, serving, context, counted, thread, world
<1>1. ASSUME NEW s \in Sessions, Announce(s) PROVE IndInv'
  BY <1>1 DEF Announce
<1>2. CASE StartRef
  BY <1>2 DEF StartRef
<1>3. CASE StartRemove
  BY <1>3 DEF StartRemove
<1>4. CASE StartPush
  BY <1>4 DEF StartPush
<1>5. CASE StartDeadline
  BY <1>5 DEF StartDeadline
<1>6. CASE StartSpawn
  BY <1>6 DEF StartSpawn
<1>7. CASE StartRun
  BY <1>7 DEF StartRun
<1>8. CASE StartCount
  BY <1>8 DEF StartCount
<1>9. CASE StartRespond
  <2> DEFINE s == on["rtsp"]
  <2>1. s \in Sessions /\ at["rtsp"] = "respond" /\ on' = [on EXCEPT !["rtsp"] = "none"]
    BY <1>9 DEF StartRespond, Release
  <2>2. CASE s \in slots
    BY <1>9, <2>1, <2>2 DEF StartRespond
  <2>3. CASE s \notin slots
    <3>1. /\ Release("rtsp", "respond", s, "reap")
          /\ Free(s)
          /\ UNCHANGED <<workers, slots, control, awaiting, list, counted, todo, op, world>>
      BY <1>9, <2>3 DEF StartRespond
    <3>2. workers[s] = 0 /\ (controlEnd[s] \/ s \notin list)
      BY <2>1, <2>3
    <3>3. TypeOK'
      BY <2>1, <3>1 DEF Release, Free
    <3>4. PlaceInv'
      BY <2>1, <3>1 DEF Release
    <3>5. LockInv'
      BY <2>1, <3>1 DEF Release
    <3>6. LifeInv'
      BY <2>1, <2>3, <3>1, <3>2 DEF Release, Free
    <3>7. StartInv' /\ JoinInv'
      BY <2>1, <2>3, <3>1 DEF Release, Free
    <3>8. ListInv'
      BY <2>1, <2>3, <3>1, <3>2 DEF Release, Free
    <3> QED
      BY <3>3, <3>4, <3>5, <3>6, <3>7, <3>8
  <2> QED
    BY <2>2, <2>3
<1>10. CASE RtspClear
  BY <1>10 DEF RtspClear, BeginClear
<1>11. CASE HttpClear
  BY <1>11 DEF HttpClear, BeginClear
<1>12. ASSUME NEW t \in Threads, ClearLock(t) PROVE IndInv'
  BY <1>12 DEF ClearLock
<1>13. ASSUME NEW t \in Threads, ClearVisit(t) PROVE IndInv'
  <2>1. at[t] = "visit" /\ UNCHANGED <<serving, slots, context, counted, world>>
    BY <1>13 DEF ClearVisit
  <2>2. PICK s \in todo[t] :
          \/ /\ ~Ends(t, s)
             /\ todo' = [todo EXCEPT ![t] = @ \ {s}]
             /\ UNCHANGED <<session, at, on, op>>
          \/ /\ Ends(t, s) /\ spawned[s]
             /\ Stop({s})
             /\ Goto(t, "visit", "join")
             /\ on' = [on EXCEPT ![t] = s]
             /\ todo' = [todo EXCEPT ![t] = @ \ {s}]
             /\ UNCHANGED op
          \/ /\ Ends(t, s) /\ ~spawned[s]
             /\ Stop({s})
             /\ Goto(t, "visit", "idle")
             /\ todo' = [todo EXCEPT ![t] = {}]
             /\ op' = [op EXCEPT ![t] = "none"]
             /\ UNCHANGED on
    BY <1>13 DEF ClearVisit
  <2>3. CASE UNCHANGED <<session, at, on, op>> /\ todo' = [todo EXCEPT ![t] = @ \ {s}]
    BY <2>1, <2>3
  <2>4. CASE /\ spawned[s] /\ Stop({s})
             /\ Goto(t, "visit", "join") /\ on' = [on EXCEPT ![t] = s]
             /\ todo' = [todo EXCEPT ![t] = @ \ {s}] /\ UNCHANGED op
    <3>1. s \in slots /\ s \in Sessions
      BY <2>1
    <3>2. TypeOK'
      BY <2>1, <2>4 DEF Stop
    <3>3. PlaceInv' /\ LockInv'
      BY <2>1, <2>4, <3>1
    <3>4. LifeInv'
      BY <2>1, <2>4 DEF Stop
    <3>5. StartInv'
      BY <2>1, <2>4 DEF Stop
    <3>6. JoinInv'
      BY <2>1, <2>4, <3>1
    <3>7. ListInv'
      BY <2>1, <2>4 DEF Stop
    <3> QED
      BY <3>2, <3>3, <3>4, <3>5, <3>6, <3>7
  <2>5. CASE /\ Stop({s}) /\ Goto(t, "visit", "idle")
             /\ todo' = [todo EXCEPT ![t] = {}]
             /\ op' = [op EXCEPT ![t] = "none"] /\ UNCHANGED on
    BY <2>1, <2>5 DEF Stop
  <2> QED
    BY <2>2, <2>3, <2>4, <2>5
<1>14. ASSUME NEW t \in Threads, JoinWait(t) PROVE IndInv'
  BY <1>14 DEF JoinWait
<1>15. ASSUME NEW t \in Threads, JoinLeave(t) PROVE IndInv'
  BY <1>15 DEF JoinLeave
<1>16. ASSUME NEW t \in Threads, JoinReport(t) PROVE IndInv'
  BY <1>16 DEF JoinReport
<1>17. ASSUME NEW t \in Threads, ClearErase(t) PROVE IndInv'
  <2> DEFINE s == on[t]
  <2>1. /\ at[t] = "erase" /\ s \in slots /\ s \in Sessions
        /\ slots' = slots \ {s} /\ on' = [on EXCEPT ![t] = "none"]
        /\ UNCHANGED <<workers, control, awaiting, list, counted, todo, op, world>>
    BY <1>17 DEF ClearErase, Release
  <2>2. workers[s] = 0 /\ controlEnd[s]
    BY <2>1
  <2>3. CASE t # "rtsp" /\ on["rtsp"] = s
    BY <1>17, <2>1, <2>2, <2>3 DEF ClearErase
  <2>4. CASE ~(t # "rtsp" /\ on["rtsp"] = s)
    <3>1. Release(t, "erase", s, "visit") /\ Free(s)
      BY <1>17, <2>4 DEF ClearErase
    <3>2. at["rtsp"] \in Starting => on["rtsp"] # s
      BY <2>1, <2>4
    <3>3. TypeOK'
      BY <2>1, <3>1 DEF Release, Free
    <3>4. PlaceInv'
      BY <2>1, <3>1 DEF Release
    <3>5. LockInv'
      BY <2>1, <3>1 DEF Release
    <3>6. LifeInv'
      BY <2>1, <2>2, <3>1 DEF Release, Free
    <3>7. StartInv'
      BY <2>1, <3>1, <3>2 DEF Release, Free
    <3>8. JoinInv'
      BY <2>1, <3>1 DEF Release, Free
    <3>9. ListInv'
      BY <2>1, <2>2, <3>1, <3>2 DEF Release, Free
    <3> QED
      BY <3>3, <3>4, <3>5, <3>6, <3>7, <3>8, <3>9
  <2> QED
    BY <2>3, <2>4
<1>18. ASSUME NEW t \in Threads, ClearEnd(t) PROVE IndInv'
  BY <1>18 DEF ClearEnd
<1>19. ASSUME NEW t \in Threads, EndBroadcast(t) PROVE IndInv'
  <2>1. /\ at[t] \in {"ending", "dropping"}
        /\ \E to \in {"visit", "reap", "idle"} :
              /\ at' = [at EXCEPT ![t] = to]
              /\ at[t] = "ending" => to = "visit"
              /\ at[t] = "dropping" => to = IF t = "rtsp" THEN "reap" ELSE "idle"
        /\ control' = "off" /\ list' = {}
        /\ UNCHANGED <<session, serving, slots, refs, awaiting, counted, on, todo,
                       op, world>>
    BY <1>19 DEF EndBroadcast
  <2>2. TypeOK' /\ PlaceInv'
    BY <2>1
  <2>3. LockInv'
    <3>1. refs = {} /\ \A u \in Threads : u # t => at[u] \notin {"ending", "dropping"}
      BY <2>1
    <3>2. ContextFree'
      BY <2>1, <3>1
    <3>3. \A u \in Threads : at'[u] \in Clearing => at[u] \in Clearing
      BY <2>1
    <3> QED
      BY <2>1, <3>1, <3>2, <3>3
  <2>4. LifeInv' /\ StartInv' /\ JoinInv' /\ ListInv'
    BY <2>1
  <2> QED
    BY <2>2, <2>3, <2>4
<1>20. CASE ControlPass
  BY <1>20 DEF ControlPass, Stop
<1>21. CASE ControlCheck
  BY <1>21 DEF ControlCheck
<1>22. CASE ControlIdle
  BY <1>22 DEF ControlIdle
<1>23. CASE ControlStop
  BY <1>23 DEF ControlStop
<1>24. CASE ControlBye
  BY <1>24 DEF ControlBye, Stop
<1>25. ASSUME NEW s \in Sessions, ControlConnect(s) PROVE IndInv'
  BY <1>25 DEF ControlConnect
<1>26. ASSUME NEW s \in Sessions, ControlDisconnect(s) PROVE IndInv'
  BY <1>26 DEF ControlDisconnect, Stop
<1>27. ASSUME NEW s \in Sessions, WorkerEnd(s) PROVE IndInv'
  BY <1>27 DEF WorkerEnd, Stop
<1>28. CASE RecordRef
  BY <1>28 DEF RecordRef
<1>29. CASE RecordRelease
  BY <1>29 DEF RecordRelease, Release
<1>30. ASSUME NEW s \in Sessions, ClientGone(s) PROVE IndInv'
  BY <1>30 DEF ClientGone
<1>31. CASE AppChange
  <2>1. app' \in BOOLEAN
    BY <1>31 DEF AppChange
  <2>2. UNCHANGED <<session, serving, slots, context, counted, thread, down>>
    BY <1>31 DEF AppChange
  <2> QED
    BY <2>1, <2>2
<1>32. CASE ServiceStop
  BY <1>32 DEF ServiceStop
<1>33. CASE UNCHANGED vars
  BY <1>33 DEF vars
<1> HIDE DEF IndInv
<1> QED
  BY <1>1, <1>2, <1>3, <1>4, <1>5, <1>6, <1>7, <1>8, <1>9, <1>10, <1>11, <1>12,
     <1>13, <1>14, <1>15, <1>16, <1>17, <1>18, <1>19, <1>20, <1>21, <1>22, <1>23,
     <1>24, <1>25, <1>26, <1>27, <1>28, <1>29, <1>30, <1>31, <1>32, <1>33
  DEF Next, Start, Clear, Control

THEOREM Invariance == Spec => []IndInv
  BY InitInv, StepInv, PTL DEF Spec

-----------------------------------------------------------------------------
(* Type correctness, for any number of sessions. *)
THEOREM TypeCorrect == Spec => []TypeOK
<1>1. IndInv => TypeOK
  BY DEF IndInv
<1> QED
  BY <1>1, Invariance, PTL

(* Whoever drops the last reference to a session, announce or clear, it    *)
(* has no live worker, no hold on the broadcast context, and is not in the *)
(* list of a control thread that still runs.                               *)
THEOREM NoUseAfterFree == Spec => []FreedIsUnused
<1>1. IndInv => FreedIsUnused
  <2> SUFFICES ASSUME IndInv, NEW s \in Sessions, state[s] = "freed"
               PROVE  /\ workers[s] = 0
                      /\ s \notin refs
                      /\ control \in Turning => s \notin list
    BY DEF FreedIsUnused, Turning
  <2>1. s \notin slots \cup refs
    BY DEF IndInv, LifeInv, Alive
  <2>2. workers[s] = 0
    BY <2>1 DEF IndInv, LifeInv, TypeOK
  <2> QED
    BY <2>1, <2>2 DEF IndInv, ListInv
<1> QED
  BY <1>1, Invariance, PTL

(* While a session has a live worker it holds its reference to the         *)
(* broadcast context, and nobody is ending the broadcast.                  *)
THEOREM WorkersHaveContext == Spec => []ContextServesWorkers
<1>1. IndInv => ContextServesWorkers
  BY DEF IndInv, LifeInv, LockInv, ContextServesWorkers
<1> QED
  BY <1>1, Invariance, PTL

(* start()'s store of RUNNING never meets a session that was stopped.      *)
THEOREM StopsAreFinal == Spec => StopIsFinal
<1>1. IndInv /\ [Next]_vars =>
        [\A s \in Sessions : state[s] = "STOPPING" => state'[s] \in {"STOPPING", "freed"}]_vars
  <2> SUFFICES ASSUME IndInv, Next, NEW s \in Sessions, state[s] = "STOPPING"
               PROVE  state'[s] \in {"STOPPING", "freed"}
    OBVIOUS
  <2>1. state \in [Sessions -> {"none", "STOPPED", "RUNNING", "STOPPING", "freed"}]
    BY DEF IndInv, TypeOK
  <2>2. CASE UNCHANGED state
    BY <2>2
  <2>3. CASE \E S \in SUBSET Sessions : Stop(S)
    BY <2>1, <2>3 DEF Stop
  <2>4. CASE \E r \in Sessions : Free(r)
    BY <2>1, <2>4 DEF Free
  <2>5. CASE \E r \in Sessions : Announce(r)
    BY <2>1, <2>5 DEF Announce
  <2>6. CASE StartRun
    BY <2>1, <2>6 DEF StartRun, Goto, IndInv, StartInv, Starting, Early
  <2>7. CASE StartRespond
    <3>1. on["rtsp"] \in Sessions \/ ~(at["rtsp"] = "respond")
      BY DEF IndInv, PlaceInv, Starting, Threads
    <3>2. UNCHANGED session \/ (at["rtsp"] = "respond" /\ Free(on["rtsp"]))
      BY <2>7 DEF StartRespond, Release, Goto
    <3> QED
      BY <2>2, <2>4, <3>1, <3>2 DEF session
  <2>8. ASSUME NEW t \in Threads, Clear(t) PROVE state'[s] \in {"STOPPING", "freed"}
    <3>1. CASE ClearErase(t)
      <4>1. on[t] \in Sessions \/ ~(at[t] = "erase")
        BY DEF IndInv, PlaceInv, Held
      <4>2. UNCHANGED session \/ (at[t] = "erase" /\ Free(on[t]))
        BY <3>1 DEF ClearErase, Release, Goto
      <4> QED
        BY <2>2, <2>4, <4>1, <4>2 DEF session
    <3>2. CASE ClearVisit(t)
      <4>1. UNCHANGED session \/ \E r \in todo[t] : Stop({r})
        BY <3>2 DEF ClearVisit
      <4>2. todo[t] \subseteq Sessions
        BY DEF IndInv, TypeOK
      <4> QED
        BY <2>2, <2>3, <4>1, <4>2 DEF session
    <3>3. CASE UNCHANGED session
      BY <2>2, <3>3 DEF session
    <3> QED
      BY <2>8, <3>1, <3>2, <3>3
      DEF Clear, JoinWait, JoinLeave, JoinReport, ClearEnd, EndBroadcast
  <2>9. CASE Control
    <3>1. list \subseteq Sessions
      BY DEF IndInv, TypeOK
    <3>2. UNCHANGED session \/ \E S \in SUBSET Sessions : Stop(S)
      BY <2>9, <3>1 DEF Control, ControlPass, ControlCheck, ControlIdle, ControlStop,
         ControlBye, ControlConnect, ControlDisconnect
    <3> QED
      BY <2>2, <2>3, <3>2 DEF session
  <2>10. ASSUME NEW r \in Sessions, WorkerEnd(r) PROVE state'[s] \in {"STOPPING", "freed"}
    BY <2>3, <2>10 DEF WorkerEnd
  <2>11. CASE Start
    BY <2>2, <2>6, <2>7, <2>11 DEF Start, StartRef, StartRemove, StartPush,
       StartDeadline, StartSpawn, StartCount, session
  <2>12. CASE \/ \E r \in Sessions : ClientGone(r)
              \/ \E t \in Threads : ClearLock(t)
              \/ RtspClear \/ HttpClear \/ RecordRef \/ RecordRelease
              \/ AppChange \/ ServiceStop
    BY <2>2, <2>12 DEF ClientGone, ClearLock, RtspClear, HttpClear, BeginClear,
       RecordRef, RecordRelease, AppChange, ServiceStop, session
  <2> QED
    BY <2>5, <2>8, <2>9, <2>10, <2>11, <2>12 DEF Next
<1> QED
  BY <1>1, Invariance, PTL DEF Spec, StopIsFinal

-----------------------------------------------------------------------------
(* A session that was allocated and not destroyed is in the slots, where a *)
(* clear finds it, or in the hands of the announce that starts it.         *)
NoSessionLost ==
    \A s \in Sessions : state[s] \in Alive =>
        s \in slots \/ (at["rtsp"] \in Starting /\ on["rtsp"] = s)

(* A session is lost by no interleaving of an announce with a clear.       *)
THEOREM SessionsAreKept == Spec => []NoSessionLost
<1>1. IndInv => NoSessionLost
  BY DEF IndInv, ListInv, NoSessionLost
<1> QED
  BY <1>1, Invariance, PTL

(* shared_t: the control thread exists exactly while somebody holds a      *)
(* reference to the broadcast context or is ending it, one thread at most  *)
(* ends it, and it does so for nobody but itself.                          *)
BroadcastIsShared ==
    /\ control = "off" <=> refs = {} /\ ContextFree
    /\ ~ContextFree => refs = {}
    /\ \A t, u \in Threads : {at[t], at[u]} \subseteq {"ending", "dropping"} => t = u

(* The first reference starts the broadcast and the last one ends it,      *)
(* whichever threads take and drop them.                                   *)
THEOREM BroadcastLifetime == Spec => []BroadcastIsShared
<1>1. IndInv => BroadcastIsShared
  BY DEF IndInv, LockInv, BroadcastIsShared
<1> QED
  BY <1>1, Invariance, PTL
=============================================================================
