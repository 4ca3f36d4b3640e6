----------------------------- MODULE Host_proofs -----------------------------
(***************************************************************************)
(* The invariants of MCHost's components, for any processes, buffers,      *)
(* monitors, settings, ports and bounds: each component has an inductive   *)
(* invariant that its own steps keep and no other component's step         *)
(* touches, and HostInv puts them together.                                *)
(***************************************************************************)
EXTENDS MCHost, FiniteSetTheorems, WellFoundedInduction, TLAPS

(* A step of the suite is one of the component it looks at, or leaves it.  *)
LEMMA ComponentSteps ==
    ASSUME [Steps]_allVars
    PROVE  /\ focus' = focus
           /\ [focus = "screen" /\ Screen!Next]_screenVars
           /\ [focus = "portal" /\ Portal!Next]_portalVars
           /\ [focus = "steam" /\ Steam!Next]_steamVars
           /\ [focus = "identity" /\ Identity!Next]_identityVars
           /\ \/ focus = "display" /\ Display!Next
              \/ focus = "parse" /\ Parse!Next
              \/ UNCHANGED displayVars
           /\ \/ focus = "boot" /\ Boot!Next
              \/ focus = "options" /\ Options!Next
              \/ focus = "network" /\ Network!Next
              \/ focus = "sources" /\ Sources!Next
              \/ UNCHANGED bootVars
  BY DEF Steps, OnlyFocus, allVars

-----------------------------------------------------------------------------
(* A set of natural numbers that is not empty has a least one.             *)
LEMMA LeastNatural ==
    ASSUME NEW S \in SUBSET Nat, S # {}
    PROVE  \E n \in S : \A m \in S : n <= m
<1>1. PICK n \in S : \A m \in S : ~(<<m, n>> \in OpToRel(<, Nat))
  BY NatLessThanWellFounded, WFMin
<1>2. \A m \in S : ~(m < n)
  BY <1>1 DEF OpToRel
<1> QED
  BY <1>2

-----------------------------------------------------------------------------
(* PipewireCapture.  The buffers of a stream that is down are gone, and    *)
(* the images may return none of them.                                     *)
ScreenInv ==
    stream = "down" => ~active /\ place = [b \in ScreenBuffers |-> "gone"]

LEMMA ScreenStarts == Screen!Init => ScreenInv
  BY DEF Screen!Init, ScreenInv

LEMMA ScreenKept == ASSUME ScreenInv, Screen!Next PROVE ScreenInv'
<1> USE DEF ScreenInv
<1>1. CASE Screen!Configure \/ Screen!ListFormats \/ Screen!Connect
  BY <1>1 DEF Screen!Configure, Screen!ListFormats, Screen!Connect, Screen!streamVars
<1>2. CASE Screen!StartInInit \/ Screen!Negotiate \/ Screen!BeginCapture
  BY <1>2 DEF Screen!StartInInit, Screen!Negotiate, Screen!BeginCapture,
              Screen!EnsureStream, Screen!streamVars
<1>3. CASE Screen!ParamChanged \/ Screen!Streaming \/ Screen!Paused
  BY <1>3 DEF Screen!ParamChanged, Screen!Streaming, Screen!Paused
<1>4. CASE Screen!Disconnected
  BY <1>4 DEF Screen!Disconnected
<1>5. CASE Screen!Produce \/ Screen!ProcessDmabuf \/ Screen!ProcessCopy
  BY <1>5 DEF Screen!Produce, Screen!ProcessDmabuf, Screen!ProcessCopy
<1>6. CASE Screen!ProcessSwap
  BY <1>6 DEF Screen!ProcessSwap, Screen!In, Screen!Move
<1>7. ASSUME NEW n \in 0 .. Len(ScreenImages), Screen!PullImage(n) \/ Screen!PushTimeout(n)
      PROVE  ScreenInv'
  BY <1>7 DEF Screen!PullImage, Screen!PushTimeout, Screen!PullFree, Screen!Returned
<1>8. CASE Screen!FillImage
  BY <1>8 DEF Screen!FillImage, Screen!In
<1>9. CASE Screen!RejectFrame
  BY <1>9 DEF Screen!RejectFrame, Screen!Returned
<1>10. CASE Screen!WaitFrame \/ Screen!PushFrame \/ Screen!WaitTimeout \/ Screen!NoticeDead
            \/ Screen!Interrupted \/ \E i \in Screen!Names : Screen!EncoderDone(i)
  BY <1>10 DEF Screen!WaitFrame, Screen!PushFrame, Screen!WaitTimeout, Screen!NoticeDead,
               Screen!Interrupted, Screen!EncoderDone, Screen!streamVars
<1>11. CASE Screen!Destroy
  BY <1>11 DEF Screen!Destroy, Screen!Fresh
<1> QED
  BY <1>1, <1>2, <1>3, <1>4, <1>5, <1>6, <1>7, <1>8, <1>9, <1>10, <1>11 DEF Screen!Next

LEMMA ScreenReturns == ScreenInv => Screen!NoReturnToDeadStream
  BY DEF ScreenInv, Screen!NoReturnToDeadStream, Screen!In

-----------------------------------------------------------------------------
(* ScreenCast.  Every request has a number of its own.  While the steps of *)
(* a session are taken, the only request of its kind is the awaited one,   *)
(* which asks for the step the caller is at; what is still on its way for  *)
(* the other kind of session was numbered before.                          *)
PortalOps == {"create", "devices", "sources", "start"}
PortalTypes ==
    /\ count \in Nat /\ waiting \in 0 .. count /\ only \in BOOLEAN
    /\ DOMAIN progress = Portal!Kinds
    /\ \A r \in requests : r.id \in 1 .. count
    /\ \A a \in answers : a.id \in 1 .. count
    /\ waiting # 0 => portalPc \in PortalOps
    /\ \A r \in requests : r.kind \in Portal!Kinds /\ (r.kind = "cast" => only)
Numbered ==
    /\ \A r, s \in requests : r.id = s.id => r = s
    /\ \A a \in answers, r \in requests : a.id # r.id
OwnRequest ==
    portalPc \in {"begin", "remote", "configured", "running"} \cup PortalOps =>
        \A r \in requests : (r.kind = Portal!Session <=> r.id = waiting)
                            /\ (r.id = waiting => r.op = portalPc)
OwnAnswer ==
    portalPc \in PortalOps =>
        \A a \in answers : a.id = waiting /\ a.ok => progress[Portal!Session] = Portal!Reaches[portalPc]
StepsGranted ==
    /\ portalPc = "devices" => ~only /\ progress["remote"] \in {"created", "devices"}
    /\ portalPc = "sources" => progress[Portal!Session] \in {"created", "devices", "sources"}
    /\ portalPc = "start" => progress[Portal!Session] \in {"sources", "started"}
    /\ portalPc \in {"remote", "configured", "running"} =>
          waiting = 0 /\ progress[Portal!Session] = "started"
PortalInv == PortalTypes /\ Numbered /\ OwnRequest /\ OwnAnswer /\ StepsGranted

LEMMA PortalStarts == Portal!Init => PortalInv
<1> SUFFICES ASSUME Portal!Init PROVE PortalInv
  OBVIOUS
<1>1. /\ portalPc = "begin" /\ count = 0 /\ waiting = 0 /\ only = FALSE
      /\ requests = {} /\ answers = {} /\ DOMAIN progress = Portal!Kinds
  BY DEF Portal!Init
<1>2. PortalTypes
  <2>1. only \in BOOLEAN
    BY <1>1
  <2>2. count \in Nat /\ waiting \in 0 .. count /\ waiting = 0
    BY <1>1
  <2> QED
    BY <1>1, <2>1, <2>2, Zenon DEF PortalTypes
<1>3. Numbered /\ OwnRequest
  BY <1>1 DEF Numbered, OwnRequest
<1>4. OwnAnswer /\ StepsGranted
  BY <1>1 DEF OwnAnswer, StepsGranted, PortalOps
<1> QED
  BY <1>2, <1>3, <1>4 DEF PortalInv

(* Nothing is awaited once a step was given up: the other kind of session  *)
(* is tried, for which there are no requests yet, or the bus is closed.    *)
LEMMA GivenUp ==
    ASSUME PortalInv, portalPc \in PortalOps, Portal!GiveUp(portalPc), waiting' = 0,
           requests' \subseteq requests, answers' \subseteq answers,
           count' \in {count, count + 1}, UNCHANGED progress
    PROVE  PortalInv'
<1>0. PortalTypes /\ Numbered
  BY DEF PortalInv
<1>1. Numbered' /\ OwnAnswer'
  BY <1>0 DEF PortalTypes, Numbered, OwnAnswer
<1>2. CASE ~only /\ portalPc' = "create" /\ only' = TRUE
  <2>1. PortalTypes'
    BY <1>0, <1>2 DEF PortalTypes, PortalOps
  <2>2. OwnRequest'
    BY <1>0, <1>2 DEF PortalTypes, OwnRequest, Portal!Session
  <2> QED
    BY <1>1, <1>2, <2>1, <2>2 DEF PortalInv, StepsGranted
<1>3. CASE portalPc' = "close" /\ only' = only
  <2>1. PortalTypes'
    BY <1>0, <1>3 DEF PortalTypes
  <2> QED
    BY <1>1, <1>3, <2>1 DEF PortalInv, StepsGranted, OwnRequest, PortalOps
<1> QED
  BY <1>2, <1>3, <1>0 DEF Portal!GiveUp, PortalTypes

LEMMA PortalKept == ASSUME PortalInv, Portal!Next PROVE PortalInv'
<1> USE DEF PortalInv
<1>0. /\ Portal!Kinds = {"remote", "cast"} /\ Portal!Ops = PortalOps
      /\ Portal!Session \in Portal!Kinds
  BY DEF Portal!Kinds, Portal!Ops, PortalOps, Portal!Session
<1>1. CASE Portal!OpenBus
  BY <1>0, <1>1 DEF Portal!OpenBus, Portal!portalVars, PortalTypes, Numbered, OwnRequest, OwnAnswer,
              StepsGranted, PortalOps, Portal!Session
<1>2. CASE \/ Portal!OpenRemote \/ Portal!InitDisplay \/ Portal!EndDisplay \/ Portal!CloseCore
           \/ Portal!OtherOpens \/ Portal!KwinDone \/ Portal!KwinPermission \/ Portal!KwinInit
           \/ Portal!KwinRegistry \/ Portal!KwinStart
           \/ \E batch \in {{"created"}, {"failed"}, {"created", "closed"}} : Portal!KwinEvents(batch)
  <2>1. /\ UNCHANGED <<only, count, waiting, requests, answers, progress>>
        /\ portalPc' = portalPc \/ portalPc' \notin PortalOps \cup {"begin"}
        /\ portalPc' \in {"remote", "configured", "running"} =>
              portalPc \in {"remote", "configured", "running"}
        /\ portalPc' # portalPc => portalPc \notin PortalOps
    BY <1>2 DEF Portal!OpenRemote, Portal!InitDisplay, Portal!EndDisplay, Portal!CloseCore,
         Portal!OtherOpens, Portal!KwinDone, Portal!KwinPermission, Portal!KwinInit,
         Portal!KwinRegistry, Portal!KwinStart, Portal!KwinEvents, Portal!portalVars, PortalOps
  <2> QED
    BY <2>1 DEF PortalTypes, Numbered, OwnRequest, OwnAnswer, StepsGranted, PortalOps,
                Portal!Session
<1>3. CASE Portal!CloseBus
  BY <1>3 DEF Portal!CloseBus, PortalTypes, Numbered, OwnRequest, OwnAnswer, StepsGranted,
              PortalOps
<1>4. ASSUME NEW op \in PortalOps, Portal!Call(op) PROVE PortalInv'
  <2>1. /\ portalPc = op /\ waiting = 0 /\ count' = count + 1
        /\ UNCHANGED <<answers, progress>>
        /\ \/ /\ waiting' = count + 1
              /\ requests' = requests \cup {[id |-> count + 1, op |-> op, kind |-> Portal!Session]}
              /\ UNCHANGED <<portalPc, only>>
           \/ Portal!GiveUp(op) /\ UNCHANGED <<waiting, requests>>
    BY <1>4 DEF Portal!Call, Portal!RequestPath
  <2>2. CASE Portal!GiveUp(op) /\ UNCHANGED <<waiting, requests>>
    BY <2>1, <2>2, GivenUp
  <2>3. CASE /\ waiting' = count + 1
             /\ requests' = requests \cup {[id |-> count + 1, op |-> op, kind |-> Portal!Session]}
             /\ UNCHANGED <<portalPc, only>>
    <3>1. PortalTypes'
      BY <1>0, <2>1, <2>3 DEF PortalTypes, PortalOps, Portal!Session
    <3>2. Numbered'
      BY <1>0, <2>1, <2>3 DEF PortalTypes, Numbered
    <3>3. OwnRequest' /\ OwnAnswer' /\ StepsGranted'
      BY <1>0, <2>1, <2>3 DEF PortalTypes, OwnRequest, OwnAnswer, StepsGranted, PortalOps,
                        Portal!Session
    <3> QED
      BY <3>1, <3>2, <3>3
  <2> QED
    BY <2>1, <2>2, <2>3
<1>5. ASSUME NEW op \in PortalOps, Portal!AnswerTimeout(op) PROVE PortalInv'
  <2>1. /\ portalPc = op /\ waiting' = 0 /\ requests' \subseteq requests /\ Portal!GiveUp(op)
        /\ UNCHANGED <<count, answers, progress>>
    BY <1>5 DEF Portal!AnswerTimeout
  <2> QED
    BY <2>1, GivenUp
<1>6. ASSUME NEW op \in PortalOps, NEW a \in answers, Portal!TakeAnswer(op, a) PROVE PortalInv'
  <2>1. /\ portalPc = op /\ waiting # 0 /\ a.id = waiting /\ waiting' = 0
        /\ answers' = answers \ {a} /\ UNCHANGED <<count, requests, progress>>
        /\ \/ a.ok /\ portalPc' = Portal!After(op) /\ UNCHANGED only
           \/ Portal!GiveUp(op)
    BY <1>6 DEF Portal!TakeAnswer
  <2>2. \A r \in requests : r.id # waiting /\ r.kind # Portal!Session
    BY <2>1 DEF Numbered, OwnRequest
  <2>3. CASE Portal!GiveUp(op)
    BY <2>1, <2>3, GivenUp
  <2>4. CASE a.ok /\ portalPc' = Portal!After(op) /\ UNCHANGED only
    <3>1. progress[Portal!Session] = Portal!Reaches[op]
      BY <2>1, <2>4 DEF OwnAnswer
    <3>2. /\ op = "create" => Portal!Reaches[op] = "created"
          /\ op = "devices" => Portal!Reaches[op] = "devices"
          /\ op = "sources" => Portal!Reaches[op] = "sources"
          /\ op = "start" => Portal!Reaches[op] = "started"
      BY DEF Portal!Reaches
    <3>3. /\ op = "create" => portalPc' = IF only THEN "sources" ELSE "devices"
          /\ op = "devices" => portalPc' = "sources"
          /\ op = "sources" => portalPc' = "start"
          /\ op = "start" => portalPc' = "remote"
      BY <2>4 DEF Portal!After
    <3>4. Portal!Session' = Portal!Session
      BY <2>4 DEF Portal!Session
    <3>5. PortalTypes' /\ Numbered' /\ OwnRequest' /\ OwnAnswer'
      BY <2>1, <2>2, <2>4, <3>4 DEF PortalTypes, Numbered, OwnRequest, OwnAnswer
    <3>6. StepsGranted'
      BY <2>1, <2>4, <3>1, <3>2, <3>3 DEF StepsGranted, PortalOps, Portal!Session
    <3> QED
      BY <3>5, <3>6
  <2> QED
    BY <2>1, <2>3, <2>4
<1>7. ASSUME NEW r \in requests, Portal!PortalAnswers(r) PROVE PortalInv'
  <2>1. /\ requests' = requests \ {r} /\ UNCHANGED <<portalPc, only, count, waiting>>
        /\ \/ /\ answers' = answers \cup {[id |-> r.id, ok |-> TRUE]}
              /\ progress' = [progress EXCEPT ![r.kind] = Portal!Reaches[r.op]]
           \/ answers' = answers \cup {[id |-> r.id, ok |-> FALSE]} /\ UNCHANGED progress
    BY <1>7 DEF Portal!PortalAnswers
  <2>2. Portal!Session' = Portal!Session
    BY <2>1 DEF Portal!Session
  <2>3. PortalTypes' /\ Numbered'
    BY <2>1 DEF PortalTypes, Numbered
  <2>4. OwnRequest'
    BY <2>1, <2>2 DEF OwnRequest
  <2>5. portalPc \in PortalOps /\ r.id = waiting => r.op = portalPc /\ r.kind = Portal!Session
    BY DEF OwnRequest
  <2>6. OwnAnswer'
    <3> SUFFICES ASSUME portalPc \in PortalOps, NEW a \in answers', a.id = waiting, a.ok
                 PROVE  progress'[Portal!Session] = Portal!Reaches[portalPc]
      BY <2>1, <2>2 DEF OwnAnswer
    <3>1. CASE a \in answers
      BY <1>0, <2>1, <2>5, <3>1 DEF OwnAnswer, OwnRequest, PortalTypes
    <3>2. CASE a = [id |-> r.id, ok |-> TRUE] /\ progress' = [progress EXCEPT ![r.kind] = Portal!Reaches[r.op]]
      BY <1>0, <2>5, <3>2 DEF PortalTypes
    <3> QED
      BY <2>1, <3>1, <3>2
  <2>7. StepsGranted'
    <3>1. CASE UNCHANGED progress
      BY <2>1, <3>1 DEF StepsGranted, Portal!Session
    <3>2. CASE r.kind # Portal!Session
      BY <1>0, <2>1, <2>2, <3>2 DEF StepsGranted, PortalTypes, Portal!Session
    <3>3. CASE r.kind = Portal!Session /\ portalPc \in PortalOps /\ progress' = [progress EXCEPT ![r.kind] = Portal!Reaches[r.op]]
      <4>1. r.op = portalPc /\ progress'[Portal!Session] = Portal!Reaches[portalPc]
        BY <1>0, <3>3 DEF OwnRequest, PortalTypes
      <4> QED
        BY <1>0, <2>1, <3>3, <4>1 DEF StepsGranted, Portal!Session, PortalOps, Portal!Reaches
    <3>4. CASE r.kind = Portal!Session /\ portalPc \notin PortalOps
      BY <2>1, <2>2, <3>4 DEF StepsGranted, OwnRequest, PortalOps, PortalTypes
    <3> QED
      BY <2>1, <3>1, <3>2, <3>3, <3>4
  <2> QED
    BY <2>3, <2>4, <2>6, <2>7
<1>8. ASSUME NEW a \in answers, Portal!DropAnswer(a) PROVE PortalInv'
  BY <1>8 DEF Portal!DropAnswer, PortalTypes, Numbered, OwnRequest, OwnAnswer, StepsGranted,
              Portal!Session
<1> QED
  BY <1>0, <1>1, <1>2, <1>3, <1>4, <1>5, <1>6, <1>7, <1>8 DEF Portal!Next

LEMMA PortalGranted == PortalInv => Portal!GrantedBeforeUse
  BY DEF PortalInv, StepsGranted, Portal!GrantedBeforeUse

-----------------------------------------------------------------------------
(* SteamPlacement.  A process is a record of the table, its parent is a    *)
(* process, nobody or the compositor, and a scan sees no later process     *)
(* than the last one.  A Steam is a child of the compositor or of nobody.  *)
Places == SteamPids \cup {0, SteamCompositor}

Recorded(t) ==
    /\ t = [kind |-> t.kind, born |-> t.born, parent |-> t.parent, env |-> t.env,
            scope |-> t.scope, exe |-> t.exe, meta |-> t.meta]
    /\ t.born \in Nat /\ t.parent \in Places
    /\ t.kind = "steam" => t.parent \in {0, SteamCompositor}

Table ==
    /\ proc = [p \in SteamPids |-> proc[p]]
    /\ \A p \in SteamPids : Recorded(proc[p])

Times ==
    /\ born \in Nat /\ scanned \in Nat /\ scanned <= born
    /\ \A p \in SteamPids : proc[p].born <= born

(* When the command may start, the Steam the scan could see is inside;     *)
(* while one is asked to go, the scan could see no other.                  *)
Placed ==
    step = "allowed" /\ settings.active =>
        \A p \in Steam!MainSteam :
            proc[p].born <= scanned =>
                proc[p].env = "target" \/ proc[p].parent = SteamCompositor

OnlyCandidate ==
    step \in {"verify", "fork", "wait"} =>
        \A p \in Steam!MainSteam : proc[p].born <= scanned => p = candidate.pid

SteamInv == Table /\ Times /\ Placed /\ OnlyCandidate

LEMMA SteamProcesses ==
    ASSUME NEW p \in SteamPids, NEW t \in Steam!ProcessesAt(p)
    PROVE  Recorded(t) /\ t.born <= 1
<1>1. CASE t = Steam!NoProcess
  BY <1>1 DEF Steam!NoProcess, Recorded, Places
<1>2. CASE t \in {Steam!Process("steam", u, e, FALSE, v[1], v[2]) :
                 u \in {0, SteamCompositor}, e \in {"target", "desktop"}, v \in Steam!Views}
  BY <1>2 DEF Steam!Process, Steam!Views, Recorded, Places
<1>3. CASE t \in {Steam!Process("steamwebhelper", u, "other", FALSE, TRUE, TRUE) :
                 u \in {0} \cup {q \in SteamPids : q < p}}
  BY <1>3 DEF Steam!Process, Steam!Views, Recorded, Places
<1>4. CASE t \in {Steam!Process(k, u, "other", TRUE, TRUE, TRUE) :
                 k \in {"reaper", "game"}, u \in {0} \cup SteamPids}
  BY <1>4 DEF Steam!Process, Steam!Views, Recorded, Places
<1>5. CASE t \in {Steam!Process("other", u, "other", FALSE, TRUE, TRUE) :
                 u \in {0, SteamCompositor}}
  BY <1>5 DEF Steam!Process, Steam!Views, Recorded, Places
<1>6. \/ t = Steam!NoProcess
      \/ t \in {Steam!Process("steam", u, e, FALSE, v[1], v[2]) :
                 u \in {0, SteamCompositor}, e \in {"target", "desktop"}, v \in Steam!Views}
      \/ t \in {Steam!Process("steamwebhelper", u, "other", FALSE, TRUE, TRUE) :
                 u \in {0} \cup {q \in SteamPids : q < p}}
      \/ t \in {Steam!Process(k, u, "other", TRUE, TRUE, TRUE) :
                 k \in {"reaper", "game"}, u \in {0} \cup SteamPids}
      \/ t \in {Steam!Process("other", u, "other", FALSE, TRUE, TRUE) :
                 u \in {0, SteamCompositor}}
  BY DEF Steam!ProcessesAt, Steam!Process
<1> QED
  BY <1>1, <1>2, <1>3, <1>4, <1>5, <1>6 DEF Steam!Process

(* A process that was just started. *)
LEMMA StartedNow ==
    ASSUME NEW k, NEW u \in Places, NEW e, NEW g, NEW x, NEW y, NEW b \in Nat,
           k = "steam" => u \in {0, SteamCompositor}
    PROVE  LET r == [Steam!Process(k, u, e, g, x, y) EXCEPT !.born = b]
           IN  Recorded(r) /\ r.born = b
  BY DEF Steam!Process, Recorded, Places

LEMMA SteamBegins == Steam!Init => SteamInv
<1> SUFFICES ASSUME Steam!Init PROVE SteamInv
  OBVIOUS
<1>0. proc \in {t \in [SteamPids -> UNION {Steam!ProcessesAt(p) : p \in SteamPids}] :
                    \A p \in SteamPids :
                        /\ t[p] \in Steam!ProcessesAt(p)
                        /\ t[p].parent \in SteamPids => t[t[p].parent].kind # "none"}
  BY DEF Steam!Init
<1>1. /\ proc \in [SteamPids -> UNION {Steam!ProcessesAt(p) : p \in SteamPids}]
      /\ \A p \in SteamPids : proc[p] \in Steam!ProcessesAt(p)
  BY <1>0
<1>5. born = 1 /\ scanned = 0 /\ step = "idle"
  BY DEF Steam!Init
<1>2. \A p \in SteamPids : Recorded(proc[p]) /\ proc[p].born <= 1
  BY <1>1, SteamProcesses
<1>3. Table
  BY <1>1, <1>2 DEF Table
<1>4. Times
  BY <1>2, <1>5 DEF Times
<1> QED
  BY <1>3, <1>4, <1>5 DEF SteamInv, Placed, OnlyCandidate

(* The Steam processes after a step are some of those before it, of the    *)
(* same place, and those it started.                                       *)
LEMMA SteamExits ==
    ASSUME SteamInv, NEW p \in SteamPids, Steam!Exit(p)
    PROVE  SteamInv'
<1>1. /\ proc' = [q \in SteamPids |-> IF q = p THEN Steam!NoProcess
                     ELSE IF proc[q].parent = p THEN [proc[q] EXCEPT !.parent = 0]
                     ELSE proc[q]]
      /\ UNCHANGED <<born, scanned, step, settings, candidate>>
  BY DEF Steam!Exit, Steam!taskVars
<1>2. Recorded(Steam!NoProcess) /\ Steam!NoProcess.kind = "none" /\ Steam!NoProcess.born = 0
  BY DEF Steam!NoProcess, Recorded, Places
<1>3. ASSUME NEW q \in SteamPids
      PROVE  /\ Recorded(proc'[q])
             /\ \/ proc'[q].kind = "none" /\ proc'[q].born = 0
                \/ /\ proc'[q].kind = proc[q].kind /\ proc'[q].born = proc[q].born
                   /\ proc'[q].env = proc[q].env /\ proc'[q].exe = proc[q].exe
                   /\ proc'[q].parent \in {0, proc[q].parent}
                   /\ proc[q].parent # p => proc'[q].parent = proc[q].parent
  <2>1. CASE q = p
    BY <1>1, <1>2, <2>1
  <2>2. CASE q # p /\ proc[q].parent = p
    <3>1. proc'[q] = [proc[q] EXCEPT !.parent = 0] /\ Recorded(proc[q])
      BY <1>1, <2>2 DEF SteamInv, Table
    <3> QED
      BY <3>1, <2>2 DEF Recorded, Places
  <2>3. CASE q # p /\ proc[q].parent # p
    BY <1>1, <2>3 DEF SteamInv, Table
  <2> QED
    BY <2>1, <2>2, <2>3
<1>4. Table'
  BY <1>1, <1>3 DEF Table
<1>5. Times'
  <2>1. \A q \in SteamPids : proc[q].born <= born /\ born \in Nat
    BY DEF SteamInv, Times
  <2>2. \A q \in SteamPids : proc'[q].born <= born
    BY <1>3, <2>1
  <2> QED
    BY <1>1, <2>1, <2>2 DEF SteamInv, Times
<1>6. ASSUME NEW q \in Steam!MainSteam'
      PROVE  /\ q \in Steam!MainSteam /\ proc'[q].born = proc[q].born
             /\ proc'[q].env = proc[q].env
             /\ proc[q].parent = SteamCompositor => proc'[q].parent = SteamCompositor
  BY <1>3, SteamAssumption DEF Steam!MainSteam, Steam!Running, Steam!Name
<1> QED
  BY <1>1, <1>4, <1>5, <1>6 DEF SteamInv, Placed, OnlyCandidate

LEMMA SteamAdded ==
    ASSUME SteamInv, NEW p \in SteamPids, born' = born + 1, UNCHANGED scanned,
           NEW r, Recorded(r), r.born = born',
           proc' = [proc EXCEPT ![p] = r]
    PROVE  /\ Table' /\ Times'
           /\ \A q \in Steam!MainSteam' :
                  \/ q \in Steam!MainSteam /\ proc'[q] = proc[q]
                  \/ ~(proc'[q].born <= scanned')
<1>1. /\ proc' = [q \in SteamPids |-> proc'[q]] /\ proc'[p] = r
      /\ \A q \in SteamPids \ {p} : proc'[q] = proc[q]
  BY DEF SteamInv, Table
<1>2. Table'
  BY <1>1 DEF SteamInv, Table
<1>3. born \in Nat /\ scanned \in Nat /\ scanned <= born /\ \A q \in SteamPids : proc[q].born <= born
  BY DEF SteamInv, Times
<1>4. \A q \in SteamPids \ {p} : proc[q].born \in Nat
  BY DEF SteamInv, Table, Recorded
<1>5. \A q \in SteamPids : proc'[q].born <= born'
  BY <1>1, <1>3, <1>4
<1>6. Times'
  BY <1>3, <1>5 DEF Times
<1> QED
  BY <1>1, <1>2, <1>3, <1>6 DEF Steam!MainSteam, Steam!Running, Steam!Name

LEMMA SteamStarted ==
    ASSUME SteamInv, NEW p \in SteamPids, NEW k \in {"steam", "game", "other"}, Steam!Start(p, k)
    PROVE  SteamInv'
<1> DEFINE r == [Steam!Process(k, 0, IF k = "steam" THEN "desktop" ELSE "other",
                     k = "game", TRUE, TRUE) EXCEPT !.born = born']
<1>1. /\ born' = born + 1 /\ proc' = [proc EXCEPT ![p] = r] /\ born \in Nat
      /\ UNCHANGED <<scanned, step, settings, candidate>>
  BY DEF Steam!Start, Steam!taskVars, SteamInv, Times
<1>2. Recorded(r) /\ r.born = born'
  <2>1. 0 \in Places /\ born' \in Nat
    BY <1>1 DEF Places
  <2> QED
    BY <2>1, StartedNow DEF Steam!Process
<1> HIDE DEF r
<1> QED
  BY <1>1, <1>2, SteamAdded DEF SteamInv, Placed, OnlyCandidate

(* A Steam from which a walk leads to the compositor is its child.         *)
LEMMA DirectParent ==
    ASSUME Table, NEW p \in Steam!MainSteam, Steam!HasTargetParent(p)
    PROVE  proc[p].parent = SteamCompositor
<1>1. PICK n \in 1 .. Steam!Cardinality(Steam!Running) : Steam!Leads(p, n)
  BY DEF Steam!HasTargetParent
<1>2. PICK w \in Steam!Walks(n) : w[0] = p /\ w[n] = SteamCompositor
  BY <1>1 DEF Steam!Leads
<1>3. n \in Nat \ {0}
  BY <1>1
<1>4. w[0] \in Steam!Running /\ w[1] = proc[p].parent
  BY <1>2, <1>3 DEF Steam!Walks
<1>5. n = 1 \/ w[1] \in Steam!Running
  BY <1>2, <1>3 DEF Steam!Walks
<1>6. p \in SteamPids /\ proc[p].kind = "steam"
  BY DEF Steam!MainSteam, Steam!Running, Steam!Name
<1>7. proc[p].parent \in {0, SteamCompositor}
  BY <1>6 DEF Table, Recorded
<1> QED
  BY <1>2, <1>4, <1>5, <1>7, SteamAssumption DEF Steam!Running

LEMMA ChecksPlace ==
    ASSUME SteamInv, Steam!CheckCommand
    PROVE  SteamInv'
<1>1. UNCHANGED <<proc, born, settings, candidate>> /\ step' \in {"allowed", "inspect", "done"}
  BY DEF Steam!CheckCommand, Steam!RefuseOutside, Steam!RefuseUnknown
<1>2. scanned' \in {0, born}
  BY DEF Steam!CheckCommand
<1>3. Table' /\ Times' /\ OnlyCandidate'
  BY <1>1, <1>2 DEF SteamInv, Table, Times, OnlyCandidate
<1>4. ASSUME step' = "allowed", settings.active,
             NEW p \in Steam!MainSteam
      PROVE  proc[p].env = "target" \/ proc[p].parent = SteamCompositor
  <2>1. Steam!Classify \in {"absent", "inside"}
    BY <1>4 DEF Steam!CheckCommand, Steam!RefuseOutside, Steam!RefuseUnknown
  <2>2. p \in Steam!Running /\ Steam!Name(p) \in Steam!SteamFamily
    BY DEF Steam!MainSteam, Steam!SteamFamily
  <2>3. Steam!BelongsToTarget(p)
    BY <2>1, <2>2 DEF Steam!Classify
  <2> QED
    BY <2>3, DirectParent DEF Steam!BelongsToTarget, SteamInv
<1>5. Steam!MainSteam' = Steam!MainSteam
  BY <1>1 DEF Steam!MainSteam, Steam!Running, Steam!Name
<1> QED
  BY <1>1, <1>3, <1>4, <1>5 DEF SteamInv, Placed

LEMMA SteamIsFinite ==
    IsFiniteSet(Steam!Running) /\ IsFiniteSet(Steam!MainSteam)
  BY SteamAssumption, FS_Subset DEF Steam!Running, Steam!MainSteam

LEMMA InspectsOne ==
    ASSUME SteamInv, Steam!Inspect
    PROVE  SteamInv'
<1>1. UNCHANGED <<proc, born, settings>> /\ scanned' = born /\ step' \in {"verify", "done"}
  BY DEF Steam!Inspect
<1>2. Table' /\ Times' /\ Placed'
  BY <1>1 DEF SteamInv, Table, Times, Placed
<1>3. ASSUME step' = "verify", NEW p \in Steam!MainSteam
      PROVE  p = candidate'.pid
  <2>1. Steam!Idle = "idle"
    BY <1>3 DEF Steam!Inspect
  <2>2. candidate' = Steam!Identity(CHOOSE q \in Steam!MainSteam : TRUE)
    BY <2>1 DEF Steam!Inspect
  <2>3. Steam!Cardinality(Steam!MainSteam) = 1
    BY <2>1 DEF Steam!Idle
  <2>4. Steam!Cardinality(Steam!MainSteam) = Cardinality(Steam!MainSteam)
    BY DEF Steam!Cardinality, Cardinality
  <2>5. PICK x : Steam!MainSteam = {x}
    BY <2>3, <2>4, SteamIsFinite, FS_Singleton
  <2> QED
    BY <2>2, <2>5 DEF Steam!Identity
<1>4. Steam!MainSteam' = Steam!MainSteam
  BY <1>1 DEF Steam!MainSteam, Steam!Running, Steam!Name
<1> QED
  BY <1>1, <1>2, <1>3, <1>4 DEF SteamInv, OnlyCandidate

LEMMA SteamLaunched == ASSUME SteamInv, Steam!Launch PROVE SteamInv'
<1>1. step' = "done" /\ UNCHANGED <<settings, scanned, candidate>>
  BY DEF Steam!Launch
<1>2. Placed' /\ OnlyCandidate'
  BY <1>1 DEF Placed, OnlyCandidate
<1>3. CASE UNCHANGED <<proc, born>>
  BY <1>1, <1>2, <1>3 DEF SteamInv, Table, Times
<1>4. ASSUME NEW p \in SteamPids, born' = born + 1,
             proc' = [proc EXCEPT ![p] =
                [Steam!Process("steam", SteamCompositor, "target", FALSE, TRUE, TRUE)
                    EXCEPT !.born = born']]
      PROVE  SteamInv'
  <2> DEFINE r == [Steam!Process("steam", SteamCompositor, "target", FALSE, TRUE, TRUE)
                       EXCEPT !.born = born']
  <2>1. born \in Nat
    BY DEF SteamInv, Times
  <2>2. Recorded(r) /\ r.born = born'
    <3>1. SteamCompositor \in Places /\ born' \in Nat
      BY <1>4, <2>1 DEF Places
    <3> QED
      BY <3>1, StartedNow DEF Steam!Process
  <2>3. proc' = [proc EXCEPT ![p] = r]
    BY <1>4
  <2> HIDE DEF r
  <2> QED
    BY <1>1, <1>2, <1>4, <2>2, <2>3, SteamAdded DEF SteamInv
<1> QED
  BY <1>3, <1>4 DEF Steam!Launch

LEMMA SteamKept == ASSUME SteamInv, Steam!Next PROVE SteamInv'
<1>0. ASSUME UNCHANGED <<proc, born, scanned>>
      PROVE  Table' /\ Times' /\ Steam!MainSteam' = Steam!MainSteam
  BY <1>0 DEF SteamInv, Table, Times, Steam!MainSteam, Steam!Running, Steam!Name
<1>1. ASSUME NEW p \in SteamPids,
             Steam!Exit(p) \/ \E k \in {"steam", "game", "other"} : Steam!Start(p, k)
      PROVE  SteamInv'
  BY <1>1, SteamExits, SteamStarted
<1>2. CASE Steam!CheckCommand \/ Steam!Inspect \/ Steam!Launch
  BY <1>2, ChecksPlace, InspectsOne, SteamLaunched
<1>3. CASE Steam!Verify \/ Steam!Fork
  BY <1>0, <1>3 DEF Steam!Verify, Steam!Fork, SteamInv, Placed, OnlyCandidate
<1>4. CASE Steam!Poll
  <2>1. UNCHANGED <<proc, born, settings, scanned, candidate>> /\ step = "wait"
    BY <1>4 DEF Steam!Poll
  <2>2. OnlyCandidate'
    BY <1>0, <2>1 DEF SteamInv, OnlyCandidate
  <2>3. step' = "allowed" => candidate.pid \notin Steam!Running
    BY <1>4 DEF Steam!Poll, Steam!Observation
  <2>4. \A p \in Steam!MainSteam : p \in Steam!Running
    BY DEF Steam!MainSteam
  <2>5. Placed'
    BY <1>0, <2>1, <2>3, <2>4 DEF SteamInv, OnlyCandidate, Placed
  <2> QED
    BY <1>0, <2>1, <2>2, <2>5 DEF SteamInv
<1>5. CASE Steam!HelperEnds
  BY <1>0, <1>5 DEF Steam!HelperEnds, SteamInv, Placed, OnlyCandidate
<1>6. CASE Steam!StopResident \/ Steam!StopVerify \/ Steam!StopPoll \/ Steam!Done
  BY <1>0, <1>6 DEF Steam!StopResident, Steam!StopVerify, Steam!StopPoll, Steam!Done,
                    SteamInv, Placed, OnlyCandidate
<1> QED
  BY <1>1, <1>2, <1>3, <1>4, <1>5, <1>6 DEF Steam!Next

(* The walk over the parents finds the compositor whenever it is an        *)
(* ancestor: no walk to it passes a process twice, so it is not longer     *)
(* than there are processes.                                               *)
LEMMA WalksAreSound ==
    ASSUME NEW p \in Steam!Running, NEW n \in Nat \ {0}, Steam!Leads(p, n)
    PROVE  SteamCompositor \in Steam!Ancestors(p)
<1>1. PICK w \in Steam!Walks(n) : w[0] = p /\ w[n] = SteamCompositor
  BY DEF Steam!Leads
<1>2. \A i \in 1 .. n : w[i - 1] \in Steam!Running /\ w[i] = proc[w[i - 1]].parent
  BY <1>1 DEF Steam!Walks
<1>3. SUFFICES ASSUME NEW s \in SUBSET Steam!Places, proc[p].parent \in s,
                      \A q \in s \cap Steam!Running : proc[q].parent \in s,
                      SteamCompositor \notin s
               PROVE  FALSE
  BY DEF Steam!Ancestors, Steam!Places
<1> DEFINE B == {i \in 1 .. n : w[i] \notin s}
<1>4. n \in B /\ B \in SUBSET Nat
  BY <1>1, <1>3
<1>5. PICK m \in B : \A i \in B : m <= i
  <2> HIDE DEF B
  <2> QED
    BY <1>4, LeastNatural
<1>6. CASE m = 1
  BY <1>1, <1>2, <1>3, <1>5, <1>6
<1>7. CASE m # 1
  <2>1. m - 1 \in 1 .. n /\ ~(m <= m - 1)
    BY <1>5, <1>7
  <2>2. w[m - 1] \in s
    BY <1>5, <2>1
  <2> QED
    BY <1>2, <1>3, <1>5, <2>2
<1> QED
  BY <1>6, <1>7

LEMMA WalksAreShort ==
    ASSUME NEW n \in Nat \ {0}, NEW w \in Steam!Walks(n), w[n] = SteamCompositor
    PROVE  n <= Cardinality(Steam!Running)
<1>1. \A i \in 1 .. n : w[i - 1] \in Steam!Running /\ w[i] = proc[w[i - 1]].parent
  BY DEF Steam!Walks
<1>2. SteamCompositor \notin Steam!Running
  BY SteamAssumption DEF Steam!Running
<1>3. ASSUME NEW i \in 0 .. n - 1, NEW j \in 0 .. n - 1, i < j, w[i] = w[j]
      PROVE  FALSE
  <2> DEFINE B == {k \in 0 .. n - j : w[i + k] # w[j + k]}
  <2>1. n - j \in B
    <3>1. i + (n - j) \in 0 .. n - 1 /\ j + (n - j) = n /\ n - j \in 0 .. n - j
      BY <1>3
    <3>2. i + (n - j) + 1 \in 1 .. n /\ (i + (n - j) + 1) - 1 = i + (n - j)
      BY <3>1
    <3>3. w[i + (n - j)] \in Steam!Running
      BY <1>1, <3>2
    <3> QED
      BY <1>2, <3>1, <3>3
  <2>2. B \in SUBSET Nat
    BY <1>3
  <2>3. PICK k \in B : \A l \in B : k <= l
    <3> HIDE DEF B
    <3> QED
      BY <2>1, <2>2, LeastNatural
  <2>4. k # 0
    <3>1. i + 0 = i /\ j + 0 = j
      BY <1>3
    <3> QED
      BY <1>3, <2>3, <3>1
  <2>5. k - 1 \in 0 .. n - j /\ ~(k <= k - 1)
    BY <1>3, <2>3, <2>4
  <2>6. w[i + (k - 1)] = w[j + (k - 1)]
    BY <2>3, <2>5
  <2>7. /\ i + k \in 1 .. n /\ (i + k) - 1 = i + (k - 1)
        /\ j + k \in 1 .. n /\ (j + k) - 1 = j + (k - 1)
    BY <1>3, <2>3, <2>4
  <2> QED
    BY <1>1, <2>3, <2>6, <2>7
<1> DEFINE f == [i \in 1 .. n |-> w[i - 1]]
<1>4. \A i, j \in 1 .. n : f[i] = f[j] => i = j
  <2> SUFFICES ASSUME NEW i \in 1 .. n, NEW j \in 1 .. n, w[i - 1] = w[j - 1], i # j
               PROVE  FALSE
    OBVIOUS
  <2>1. i - 1 \in 0 .. n - 1 /\ j - 1 \in 0 .. n - 1 /\ (i - 1 < j - 1 \/ j - 1 < i - 1)
    OBVIOUS
  <2> QED
    BY <1>3, <2>1
<1>5. f \in [1 .. n -> Steam!Running]
  BY <1>1
<1>6. f \in Injection(1 .. n, Steam!Running)
  <2> HIDE DEF f
  <2> QED
    BY <1>4, <1>5 DEF Injection, IsInjective
<1>7. Cardinality(1 .. n) <= Cardinality(Steam!Running)
  <2> HIDE DEF f
  <2> QED
    BY <1>6, SteamIsFinite, FS_Injection
<1>8. Cardinality(1 .. n) = n
  BY FS_Interval
<1> QED
  BY <1>7, <1>8

LEMMA WalksAreComplete ==
    ASSUME Table, NEW p \in Steam!Running, SteamCompositor \in Steam!Ancestors(p)
    PROVE  Steam!HasTargetParent(p)
<1> DEFINE s == {a \in Steam!Places :
                    \E n \in Nat \ {0} : \E w \in Steam!Walks(n) : w[0] = p /\ w[n] = a}
<1>0. \A q \in Steam!Running : q \in Steam!Places /\ proc[q].parent \in Steam!Places
  BY DEF Table, Recorded, Places, Steam!Places, Steam!Running
<1>1. proc[p].parent \in s
  <2> DEFINE w == [i \in 0 .. 1 |-> IF i = 0 THEN p ELSE proc[p].parent]
  <2>1. w \in [0 .. 1 -> Steam!Places]
    BY <1>0
  <2>2. \A i \in 1 .. 1 : w[i - 1] \in Steam!Running /\ w[i] = proc[w[i - 1]].parent
    OBVIOUS
  <2>3. w[0] = p /\ w[1] = proc[p].parent
    OBVIOUS
  <2>4. w \in Steam!Walks(1)
    <3> HIDE DEF w
    <3> QED
      BY <2>1, <2>2 DEF Steam!Walks
  <2> HIDE DEF w
  <2> QED
    BY <1>0, <2>3, <2>4
<1>2. ASSUME NEW q \in s \cap Steam!Running PROVE proc[q].parent \in s
  <2>1. PICK n \in Nat \ {0} : \E w \in Steam!Walks(n) : w[0] = p /\ w[n] = q
    BY <1>2
  <2>2. PICK w \in Steam!Walks(n) : w[0] = p /\ w[n] = q
    BY <2>1
  <2>3. /\ w \in [0 .. n -> Steam!Places]
        /\ \A i \in 1 .. n : w[i - 1] \in Steam!Running /\ w[i] = proc[w[i - 1]].parent
    BY <2>2 DEF Steam!Walks
  <2> DEFINE v == [i \in 0 .. n + 1 |-> IF i <= n THEN w[i] ELSE proc[q].parent]
  <2>4. v \in [0 .. n + 1 -> Steam!Places]
    BY <1>0, <1>2, <2>3
  <2>5. ASSUME NEW i \in 1 .. n + 1
        PROVE  v[i - 1] \in Steam!Running /\ v[i] = proc[v[i - 1]].parent
    <3>1. CASE i <= n
      <4>1. i \in 1 .. n /\ i - 1 \in 0 .. n + 1 /\ i - 1 <= n /\ i \in 0 .. n + 1
        BY <3>1
      <4> QED
        BY <2>3, <4>1
    <3>2. CASE i = n + 1
      <4>1. i - 1 = n /\ ~(i <= n) /\ n \in 0 .. n + 1 /\ i \in 0 .. n + 1 /\ n <= n
        BY <3>2
      <4> QED
        BY <1>2, <2>2, <4>1
    <3> QED
      BY <3>1, <3>2
  <2>6. v[0] = p /\ v[n + 1] = proc[q].parent
    <3>1. 0 \in 0 .. n + 1 /\ 0 <= n /\ n + 1 \in 0 .. n + 1 /\ ~(n + 1 <= n)
      OBVIOUS
    <3> QED
      BY <2>2, <3>1
  <2>7. v \in Steam!Walks(n + 1) /\ n + 1 \in Nat \ {0}
    <3> HIDE DEF v
    <3> QED
      BY <2>4, <2>5 DEF Steam!Walks
  <2> HIDE DEF v
  <2> QED
    BY <1>0, <1>2, <2>6, <2>7
<1>3. SteamCompositor \in s
  <2>1. s \in SUBSET Steam!Places
    OBVIOUS
  <2> HIDE DEF s
  <2> QED
    BY <1>1, <1>2, <2>1 DEF Steam!Ancestors
<1>4. PICK n \in Nat \ {0} : \E w \in Steam!Walks(n) : w[0] = p /\ w[n] = SteamCompositor
  BY <1>3
<1>5. n <= Cardinality(Steam!Running) /\ Steam!Leads(p, n)
  BY <1>4, WalksAreShort DEF Steam!Leads
<1>6. Steam!Cardinality(Steam!Running) = Cardinality(Steam!Running)
  BY DEF Steam!Cardinality, Cardinality
<1>7. n \in 1 .. Cardinality(Steam!Running)
  BY <1>5, SteamIsFinite, FS_CardinalityType
<1> QED
  BY <1>5, <1>6, <1>7 DEF Steam!HasTargetParent

LEMMA SteamIsOne == SteamInv => Steam!OneSteam /\ Steam!AncestryIsComplete
<1> SUFFICES ASSUME SteamInv PROVE Steam!OneSteam /\ Steam!AncestryIsComplete
  OBVIOUS
<1>1. ASSUME NEW p, proc[p].parent = SteamCompositor
      PROVE  SteamCompositor \in Steam!Ancestors(p)
  BY <1>1 DEF Steam!Ancestors, Steam!Places
<1>2. Steam!OneSteam
  BY <1>1 DEF SteamInv, Placed, Steam!OneSteam
<1>3. ASSUME NEW p \in Steam!Running, Steam!HasTargetParent(p)
      PROVE  SteamCompositor \in Steam!Ancestors(p)
  <2>1. PICK n \in 1 .. Steam!Cardinality(Steam!Running) : Steam!Leads(p, n)
    BY <1>3 DEF Steam!HasTargetParent
  <2>2. n \in Nat \ {0}
    BY <2>1
  <2> QED
    BY <2>1, <2>2, WalksAreSound
<1> QED
  BY <1>2, <1>3, WalksAreComplete DEF SteamInv, Steam!AncestryIsComplete

-----------------------------------------------------------------------------
(* SourceIdentity.  A process that is started is younger than every        *)
(* identity that is remembered, so a pid that is used again carries a      *)
(* later start time than the session and the capture know: an identity     *)
(* that agrees in both is the compositor itself.                           *)
Young ==
    /\ started \in Nat /\ DOMAIN procs = HostPids
    /\ \A p \in HostPids : procs[p].born \in Nat /\ procs[p].born <= started

SessionIsTrue ==
    /\ session = [state |-> session.state, pid |-> session.pid, born |-> session.born,
                  dir |-> session.dir, generation |-> session.generation,
                  source |-> session.source, serial |-> session.serial]
    /\ session.state # "Idle" =>
        truth = [pid |-> session.pid, born |-> session.born] /\ session.pid \in HostPids

TruthIsOld ==
    /\ truth.born \in Nat /\ truth.born <= started
    /\ truth = [pid |-> truth.pid, born |-> truth.born]
    /\ truth.pid \in HostPids \cup {0}
    /\ truth.pid \in HostPids /\ procs[truth.pid].role # "none" =>
        /\ truth.born <= procs[truth.pid].born
        /\ procs[truth.pid].born = truth.born => procs[truth.pid].role \in {"gamescope", "stock"}

ConsumerIsOld ==
    consumer.step = "discover" =>
        /\ consumer.born \in Nat /\ consumer.born <= started /\ consumer.pid \in HostPids
        /\ procs[consumer.pid].role # "none" => consumer.born <= procs[consumer.pid].born
        /\ consumer.pid = truth.pid => consumer.born <= truth.born

IdentityInv ==
    Young /\ SessionIsTrue /\ TruthIsOld /\ ConsumerIsOld /\ Identity!NoStaleIdentity

LEMMA IdentityBegins == Identity!Init => IdentityInv
<1> SUFFICES ASSUME Identity!Init PROVE IdentityInv
  OBVIOUS
<1>1. /\ procs = [p \in HostPids |-> Identity!Free] /\ started = 0
      /\ session = Identity!NoSession /\ truth = [pid |-> 0, born |-> 0]
      /\ consumer = Identity!NoConsumer /\ handed = {}
  BY DEF Identity!Init, Identity!Nobody
<1>2. Young
  BY <1>1 DEF Young, Identity!Free
<1>3. SessionIsTrue
  BY <1>1 DEF SessionIsTrue, Identity!NoSession
<1>4. TruthIsOld
  BY <1>1, ProcessAssumption DEF TruthIsOld
<1>5. ConsumerIsOld
  BY <1>1 DEF ConsumerIsOld, Identity!NoConsumer
<1>6. Identity!NoStaleIdentity
  BY <1>1 DEF Identity!NoStaleIdentity
<1> QED
  BY <1>2, <1>3, <1>4, <1>5, <1>6 DEF IdentityInv

(* Processes end, and perhaps the session and the capture with them.       *)
GoneStep ==
    /\ handed' = {} /\ UNCHANGED started
    /\ DOMAIN procs' = HostPids
    /\ \A p \in HostPids : procs'[p] = procs[p] \/ procs'[p] = Identity!Free
    /\ \/ UNCHANGED <<session, truth>>
       \/ session' = Identity!NoSession /\ truth' = Identity!Nobody
    /\ consumer' = consumer \/ consumer' = Identity!NoConsumer

LEMMA ProcessesEnd == ASSUME IdentityInv, GoneStep PROVE IdentityInv'
<1> USE DEF GoneStep, IdentityInv
<1>1. Young'
  BY DEF Young, Identity!Free
<1>2. SessionIsTrue'
  BY DEF SessionIsTrue, Identity!NoSession
<1>3. TruthIsOld'
  <2>1. CASE UNCHANGED truth
    BY <2>1 DEF TruthIsOld, Identity!Free
  <2>2. CASE truth' = [pid |-> 0, born |-> 0]
    BY <2>2, ProcessAssumption DEF TruthIsOld, Young
  <2> QED
    BY <2>1, <2>2 DEF Identity!Nobody
<1>4. ConsumerIsOld'
  <2>1. CASE consumer' = Identity!NoConsumer
    BY <2>1 DEF ConsumerIsOld, Identity!NoConsumer
  <2>2. CASE consumer' = consumer
    <3> SUFFICES ASSUME consumer.step = "discover" PROVE ConsumerIsOld'
      BY <2>2 DEF ConsumerIsOld
    <3>1. truth' = truth \/ truth'.pid = 0
      BY DEF Identity!Nobody
    <3>2. consumer.pid \in HostPids /\ consumer.pid # 0
      BY ProcessAssumption DEF ConsumerIsOld
    <3> QED
      BY <2>2, <3>1, <3>2 DEF ConsumerIsOld, Identity!Free
  <2> QED
    BY <2>1, <2>2
<1>5. Identity!NoStaleIdentity'
  BY DEF Identity!NoStaleIdentity
<1> QED
  BY <1>1, <1>2, <1>3, <1>4, <1>5

(* A process starts where none was.                                        *)
StartStep(p) ==
    /\ handed' = {} /\ started' = started + 1
    /\ procs[p].role = "none"
    /\ DOMAIN procs' = HostPids
    /\ \A q \in HostPids : q # p => procs'[q] = procs[q]
    /\ procs'[p].born = started + 1

LEMMA ProcessStarts ==
    ASSUME IdentityInv, NEW p \in HostPids, StartStep(p), UNCHANGED <<session, truth, consumer>>
    PROVE  IdentityInv'
<1> USE DEF StartStep, IdentityInv
<1>1. Young'
  BY DEF Young
<1>2. SessionIsTrue'
  BY DEF SessionIsTrue
<1>3. TruthIsOld'
  <2>1. CASE truth.pid = p
    <3>1. procs'[truth.pid].born = started + 1 /\ truth.born < started + 1
      BY <2>1 DEF TruthIsOld, Young
    <3> QED
      BY <3>1 DEF TruthIsOld, Young
  <2>2. CASE truth.pid # p
    BY <2>2 DEF TruthIsOld, Young
  <2> QED
    BY <2>1, <2>2
<1>4. ConsumerIsOld'
  <2> SUFFICES ASSUME consumer.step = "discover" PROVE ConsumerIsOld'
    BY DEF ConsumerIsOld
  <2>1. procs'[consumer.pid].role # "none" => consumer.born <= procs'[consumer.pid].born
    BY DEF ConsumerIsOld, Young
  <2> QED
    BY <2>1 DEF ConsumerIsOld, Young
<1>5. Identity!NoStaleIdentity'
  BY DEF Identity!NoStaleIdentity
<1> QED
  BY <1>1, <1>2, <1>3, <1>4, <1>5

(* The processes stay, and the session is still about the same one.        *)
LEMMA SessionGoesOn ==
    ASSUME IdentityInv, UNCHANGED <<procs, started, truth>>, Identity!NoStaleIdentity',
           consumer' = consumer \/ consumer'.step # "discover",
           UNCHANGED session \/ /\ session.state # "Idle"
                                /\ SessionIsTrue'
    PROVE  IdentityInv'
  BY DEF IdentityInv, Young, SessionIsTrue, TruthIsOld, ConsumerIsOld

LEMMA WithIsStart ==
    ASSUME IdentityInv, NEW p \in HostPids, p \notin Identity!Alive, NEW role, NEW dir,
           NEW group, NEW owner, procs' = Identity!With(p, role, dir, group, owner),
           started' = started + 1, handed' = {}
    PROVE  StartStep(p) /\ procs'[p].role = role
  BY DEF StartStep, IdentityInv, Young, Identity!With, Identity!Alive

LEMMA ProcessesGo ==
    ASSUME IdentityInv,
           \/ \E p \in HostPids : Identity!Die(p) \/ Identity!BootstrapEnds(p) \/ Identity!GamescopeEnds(p)
           \/ Identity!Crash \/ Identity!CleanupTerm \/ Identity!CleanupKill \/ Identity!Stop
    PROVE  IdentityInv'
<1>1. \A S : /\ DOMAIN Identity!Without(S) = HostPids
             /\ \A p \in HostPids : \/ Identity!Without(S)[p] = procs[p]
                                    \/ Identity!Without(S)[p] = Identity!Free
  BY DEF Identity!Without
<1>2. DOMAIN procs = HostPids
  BY DEF IdentityInv, Young
<1>3. /\ handed' = {} /\ UNCHANGED started
      /\ \/ UNCHANGED <<session, truth>>
         \/ session' = Identity!NoSession /\ truth' = Identity!Nobody
      /\ consumer' = consumer \/ consumer' = Identity!NoConsumer
  BY DEF Identity!Die, Identity!BootstrapEnds, Identity!GamescopeEnds, Identity!Crash,
         Identity!CleanupTerm, Identity!CleanupKill, Identity!Stop
<1>4. procs' = procs \/ \E S : procs' = Identity!Without(S)
  BY DEF Identity!Die, Identity!BootstrapEnds, Identity!GamescopeEnds, Identity!Crash,
         Identity!CleanupTerm, Identity!CleanupKill, Identity!Stop, Identity!StopGroup
<1>5. GoneStep
  BY <1>1, <1>2, <1>3, <1>4 DEF GoneStep
<1> QED
  BY <1>5, ProcessesEnd

LEMMA ProcessesCome ==
    ASSUME IdentityInv, NEW p \in HostPids, NEW g \in HostPids,
           \/ Identity!StartOther(p, "other") \/ Identity!StartOther(p, "stock")
           \/ Identity!Serve(p) \/ Identity!Spawn(g, p) \/ Identity!Bootstrap(g, p)
    PROVE  IdentityInv'
<1>1. /\ p \notin Identity!Alive /\ started' = started + 1 /\ handed' = {}
      /\ UNCHANGED <<session, truth, consumer>>
  BY DEF Identity!StartOther, Identity!Serve, Identity!Spawn, Identity!Bootstrap
<1>2. \E role, dir, group, owner : procs' = Identity!With(p, role, dir, group, owner)
  BY DEF Identity!StartOther, Identity!Serve, Identity!Spawn, Identity!Bootstrap
<1>3. StartStep(p)
  BY <1>1, <1>2, WithIsStart
<1> QED
  BY <1>1, <1>3, ProcessStarts

(* The sources that are found are compositors that run. *)
LEMMA SourceRuns ==
    ASSUME NEW s \in Identity!Sources
    PROVE  /\ s.pid \in HostPids /\ s.born = procs[s.pid].born
           /\ procs[s.pid].role \in {"gamescope", "stock"}
  BY DEF Identity!Sources, Identity!Alive

LEMMA OwnedStarts ==
    ASSUME IdentityInv, NEW p \in HostPids, Identity!StartOwned(p)
    PROVE  IdentityInv'
<1> USE DEF IdentityInv
<1>1. CASE UNCHANGED <<procs, started, session, truth>>
  <2>1. handed' = {} /\ UNCHANGED consumer
    BY DEF Identity!StartOwned
  <2> QED
    BY <1>1, <2>1, SessionGoesOn DEF Identity!NoStaleIdentity
<1>2. CASE /\ p \notin Identity!Alive /\ started' = started + 1
           /\ procs' = Identity!With(p, "gamescope", Identity!NewDir, p, Identity!Nobody)
           /\ truth' = [pid |-> p, born |-> started + 1]
           /\ session' = [Identity!NoSession EXCEPT !.state = "WaitingForDisplay", !.pid = p,
                             !.born = started + 1, !.dir = Identity!NewDir,
                             !.generation = launches + 1]
  <2>1. handed' = {} /\ UNCHANGED consumer
    BY DEF Identity!StartOwned
  <2>2. StartStep(p) /\ procs'[p].role = "gamescope"
    BY <1>2, <2>1, WithIsStart
  <2>3. Young'
    BY <2>2 DEF Young, StartStep
  <2>4. SessionIsTrue'
    <3>1. /\ session' = [state |-> session'.state, pid |-> session'.pid, born |-> session'.born,
                         dir |-> session'.dir, generation |-> session'.generation,
                         source |-> session'.source, serial |-> session'.serial]
          /\ session'.pid = p /\ session'.born = started + 1
      BY <1>2 DEF Identity!NoSession
    <3> QED
      BY <1>2, <3>1 DEF SessionIsTrue
  <2>5. TruthIsOld'
    <3>1. truth'.pid = p /\ truth'.born = started + 1 /\ procs'[p].born = started + 1
      BY <1>2, <2>2 DEF StartStep
    <3> QED
      BY <1>2, <2>2, <2>3, <3>1 DEF TruthIsOld, Young
  <2>6. ConsumerIsOld'
    <3> SUFFICES ASSUME consumer.step = "discover" PROVE ConsumerIsOld'
      BY <2>1 DEF ConsumerIsOld
    <3>1. /\ consumer.born \in Nat /\ consumer.born <= started /\ consumer.pid \in HostPids
          /\ procs[consumer.pid].role # "none" => consumer.born <= procs[consumer.pid].born
          /\ started \in Nat /\ started' = started + 1 /\ truth'.born = started + 1
      BY <1>2 DEF ConsumerIsOld, Young
    <3>2. CASE consumer.pid = p
      BY <2>1, <2>2, <3>1, <3>2 DEF ConsumerIsOld, StartStep
    <3>3. CASE consumer.pid # p
      BY <1>2, <2>1, <2>2, <3>1, <3>3 DEF ConsumerIsOld, StartStep
    <3> QED
      BY <3>2, <3>3
  <2>7. Identity!NoStaleIdentity'
    BY <2>1 DEF Identity!NoStaleIdentity
  <2> QED
    BY <2>3, <2>4, <2>5, <2>6, <2>7
<1> QED
  BY <1>1, <1>2 DEF Identity!StartOwned

LEMMA AttachesToOne == ASSUME IdentityInv, Identity!Attach PROVE IdentityInv'
<1> USE DEF IdentityInv
<1>1. UNCHANGED <<procs, started, consumer>> /\ handed' = {}
  BY DEF Identity!Attach
<1>2. PICK s \in Identity!Sources :
        /\ session' = [Identity!NoSession EXCEPT !.state = "Selecting", !.pid = s.pid,
                         !.born = s.born, !.generation = launches + 1,
                         !.source = [pid |-> s.pid, born |-> s.born], !.serial = s.serial]
        /\ truth' = [pid |-> s.pid, born |-> s.born]
  BY DEF Identity!Attach, Identity!Selected
<1>3. /\ s.pid \in HostPids /\ s.born = procs[s.pid].born
      /\ procs[s.pid].role \in {"gamescope", "stock"}
  BY SourceRuns
<1>4. Young'
  BY <1>1 DEF Young
<1>5. SessionIsTrue'
  <2>1. /\ session' = [state |-> session'.state, pid |-> session'.pid, born |-> session'.born,
                       dir |-> session'.dir, generation |-> session'.generation,
                       source |-> session'.source, serial |-> session'.serial]
        /\ session'.pid = s.pid /\ session'.born = s.born
    BY <1>2 DEF Identity!NoSession
  <2> QED
    BY <1>2, <1>3, <2>1 DEF SessionIsTrue
<1>6. TruthIsOld'
  <2>1. truth'.pid = s.pid /\ truth'.born = s.born
    BY <1>2
  <2> QED
    BY <1>1, <1>2, <1>3, <2>1 DEF TruthIsOld, Young
<1>7. ConsumerIsOld'
  <2>1. truth'.pid = s.pid /\ truth'.born = s.born
    BY <1>2
  <2> QED
    BY <1>1, <1>3, <2>1 DEF ConsumerIsOld
<1>8. Identity!NoStaleIdentity'
  BY <1>1 DEF Identity!NoStaleIdentity
<1> QED
  BY <1>4, <1>5, <1>6, <1>7, <1>8

LEMMA EndpointRead ==
    ASSUME IdentityInv, Identity!ReadEndpoint \/ Identity!AttachEndpoint
    PROVE  IdentityInv'
<1>1. UNCHANGED <<procs, started, truth, consumer>> /\ handed' = {}
  BY DEF Identity!ReadEndpoint, Identity!AttachEndpoint
<1>2. ASSUME NEW c, NEW s, \/ s = [session EXCEPT !.state = "WaitingForCapture", !.source = c]
                           \/ s = [session EXCEPT !.state = "WaitingForCapture"]
      PROVE  /\ s = [state |-> s.state, pid |-> s.pid, born |-> s.born, dir |-> s.dir,
                     generation |-> s.generation, source |-> s.source, serial |-> s.serial]
             /\ s.pid = session.pid /\ s.born = session.born
  BY <1>2 DEF IdentityInv, SessionIsTrue
<1>3. /\ session.state # "Idle"
      /\ \E c : \/ session' = [session EXCEPT !.state = "WaitingForCapture", !.source = c]
                \/ session' = [session EXCEPT !.state = "WaitingForCapture"]
  BY DEF Identity!ReadEndpoint, Identity!AttachEndpoint
<1>4. SessionIsTrue'
  <2>1. /\ session' = [state |-> session'.state, pid |-> session'.pid, born |-> session'.born,
                       dir |-> session'.dir, generation |-> session'.generation,
                       source |-> session'.source, serial |-> session'.serial]
        /\ session'.pid = session.pid /\ session'.born = session.born
    BY <1>2, <1>3
  <2> QED
    BY <1>1, <1>3, <2>1 DEF IdentityInv, SessionIsTrue
<1> QED
  BY <1>1, <1>3, <1>4, SessionGoesOn DEF Identity!NoStaleIdentity

(* What is handed out is the compositor of the session. *)
LEMMA EnvironmentAsked == ASSUME IdentityInv, Identity!AskEnvironment PROVE IdentityInv'
<1> USE DEF IdentityInv
<1>1. UNCHANGED <<procs, started, truth, consumer, session>>
  BY DEF Identity!AskEnvironment
<1>2. /\ session.state = "WaitingForCapture"
      /\ session.pid \in Identity!Alive /\ procs[session.pid].born = session.born
      /\ handed' = {[pid |-> session.pid, born |-> session.born]}
  BY DEF Identity!AskEnvironment, Identity!SameProcess, Identity!Identity
<1>3. truth = [pid |-> session.pid, born |-> session.born]
  BY <1>2 DEF SessionIsTrue
<1>4. truth.pid = session.pid /\ truth.born = session.born
  BY <1>3
<1>5. procs[session.pid].role \in {"gamescope", "stock"}
  BY <1>2, <1>4 DEF TruthIsOld, Identity!Alive
<1>6. Identity!NoStaleIdentity'
  BY <1>1, <1>2, <1>3, <1>5 DEF Identity!NoStaleIdentity
<1> QED
  BY <1>1, <1>6, SessionGoesOn

LEMMA ConsumerBegins == ASSUME IdentityInv, Identity!ConsumerStarts PROVE IdentityInv'
<1> USE DEF IdentityInv
<1>1. UNCHANGED <<procs, started, truth, session>> /\ handed' = {}
  BY DEF Identity!ConsumerStarts
<1>2. /\ session.state = "WaitingForCapture"
      /\ consumer'.pid = session.pid /\ consumer'.born = session.born
  BY DEF Identity!ConsumerStarts
<1>3. truth.pid = session.pid /\ truth.born = session.born /\ session.pid \in HostPids
  BY <1>2 DEF SessionIsTrue
<1>4. ConsumerIsOld'
  BY <1>1, <1>2, <1>3 DEF ConsumerIsOld, TruthIsOld
<1>5. Young' /\ SessionIsTrue' /\ TruthIsOld' /\ Identity!NoStaleIdentity'
  BY <1>1 DEF Young, SessionIsTrue, TruthIsOld, Identity!NoStaleIdentity
<1> QED
  BY <1>4, <1>5

LEMMA ConsumerEnds == ASSUME IdentityInv, Identity!ConsumerOpens PROVE IdentityInv'
<1> USE DEF IdentityInv
<1>1. /\ UNCHANGED <<procs, started, truth>> /\ consumer'.step # "discover"
      /\ consumer.step = "discover"
  BY DEF Identity!ConsumerOpens, Identity!NoConsumer
<1>2. CASE handed' = {} /\ UNCHANGED session
  BY <1>1, <1>2, SessionGoesOn DEF Identity!NoStaleIdentity
<1>3. ASSUME NEW s \in Identity!Match,
             handed' = {[pid |-> s.pid, born |-> s.born]},
             session' = IF session.state = "WaitingForCapture" /\ s.pid = session.pid
                        THEN [session EXCEPT !.serial = s.serial] ELSE session
      PROVE  IdentityInv'
  <2>1. s \in Identity!Sources /\ s.pid = consumer.pid /\ s.born = consumer.born
    BY DEF Identity!Match
  <2>2. /\ s.pid \in HostPids /\ s.born = procs[s.pid].born
        /\ procs[s.pid].role \in {"gamescope", "stock"}
    BY <2>1, SourceRuns
  <2>3. s.pid = truth.pid => s.born = truth.born
    <3> SUFFICES ASSUME s.pid = truth.pid PROVE s.born = truth.born
      OBVIOUS
    <3>1. truth.born <= s.born /\ s.born <= truth.born
      BY <1>1, <2>1, <2>2 DEF TruthIsOld, ConsumerIsOld
    <3> QED
      BY <2>2, <3>1 DEF TruthIsOld, Young
  <2>4. s.pid = truth.pid => [pid |-> s.pid, born |-> s.born] = truth
    BY <2>3 DEF TruthIsOld
  <2>5. Identity!NoStaleIdentity'
    BY <1>1, <1>3, <2>2, <2>4 DEF Identity!NoStaleIdentity
  <2>6. CASE UNCHANGED session
    BY <1>1, <2>5, <2>6, SessionGoesOn
  <2>7. CASE session.state = "WaitingForCapture" /\ session' = [session EXCEPT !.serial = s.serial]
    <3>1. SessionIsTrue'
      BY <1>1, <2>7 DEF SessionIsTrue
    <3> QED
      BY <1>1, <2>5, <2>7, <3>1, SessionGoesOn
  <2> QED
    BY <1>3, <2>6, <2>7
<1> QED
  BY <1>2, <1>3 DEF Identity!ConsumerOpens

LEMMA IdentityKept == ASSUME IdentityInv, Identity!Next PROVE IdentityInv'
<1>1. CASE Identity!CleanupNext \/ \E p \in HostPids : Identity!Publish(p)
  <2>1. UNCHANGED <<procs, started, session, truth, consumer>> /\ handed' = {}
    BY <1>1 DEF Identity!CleanupNext, Identity!Publish
  <2> QED
    BY <2>1, SessionGoesOn DEF Identity!NoStaleIdentity
<1>2. CASE \E n \in nodes : Identity!Unpublish(n)
  <2>1. UNCHANGED <<procs, started, session, truth, consumer>> /\ handed' = {}
    BY <1>2 DEF Identity!Unpublish
  <2> QED
    BY <2>1, SessionGoesOn DEF Identity!NoStaleIdentity
<1> QED
  BY <1>1, <1>2, ProcessesGo, ProcessesCome, OwnedStarts, AttachesToOne, EndpointRead,
     EnvironmentAsked, ConsumerBegins, ConsumerEnds DEF Identity!Next

LEMMA IdentityIsFresh == IdentityInv => Identity!NoStaleIdentity
  BY DEF IdentityInv
-----------------------------------------------------------------------------
(* DisplaySettings, for the two sets of options MCHost has.  While nothing *)
(* uses the displays, they are put back or nothing is left to be put back. *)
Settled == task.kind = "revert" \/ (task.kind = "none" /\ (displays = {} \/ saved = FALSE))

DisplayTypes == up \in BOOLEAN /\ app \in BOOLEAN /\ streams \in Nat

DisplayInv ==
    /\ DisplayTypes
    /\ up = TRUE /\ streams = 0 /\ app = FALSE /\ request # "launch" => Settled

LEMMA DisplayOutcomes ==
    ASSUME NEW t, NEW d, NEW s
    PROVE  /\ Display!Outcome(t, d, s).task = t /\ Display!Outcome(t, d, s).displays = d
           /\ Display!Outcome(t, d, s).saved = s
           /\ Display!RevertTask(t).kind = "revert" /\ Display!RevertTask(t).config = {}
           /\ Display!NoTask.kind = "none" /\ Display!NoTask.config = {}
           /\ Display!ApplyTask(t).config = t
  BY DEF Display!Outcome, Display!RevertTask, Display!ApplyTask, Display!NoTask

(* A revert stays scheduled, or is over and nothing is left to be put back. *)
LEMMA DisplayReverts ==
    ASSUME NEW t, Display!Becomes(Display!Revert(t))
    PROVE  /\ task'.kind = "revert" \/ (task'.kind = "none" /\ saved' = FALSE)
           /\ task'.config = {} /\ displays' \in {displays, {}}
<1>1. PICK o \in Display!Revert(t) : task' = o.task /\ displays' = o.displays /\ saved' = o.saved
  BY DEF Display!Becomes
<1>2. \/ \E x : o = Display!Outcome(Display!RevertTask(x), displays, saved)
      \/ \E d \in {{}, displays} : o = Display!Outcome(Display!NoTask, d, FALSE)
  BY <1>1 DEF Display!Revert
<1>3. ASSUME NEW x, o = Display!Outcome(Display!RevertTask(x), displays, saved)
      PROVE  o.task.kind = "revert" /\ o.task.config = {} /\ o.displays = displays
  BY <1>3, DisplayOutcomes
<1>4. ASSUME NEW d, o = Display!Outcome(Display!NoTask, d, FALSE)
      PROVE  /\ o.task.kind = "none" /\ o.task.config = {} /\ o.displays = d
             /\ o.saved = FALSE
  <2>1. /\ Display!Outcome(Display!NoTask, d, FALSE).task = Display!NoTask
        /\ Display!Outcome(Display!NoTask, d, FALSE).displays = d
        /\ Display!Outcome(Display!NoTask, d, FALSE).saved = FALSE
    BY DEF Display!Outcome
  <2> QED
    BY <1>4, <2>1, DisplayOutcomes
<1> QED
  BY <1>1, <1>2, <1>3, <1>4

LEMMA DisplaySchedules ==
    ASSUME Display!ScheduleRevert
    PROVE  /\ task'.kind = "revert" \/ (task'.kind = "none" /\ saved' = FALSE)
           /\ task'.config = {} /\ displays' \in {displays, {}}
<1>1. CASE video.delay
  <2> DEFINE o == Display!Outcome(Display!RevertTask({}), displays, saved)
  <2>1. task' = o.task /\ displays' = o.displays
    BY <1>1 DEF Display!ScheduleRevert, Display!Becomes
  <2>2. o.task = Display!RevertTask({}) /\ o.displays = displays
    BY DEF Display!Outcome
  <2> HIDE DEF o
  <2> QED
    BY <2>1, <2>2, DisplayOutcomes
<1>2. CASE ~video.delay
  <2>1. Display!Becomes(Display!Revert({}))
    BY <1>2 DEF Display!ScheduleRevert
  <2> QED
    BY <2>1, DisplayReverts
<1> QED
  BY <1>1, <1>2

LEMMA ParseOutcomes ==
    ASSUME NEW t, NEW d, NEW s
    PROVE  /\ Parse!Outcome(t, d, s).task = t /\ Parse!Outcome(t, d, s).displays = d
           /\ Parse!Outcome(t, d, s).saved = s
           /\ Parse!RevertTask(t).kind = "revert" /\ Parse!RevertTask(t).config = {}
           /\ Parse!NoTask.kind = "none" /\ Parse!NoTask.config = {}
           /\ Parse!ApplyTask(t).config = t
  BY DEF Parse!Outcome, Parse!RevertTask, Parse!ApplyTask, Parse!NoTask

(* A revert stays scheduled, or is over and nothing is left to be put back. *)
LEMMA ParseReverts ==
    ASSUME NEW t, Parse!Becomes(Parse!Revert(t))
    PROVE  /\ task'.kind = "revert" \/ (task'.kind = "none" /\ saved' = FALSE)
           /\ task'.config = {} /\ displays' \in {displays, {}}
<1>1. PICK o \in Parse!Revert(t) : task' = o.task /\ displays' = o.displays /\ saved' = o.saved
  BY DEF Parse!Becomes
<1>2. \/ \E x : o = Parse!Outcome(Parse!RevertTask(x), displays, saved)
      \/ \E d \in {{}, displays} : o = Parse!Outcome(Parse!NoTask, d, FALSE)
  BY <1>1 DEF Parse!Revert
<1>3. ASSUME NEW x, o = Parse!Outcome(Parse!RevertTask(x), displays, saved)
      PROVE  o.task.kind = "revert" /\ o.task.config = {} /\ o.displays = displays
  BY <1>3, ParseOutcomes
<1>4. ASSUME NEW d, o = Parse!Outcome(Parse!NoTask, d, FALSE)
      PROVE  /\ o.task.kind = "none" /\ o.task.config = {} /\ o.displays = d
             /\ o.saved = FALSE
  <2>1. /\ Parse!Outcome(Parse!NoTask, d, FALSE).task = Parse!NoTask
        /\ Parse!Outcome(Parse!NoTask, d, FALSE).displays = d
        /\ Parse!Outcome(Parse!NoTask, d, FALSE).saved = FALSE
    BY DEF Parse!Outcome
  <2> QED
    BY <1>4, <2>1, ParseOutcomes
<1> QED
  BY <1>1, <1>2, <1>3, <1>4

LEMMA ParseSchedules ==
    ASSUME Parse!ScheduleRevert
    PROVE  /\ task'.kind = "revert" \/ (task'.kind = "none" /\ saved' = FALSE)
           /\ task'.config = {} /\ displays' \in {displays, {}}
<1>1. CASE video.delay
  <2> DEFINE o == Parse!Outcome(Parse!RevertTask({}), displays, saved)
  <2>1. task' = o.task /\ displays' = o.displays
    BY <1>1 DEF Parse!ScheduleRevert, Parse!Becomes
  <2>2. o.task = Parse!RevertTask({}) /\ o.displays = displays
    BY DEF Parse!Outcome
  <2> HIDE DEF o
  <2> QED
    BY <2>1, <2>2, ParseOutcomes
<1>2. CASE ~video.delay
  <2>1. Parse!Becomes(Parse!Revert({}))
    BY <1>2 DEF Parse!ScheduleRevert
  <2> QED
    BY <2>1, ParseReverts
<1> QED
  BY <1>1, <1>2

LEMMA RevertSettles ==
    ASSUME \/ Display!ScheduleRevert \/ \E t : Display!Becomes(Display!Revert(t))
           \/ Parse!ScheduleRevert \/ \E t : Parse!Becomes(Parse!Revert(t))
    PROVE  Settled'
  BY DisplayReverts, DisplaySchedules, ParseReverts, ParseSchedules DEF Settled

LEMMA DisplayBegins == Display!Init \/ Parse!Init => DisplayInv
<1> SUFFICES ASSUME Display!Init \/ Parse!Init PROVE DisplayInv
  OBVIOUS
<1>1. /\ up = TRUE /\ app = FALSE /\ streams = 0 /\ displays = {}
      /\ task = Display!NoTask \/ task = Parse!NoTask
  BY DEF Display!Init, Parse!Init
<1>2. task.kind = "none"
  BY <1>1, DisplayOutcomes, ParseOutcomes
<1> QED
  BY <1>1, <1>2 DEF DisplayInv, DisplayTypes, Settled

LEMMA DisplayKept == ASSUME DisplayInv, Display!Next \/ Parse!Next PROVE DisplayInv'
<1>0. DisplayTypes
  BY DEF DisplayInv
<1>1. ASSUME NEW c, \/ Display!Launch(c) \/ Display!Resume(c)
                    \/ Parse!Launch(c) \/ Parse!Resume(c)
      PROVE  DisplayInv'
  <2>1. /\ UNCHANGED <<up, app, streams>>
        /\ request' = "launch" \/ app # FALSE
    BY <1>1 DEF Display!Launch, Display!Resume, Parse!Launch, Parse!Resume
  <2> QED
    BY <1>0, <2>1 DEF DisplayInv, DisplayTypes
<1>2. CASE Display!RequestFails \/ Parse!RequestFails
  <2>1. UNCHANGED <<up, app, streams>> /\ request' # "launch"
    BY <1>2 DEF Display!RequestFails, Parse!RequestFails
  <2>2. CASE request = "launch" /\ streams = 0
    BY <1>0, <1>2, <2>1, <2>2, RevertSettles
       DEF Display!RequestFails, Parse!RequestFails, DisplayInv, DisplayTypes
  <2>3. CASE ~(request = "launch" /\ streams = 0)
    <3>1. UNCHANGED <<task, displays, saved>>
      BY <1>2, <2>3 DEF Display!RequestFails, Parse!RequestFails
    <3> QED
      BY <1>0, <2>1, <2>3, <3>1 DEF DisplayInv, DisplayTypes, Settled
  <2> QED
    BY <2>2, <2>3
<1>3. CASE Display!RequestDone \/ Parse!RequestDone
  <2>1. /\ UNCHANGED <<up, streams, task, displays, saved>>
        /\ app' \in BOOLEAN
    BY <1>0, <1>3 DEF Display!RequestDone, Parse!RequestDone, DisplayTypes
  <2>2. app' = FALSE => app = FALSE /\ request # "launch"
    BY <1>0, <1>3 DEF Display!RequestDone, Parse!RequestDone, DisplayTypes
  <2> QED
    BY <1>0, <2>1, <2>2 DEF DisplayInv, DisplayTypes, Settled
<1>4. CASE Display!Connect \/ Parse!Connect
  <2>1. UNCHANGED <<up, app>> /\ streams' = streams + 1
    BY <1>4 DEF Display!Connect, Parse!Connect
  <2> QED
    BY <1>0, <2>1 DEF DisplayInv, DisplayTypes
<1>5. CASE Display!ConnectTimeout \/ Parse!ConnectTimeout
  BY <1>5 DEF Display!ConnectTimeout, Parse!ConnectTimeout, DisplayInv, DisplayTypes, Settled
<1>6. CASE Display!Disconnect \/ Parse!Disconnect
  <2>1. UNCHANGED <<up, app, request>> /\ streams > 0 /\ streams' = streams - 1
    BY <1>6 DEF Display!Disconnect, Parse!Disconnect
  <2>2. streams = 1 /\ app = FALSE => Settled'
    BY <1>6, RevertSettles DEF Display!Disconnect, Parse!Disconnect
  <2> QED
    BY <1>0, <2>1, <2>2 DEF DisplayInv, DisplayTypes
<1>7. CASE \/ Display!AppEnds \/ Display!Cancel
           \/ Parse!AppEnds \/ Parse!Cancel
  <2>1. up' = up /\ app' = FALSE /\ (streams' = 0 \/ streams' = streams)
    BY <1>7 DEF Display!AppEnds, Display!Cancel, Parse!AppEnds, Parse!Cancel
  <2>2. Settled'
    BY <1>7, RevertSettles DEF Display!AppEnds, Display!Cancel, Parse!AppEnds, Parse!Cancel
  <2> QED
    <3>1. DisplayTypes'
      <4>1. up' \in BOOLEAN /\ app' \in BOOLEAN
        BY <1>0, <2>1, Zenon DEF DisplayTypes
      <4>2. streams' \in Nat
        BY <1>0, <2>1 DEF DisplayTypes
      <4> QED
        BY <4>1, <4>2 DEF DisplayTypes
    <3> QED
      BY <2>2, <3>1 DEF DisplayInv
<1>8. CASE Display!ResetPersistence \/ Parse!ResetPersistence
  BY <1>8 DEF Display!ResetPersistence, Parse!ResetPersistence, Display!NoTask,
              Parse!NoTask, DisplayInv, DisplayTypes, Settled
<1>9. CASE Display!Stop \/ Parse!Stop
  <2>1. up' = FALSE /\ app' = FALSE /\ streams' = 0
    BY <1>9 DEF Display!Stop, Parse!Stop
  <2> QED
    BY <2>1 DEF DisplayInv, DisplayTypes
<1>10. CASE Display!InitModule \/ Parse!InitModule
  <2>1. UNCHANGED <<app, streams>> /\ up' = TRUE
    BY <1>10 DEF Display!InitModule, Parse!InitModule
  <2>2. Settled'
    BY <1>10, RevertSettles DEF Display!InitModule, Parse!InitModule
  <2> QED
    BY <1>0, <2>1, <2>2 DEF DisplayInv, DisplayTypes
<1>11. CASE Display!HostChanges \/ Parse!HostChanges
  BY <1>11 DEF Display!HostChanges, Parse!HostChanges, DisplayInv, DisplayTypes, Settled
<1>12. CASE Display!Tick \/ Parse!Tick
  <2>1. UNCHANGED <<up, app, streams, request>> /\ task.kind # "none"
    BY <1>12 DEF Display!Tick, Parse!Tick
  <2>2. task.kind = "revert" => Settled'
    BY <1>12, RevertSettles DEF Display!Tick, Parse!Tick
  <2> QED
    BY <1>0, <2>1, <2>2 DEF DisplayInv, DisplayTypes, Settled
<1>13. CASE Display!Next
  BY <1>1, <1>2, <1>3, <1>4, <1>5, <1>6, <1>7, <1>8, <1>9, <1>10, <1>11, <1>12, <1>13
     DEF Display!Next
<1>14. CASE Parse!Next
  BY <1>1, <1>2, <1>3, <1>4, <1>5, <1>6, <1>7, <1>8, <1>9, <1>10, <1>11, <1>12, <1>14
     DEF Parse!Next
<1> QED
  BY <1>13, <1>14

LEMMA DisplayReverted == DisplayInv => Display!UnusedIsReverted
<1> SUFFICES ASSUME DisplayInv, up, streams = 0, ~app, request = "none",
                    displays # {}, saved
             PROVE  task.kind = "revert"
  BY DEF Display!UnusedIsReverted
<1>1. up = TRUE /\ app = FALSE
  BY DEF DisplayInv, DisplayTypes
<1>2. Settled
  BY <1>1 DEF DisplayInv
<1> QED
  BY <1>2 DEF Settled

-----------------------------------------------------------------------------
(* What is parsed of a request, and with it the displays and the task,     *)
(* leaves the resolution alone unless the client gave it away.             *)
Plain(config) == config.sops = TRUE \/ config.resolution = "none"

ModeInv ==
    /\ video \in ParseConfigs
    /\ \A config \in displays : Plain(config)
    /\ \A config \in task.config : Plain(config)

LEMMA RemapsPlainly ==
    ASSUME video \in ParseConfigs, NEW c \in AnyClients, c.sops = FALSE,
           NEW mode, mode = [resolution |-> "none", rate |-> mode.rate],
           Parse!Remap(c, mode).resolution # "fail"
    PROVE  Parse!Remap(c, mode).resolution = "none"
<1> DEFINE list == IF Parse!MapsResolution \/ Parse!MapsRate
                   THEN [i \in DOMAIN video.remap |-> Parse!Entry(video.remap[i])] ELSE << >>
           stops == {i \in DOMAIN list :
                        Parse!Broken(list[i]) \/ ~Parse!Skipped(list[i], c, mode)}
           least == CHOOSE i \in stops : \A j \in stops : i <= j
           stop == list[least]
<1>1. DOMAIN list \in SUBSET Nat
  <2>1. PICK n \in 0 .. MaxRemaps : video.remap \in [1 .. n -> RemapEntries]
    BY DEF ParseConfigs
  <2>2. DOMAIN video.remap = 1 .. n /\ n \in Nat
    BY <2>1, RemapAssumption
  <2> QED
    BY <2>2
<1>2. stops \in SUBSET Nat
  BY <1>1
<1>3. stops # {} => least \in stops
  <2> HIDE DEF stops
  <2> QED
    BY <1>2, LeastNatural
<1>4. Parse!Remap(c, mode) =
        IF stops = {} THEN mode
        ELSE IF Parse!Broken(stop) THEN [mode EXCEPT !.resolution = "fail"]
        ELSE [resolution |-> IF stop.resolution # "none" THEN stop.resolution ELSE mode.resolution,
              rate       |-> IF stop.rate # "none" THEN stop.rate ELSE mode.rate]
  BY DEF Parse!Remap
<1>5. stops # {} /\ ~Parse!Broken(stop) => ~Parse!Skipped(stop, c, mode)
  BY <1>3
<1> HIDE DEF stops, least, stop
<1>6. CASE stops = {}
  BY <1>4, <1>6
<1>7. CASE stops # {} /\ Parse!Broken(stop)
  BY <1>4, <1>7
<1>8. CASE stops # {} /\ ~Parse!Broken(stop)
  <2>1. stop.resolution = "none"
    BY <1>5, <1>8 DEF Parse!Skipped
  <2> QED
    BY <1>4, <1>8, <2>1
<1> QED
  BY <1>6, <1>7, <1>8

LEMMA ParsesPlainly ==
    ASSUME video \in ParseConfigs, NEW c \in AnyClients, NEW config \in Parse!Parse(c)
    PROVE  Plain(config)
<1> DEFINE mode == [resolution |-> Parse!ParseResolution(c), rate |-> Parse!ParseRate(c)]
           mapped == Parse!Remap(c, mode)
<1>1. /\ mapped.resolution # "fail"
      /\ config = [resolution |-> mapped.resolution, rate |-> mapped.rate, sops |-> c.sops]
  BY DEF Parse!Parse
<1>2. CASE c.sops = TRUE
  BY <1>1, <1>2 DEF Plain
<1>3. CASE c.sops = FALSE
  <2>0. ~c.sops
    BY <1>3
  <2>1. Parse!ParseResolution(c) = "none"
    BY <2>0 DEF Parse!ParseResolution
  <2>2. mode = [resolution |-> "none", rate |-> mode.rate]
    BY <2>1
  <2> HIDE DEF mode
  <2>3. mapped.resolution = "none"
    BY <1>1, <1>3, <2>2, RemapsPlainly
  <2> QED
    BY <1>1, <2>3 DEF Plain
<1> QED
  BY <1>2, <1>3 DEF AnyClients

LEMMA ModeBegins == Parse!Init => ModeInv
  BY DEF Parse!Init, Parse!NoTask, ModeInv

LEMMA RevertIsPlain ==
    ASSUME ModeInv, UNCHANGED video,
           Parse!ScheduleRevert \/ \E t : Parse!Becomes(Parse!Revert(t))
    PROVE  ModeInv'
<1>1. task'.config = {} /\ displays' \in {displays, {}}
  BY ParseReverts, ParseSchedules
<1> QED
  BY <1>1 DEF ModeInv

LEMMA ApplyIsPlain ==
    ASSUME ModeInv, UNCHANGED video, NEW cs, \A config \in cs : Plain(config),
           Parse!Becomes(Parse!Apply(cs))
    PROVE  ModeInv'
<1>1. PICK o \in Parse!Apply(cs) : task' = o.task /\ displays' = o.displays
  BY DEF Parse!Becomes
<1>2. \/ o = Parse!Outcome(Parse!ApplyTask(cs), displays, saved)
      \/ o = Parse!Outcome(Parse!NoTask, cs, TRUE)
      \/ o = Parse!Outcome(Parse!NoTask, displays, saved)
  BY DEF Parse!Apply
<1>3. o.task.config \in {{}, cs} /\ o.displays \in {displays, cs}
  <2>1. \/ o.task = Parse!ApplyTask(cs) /\ o.displays = displays
        \/ o.task = Parse!NoTask /\ o.displays \in {displays, cs}
    BY <1>2 DEF Parse!Outcome
  <2> QED
    BY <2>1, ParseOutcomes
<1> QED
  BY <1>1, <1>3 DEF ModeInv

LEMMA ModeKept == ASSUME ModeInv, Parse!Next PROVE ModeInv'
<1>1. ASSUME NEW c \in AnyClients, Parse!Launch(c) \/ Parse!Resume(c)
      PROVE  ModeInv'
  <2>1. UNCHANGED video /\ (Parse!Configure(c) \/ UNCHANGED <<task, displays, saved>>)
    BY <1>1 DEF Parse!Launch, Parse!Resume
  <2>2. \A config \in Parse!Parse(c) : Plain(config)
    BY ParsesPlainly DEF ModeInv
  <2>3. CASE UNCHANGED <<task, displays, saved>>
    BY <2>1, <2>3 DEF ModeInv
  <2>4. CASE Parse!Configure(c)
    BY <2>1, <2>2, <2>3, <2>4, RevertIsPlain, ApplyIsPlain DEF Parse!Configure
  <2> QED
    BY <2>1, <2>3, <2>4
<1>2. CASE \/ Parse!RequestDone \/ Parse!Connect \/ Parse!ConnectTimeout \/ Parse!HostChanges
  BY <1>2 DEF Parse!RequestDone, Parse!Connect, Parse!ConnectTimeout, Parse!HostChanges,
              ModeInv
<1>3. CASE \/ Parse!RequestFails \/ Parse!Disconnect \/ Parse!AppEnds \/ Parse!Cancel
           \/ Parse!InitModule
  <2>1. /\ UNCHANGED video
        /\ \/ Parse!ScheduleRevert
           \/ Parse!Becomes(Parse!Revert({}))
           \/ UNCHANGED <<task, displays, saved>>
    BY <1>3 DEF Parse!RequestFails, Parse!Disconnect, Parse!AppEnds, Parse!Cancel,
                Parse!InitModule
  <2>2. CASE UNCHANGED <<task, displays, saved>>
    BY <2>1, <2>2 DEF ModeInv
  <2> QED
    BY <2>1, <2>2, RevertIsPlain
<1>4. CASE Parse!ResetPersistence \/ Parse!Stop
  <2>1. /\ UNCHANGED video /\ task' = Parse!NoTask
        /\ displays' = displays \/ displays' = {}
    BY <1>4 DEF Parse!ResetPersistence, Parse!Stop, Parse!RevertOnce
  <2> QED
    BY <2>1 DEF Parse!NoTask, ModeInv
<1>5. CASE Parse!Tick
  BY <1>5, RevertIsPlain, ApplyIsPlain DEF Parse!Tick, ModeInv
<1> QED
  BY <1>1, <1>2, <1>3, <1>4, <1>5 DEF Parse!Next

LEMMA ModesArePlain == ModeInv => Parse!NoModeWithoutSops
  BY DEF ModeInv, Plain, Parse!NoModeWithoutSops

-----------------------------------------------------------------------------
(* HostLifecycle.  While main() hands its capabilities out, the pool does  *)
(* not run and each thread has what the last step left it.                 *)
Early == {"start", "drm", "dropAdmin", "egl", "dropNice"}

Whole == {"admin", "nice"}

CapsAre(main, drm, egl) ==
    caps = [t \in {"main", "drm", "egl"} \cup HostServices |->
                IF t = "main" THEN main ELSE IF t = "drm" THEN drm
                ELSE IF t = "egl" THEN egl ELSE {}]

CapsInv ==
    /\ bootPc \in {"start", "drm"} => CapsAre({}, {}, {}) \/ CapsAre(Whole, {}, {})
    /\ bootPc = "dropAdmin" => CapsAre({}, {}, {}) \/ CapsAre(Whole, Whole, {})
    /\ bootPc = "egl" => CapsAre({}, {}, {}) \/ CapsAre({"nice"}, Whole, {})
    /\ bootPc = "dropNice" => CapsAre({}, {}, {}) \/ CapsAre({"nice"}, Whole, {"nice"})

BootInv ==
    /\ DOMAIN caps = {"main", "drm", "egl"} \cup HostServices
    /\ CapsInv
    /\ bootPc \in Early => pool = "none"
    /\ Boot!PrivilegesArePlaced

LEMMA BootBegins == Boot!Init => BootInv
<1> SUFFICES ASSUME Boot!Init PROVE BootInv
  OBVIOUS
<1>1. /\ bootPc = "start" /\ pool = "none"
      /\ \E c \in {{}, Whole} :
            caps = [t \in {"main", "drm", "egl"} \cup HostServices |-> IF t = "main" THEN c ELSE {}]
  BY DEF Boot!Init, Boot!Capabilities, Whole
<1>2. CapsAre({}, {}, {}) \/ CapsAre(Whole, {}, {})
  BY <1>1 DEF CapsAre
<1> QED
  BY <1>1, <1>2 DEF BootInv, CapsInv, Boot!PrivilegesArePlaced, Early

LEMMA CapsHandedOut ==
    ASSUME BootInv, Boot!Privileges
    PROVE  /\ DOMAIN caps' = {"main", "drm", "egl"} \cup HostServices
           /\ CapsInv' /\ Boot!PrivilegesArePlaced'
<1> USE ThreadAssumption DEF Whole, Boot!Go
<1>1. CASE bootPc = "drm" /\ bootPc' = "dropAdmin" /\ Boot!Inherit({"drm"})
  <2>1. CapsAre({}, {}, {}) \/ CapsAre(Whole, {}, {})
    BY <1>1 DEF BootInv, CapsInv
  <2>2. (CapsAre({}, {}, {}) \/ CapsAre(Whole, Whole, {}))'
    BY <1>1, <2>1 DEF CapsAre, Boot!Inherit
  <2> QED
    BY <1>1, <2>2 DEF CapsInv, CapsAre, Boot!PrivilegesArePlaced
<1>2. CASE bootPc = "dropAdmin" /\ bootPc' = "egl" /\ Boot!Drop(FALSE)
  <2>1. CapsAre({}, {}, {}) \/ CapsAre(Whole, Whole, {})
    BY <1>2 DEF BootInv, CapsInv
  <2>2. caps' = [caps EXCEPT !["main"] = @ \ {"admin"}]
    BY <1>2 DEF Boot!Drop
  <2>3. Whole \ {"admin"} = {"nice"} /\ {} \ {"admin"} = {}
    OBVIOUS
  <2>4. (CapsAre({}, {}, {}) \/ CapsAre({"nice"}, Whole, {}))'
    BY <2>1, <2>2, <2>3 DEF CapsAre
  <2> QED
    BY <1>2, <2>4 DEF CapsInv, CapsAre, Boot!PrivilegesArePlaced
<1>3. CASE bootPc = "egl" /\ bootPc' = "dropNice" /\ Boot!Inherit({"egl"})
  <2>1. CapsAre({}, {}, {}) \/ CapsAre({"nice"}, Whole, {})
    BY <1>3 DEF BootInv, CapsInv
  <2>2. (CapsAre({}, {}, {}) \/ CapsAre({"nice"}, Whole, {"nice"}))'
    BY <1>3, <2>1 DEF CapsAre, Boot!Inherit
  <2> QED
    BY <1>3, <2>2 DEF CapsInv, CapsAre, Boot!PrivilegesArePlaced
<1>4. CASE bootPc = "dropNice" /\ bootPc' = "config" /\ Boot!Drop(TRUE)
  <2>1. CapsAre({}, {}, {}) \/ CapsAre({"nice"}, Whole, {"nice"})
    BY <1>4 DEF BootInv, CapsInv
  <2>2. caps' = [caps EXCEPT !["main"] = @ \ Whole]
    BY <1>4 DEF Boot!Drop, Boot!Capabilities
  <2>3. {"nice"} \ Whole = {} /\ {} \ Whole = {}
    OBVIOUS
  <2>4. (CapsAre({}, {}, {}) \/ CapsAre({}, Whole, {"nice"}))'
    BY <2>1, <2>2, <2>3 DEF CapsAre
  <2> QED
    BY <1>4, <2>4 DEF CapsInv, CapsAre, Boot!PrivilegesArePlaced
<1> QED
  BY <1>1, <1>2, <1>3, <1>4 DEF Boot!Privileges

(* Every other step leaves the capabilities alone, but for the threads     *)
(* that main() starts after it gave its own up.                            *)
LEMMA BootSteps ==
    ASSUME Boot!Next
    PROVE  \/ Boot!Privileges /\ UNCHANGED pool
           \/ UNCHANGED <<caps, pool, bootPc>>
           \/ bootPc = "start" /\ bootPc' = "drm" /\ UNCHANGED <<caps, pool>>
           \/ bootPc = "start" /\ bootPc' = "exited" /\ UNCHANGED <<caps, pool>>
           \/ bootPc' \notin Early /\ bootPc \notin Early \cup {"threads"} /\ UNCHANGED caps
           \/ pool = "running" /\ bootPc' \notin Early /\ UNCHANGED caps
           \/ bootPc = "threads" /\ bootPc' \notin Early /\ Boot!Inherit(HostServices)
<1> USE DEF Early
<1>1. CASE Boot!Privileges
  BY <1>1 DEF Boot!Privileges
<1>2. CASE Boot!Sanitize
  BY <1>2 DEF Boot!Sanitize, Boot!threadVars
<1>3. CASE Boot!ReadConfig \/ Boot!RunCommand \/ Boot!InitHttp \/ Boot!PeekShutdown
  BY <1>3 DEF Boot!ReadConfig, Boot!RunCommand, Boot!InitHttp, Boot!PeekShutdown, Boot!Return,
              Boot!threadVars
<1>4. CASE Boot!Recover \/ Boot!StartPool \/ Boot!StartTray \/ Boot!LeaveLoop
           \/ Boot!JoinThreads \/ Boot!StopPool
  BY <1>4 DEF Boot!Recover, Boot!StartPool, Boot!StartTray, Boot!LeaveLoop,
              Boot!JoinThreads, Boot!StopPool, Boot!Go, Boot!Return, Boot!threadVars
<1>5. CASE Boot!Publish \/ Boot!Unwind
  BY <1>5 DEF Boot!Publish, Boot!Unwind, Boot!threadVars
<1>6. CASE Boot!StartThreads
  BY <1>6 DEF Boot!StartThreads, Boot!Go
<1>7. CASE Boot!LoseTray \/ Boot!ExitSunshine \/ Boot!Terminate \/ Boot!AskShutdown
  BY <1>7 DEF Boot!LoseTray, Boot!ExitSunshine, Boot!Terminate, Boot!AskShutdown
<1>8. CASE Boot!ForceShutdown
  BY <1>8 DEF Boot!ForceShutdown, Boot!threadVars
<1>9. ASSUME NEW s \in Boot!Signals, Boot!Handler(s)
      PROVE  UNCHANGED <<caps, pool, bootPc>>
  BY <1>9 DEF Boot!Handler, Boot!PushWatchdog, Boot!RaiseShutdown, Boot!EndTray,
              Boot!ReadGuard, Boot!DropGuard, Boot!HandlerStep
<1>10. ASSUME NEW t \in HostServices,
              Boot!Serve(t) \/ Boot!ServiceEnds(t) \/ Boot!ServiceHangs(t)
       PROVE  UNCHANGED <<caps, pool, bootPc>>
  BY <1>10 DEF Boot!Serve, Boot!ServiceEnds, Boot!ServiceHangs
<1>11. CASE Boot!Upnp \/ Boot!RouterForgets
  <2>1. Boot!UpnpStep
    BY <1>11 DEF Boot!Upnp, Boot!Discover, Boot!MapPort, Boot!MapDone, Boot!Refresh,
                 Boot!Unmap, Boot!RouterForgets
  <2> QED
    BY <2>1 DEF Boot!UpnpStep, Boot!threadVars
<1>12. CASE Boot!Mdns
  <2>1. Boot!MdnsStep
    BY <1>12 DEF Boot!Mdns, Boot!ClientCallback, Boot!EntryGroupCallback, Boot!PollThreadEnds
  <2> QED
    BY <2>1 DEF Boot!MdnsStep, Boot!threadVars
<1>13. CASE Boot!Sources
  <2>1. Boot!SourceStep
    BY <1>13 DEF Boot!Sources, Boot!ProbeSources, Boot!RefreshCaptureEnvironment,
                 Boot!DisplayNames, Boot!Display, Boot!HostChanges
  <2> QED
    BY <2>1 DEF Boot!SourceStep, Boot!threadVars
<1>14. CASE Boot!Main
  BY <1>1, <1>2, <1>3, <1>4, <1>5, <1>6, <1>14 DEF Boot!Main
<1> QED
  BY <1>7, <1>8, <1>9, <1>10, <1>11, <1>12, <1>13, <1>14 DEF Boot!Next

LEMMA BootKept == ASSUME BootInv, Boot!Next PROVE BootInv'
<1>1. CASE Boot!Privileges /\ UNCHANGED pool
  <2>1. bootPc \in Early /\ bootPc' # "start"
    BY <1>1 DEF Boot!Privileges, Boot!Go, Early
  <2> QED
    BY <1>1, <2>1, CapsHandedOut DEF BootInv
<1>2. CASE UNCHANGED <<caps, pool, bootPc>>
  BY <1>2 DEF BootInv, CapsInv, CapsAre, Boot!PrivilegesArePlaced
<1>3. CASE bootPc = "start" /\ bootPc' = "drm" /\ UNCHANGED <<caps, pool>>
  BY <1>3 DEF BootInv, CapsInv, CapsAre, Boot!PrivilegesArePlaced, Early
<1>4. CASE bootPc = "start" /\ bootPc' = "exited" /\ UNCHANGED <<caps, pool>>
  <2>1. caps["drm"] = {}
    BY <1>4 DEF BootInv, CapsInv, CapsAre
  <2> QED
    BY <1>4, <2>1 DEF BootInv, CapsInv, Boot!PrivilegesArePlaced, Early
<1>5. CASE bootPc' \notin Early /\ bootPc \notin Early \cup {"threads"} /\ UNCHANGED caps
  BY <1>5 DEF BootInv, CapsInv, Boot!PrivilegesArePlaced, Early
<1>6. CASE pool = "running" /\ bootPc' \notin Early /\ UNCHANGED caps
  BY <1>6 DEF BootInv, CapsInv, Boot!PrivilegesArePlaced, Early
<1>7. CASE bootPc = "threads" /\ bootPc' \notin Early /\ Boot!Inherit(HostServices)
  <2>1. /\ caps' = [t \in DOMAIN caps |-> IF t \in HostServices THEN caps["main"] ELSE caps[t]]
        /\ DOMAIN caps = {"main", "drm", "egl"} \cup HostServices
    BY <1>7 DEF Boot!Inherit, BootInv
  <2>2. /\ caps'["drm"] = caps["drm"] /\ caps'["egl"] = caps["egl"] /\ caps'["main"] = caps["main"]
        /\ \A t \in HostServices : caps'[t] = caps["main"]
    BY <2>1, ThreadAssumption
  <2>3. Boot!PrivilegesArePlaced'
    BY <1>7, <2>2 DEF BootInv, Boot!PrivilegesArePlaced
  <2> QED
    BY <1>7, <2>1, <2>3 DEF BootInv, CapsInv, Early
<1> QED
  BY <1>1, <1>2, <1>3, <1>4, <1>5, <1>6, <1>7, BootSteps

-----------------------------------------------------------------------------
(* The interfaces that answer, and those a page leads to, are what the     *)
(* configuration makes of any four settings.                               *)
Answer(web) ==
    /\ web.ui \/ web.upstream
    /\ web.default => web.ui
    /\ web.visible => web.upstream

LEMMA InterfacesAnswer ==
    ASSUME NEW ui \in BOOLEAN, NEW upstream \in BOOLEAN, NEW default \in BOOLEAN,
           NEW visible \in BOOLEAN
    PROVE  Answer(Options!Interfaces(ui, upstream, default, visible))
  BY DEF Options!Interfaces, Answer

LEMMA BoolOption ==
    ASSUME NEW vars, NEW key, NEW default \in BOOLEAN
    PROVE  Options!BoolF(vars, key, default) \in BOOLEAN
<1>1. CASE key \in DOMAIN vars
  <2>1. Options!BoolF(vars, key, default) = (vars[key] \in {"true", "on", "1", "10"})
    BY <1>1 DEF Options!BoolF, Options!ToBool
  <2>2. (vars[key] \in {"true", "on", "1", "10"}) \in BOOLEAN
    OBVIOUS
  <2> QED
    BY <2>1, <2>2, Zenon
<1>2. CASE key \notin DOMAIN vars
  <2>1. Options!BoolF(vars, key, default) = default
    BY <1>2 DEF Options!BoolF
  <2> QED
    BY <2>1, Zenon
<1> QED
  BY <1>1, <1>2

LEMMA AppliedAnswers ==
    ASSUME NEW vars, NEW flipped
    PROVE  Answer(Options!Applied(vars, flipped).web)
<1>1. /\ Options!BoolF(vars, "ui", TRUE) \in BOOLEAN
      /\ Options!BoolF(vars, "upstream", TRUE) \in BOOLEAN
      /\ Options!BoolF(vars, "default", FALSE) \in BOOLEAN
      /\ Options!BoolF(vars, "visible", TRUE) \in BOOLEAN
  BY BoolOption
<1>2. Options!Applied(vars, flipped).web =
        Options!Interfaces(Options!BoolF(vars, "ui", TRUE), Options!BoolF(vars, "upstream", TRUE),
                           Options!BoolF(vars, "default", FALSE),
                           Options!BoolF(vars, "visible", TRUE))
  BY DEF Options!Applied
<1> QED
  BY <1>1, <1>2, InterfacesAnswer

LEMMA NothingAnswers == Answer(Options!NoOptions.web)
<1>1. \A vars, flipped : Answer(Options!Applied(vars, flipped).web)
  BY AppliedAnswers
<1>2. Answer(Options!Applied([n \in {} |-> ""], FALSE).web)
  BY <1>1, Zenon
<1> QED
  BY <1>2, Zenon DEF Options!NoOptions

LEMMA OptionsBegin == Options!Init => Answer(options.web)
<1>1. Options!Init => options = Options!NoOptions
  BY DEF Options!Init
<1> QED
  BY <1>1, NothingAnswers

LEMMA OptionsKept == ASSUME Answer(options.web), Options!Next PROVE Answer(options.web)'
<1>1. CASE Options!ReadConfig
  <2>1. options' = Options!Parse(text, args).options
    BY <1>1 DEF Options!ReadConfig
  <2>2. \/ options' = Options!NoOptions
        \/ \E vars, flipped, c : options' = [Options!Applied(vars, flipped) EXCEPT !.command = c]
    BY <2>1 DEF Options!Parse
  <2>3. ASSUME NEW vars, NEW flipped, NEW c
        PROVE  [Options!Applied(vars, flipped) EXCEPT !.command = c].web
                 = Options!Applied(vars, flipped).web
    BY DEF Options!Applied
  <2>4. CASE options' = Options!NoOptions
    BY <2>4, NothingAnswers
  <2>5. CASE \E vars, flipped, c :
                options' = [Options!Applied(vars, flipped) EXCEPT !.command = c]
    <3>1. PICK vars, flipped, c :
                options' = [Options!Applied(vars, flipped) EXCEPT !.command = c]
      BY <2>5
    <3>2. options'.web = Options!Applied(vars, flipped).web
      BY <2>3, <3>1
    <3>3. Answer(Options!Applied(vars, flipped).web)
      BY AppliedAnswers
    <3> QED
      BY <3>2, <3>3
  <2> QED
    BY <2>2, <2>4, <2>5
<1>2. CASE Options!Sanitize \/ Options!RunCommand \/ Options!InitHttp \/ Options!PeekShutdown
           \/ Options!Publish \/ Options!Unwind
  BY <1>2 DEF Options!Sanitize, Options!RunCommand, Options!InitHttp, Options!PeekShutdown,
              Options!Publish, Options!Unwind, Options!configVars
<1>3. CASE Options!Privileges \/ Options!Recover \/ Options!StartPool \/ Options!StartThreads
           \/ Options!StartTray \/ Options!LeaveLoop \/ Options!JoinThreads \/ Options!StopPool
  BY <1>3 DEF Options!Privileges, Options!Recover, Options!StartPool, Options!StartThreads,
              Options!StartTray, Options!LeaveLoop, Options!JoinThreads, Options!StopPool,
              Options!configVars
<1>4. CASE Options!LoseTray \/ Options!ExitSunshine \/ Options!Terminate \/ Options!AskShutdown
           \/ Options!ForceShutdown
  BY <1>4 DEF Options!LoseTray, Options!ExitSunshine, Options!Terminate, Options!AskShutdown,
              Options!ForceShutdown, Options!configVars
<1>5. ASSUME NEW s, Options!Handler(s) PROVE UNCHANGED options
  BY <1>5 DEF Options!Handler, Options!PushWatchdog, Options!RaiseShutdown, Options!EndTray,
              Options!ReadGuard, Options!DropGuard, Options!HandlerStep, Options!configVars
<1>6. ASSUME NEW t, Options!Serve(t) \/ Options!ServiceEnds(t) \/ Options!ServiceHangs(t)
      PROVE  UNCHANGED options
  BY <1>6 DEF Options!Serve, Options!ServiceEnds, Options!ServiceHangs, Options!configVars
<1>7. CASE Options!Upnp \/ Options!RouterForgets \/ Options!Mdns
  <2>1. Options!UpnpStep \/ Options!MdnsStep
    BY <1>7 DEF Options!Upnp, Options!Discover, Options!MapPort, Options!MapDone,
                Options!Refresh, Options!Unmap, Options!RouterForgets, Options!Mdns,
                Options!ClientCallback, Options!EntryGroupCallback, Options!PollThreadEnds
  <2> QED
    BY <2>1 DEF Options!UpnpStep, Options!MdnsStep, Options!configVars
<1>8. CASE Options!Sources
  <2>1. Options!SourceStep
    BY <1>8 DEF Options!Sources, Options!ProbeSources, Options!RefreshCaptureEnvironment,
                Options!DisplayNames, Options!Display, Options!HostChanges
  <2> QED
    BY <2>1 DEF Options!SourceStep, Options!configVars
<1>9. CASE Options!Main
  BY <1>1, <1>2, <1>3, <1>9 DEF Options!Main
<1> QED
  BY <1>4, <1>5, <1>6, <1>7, <1>8, <1>9 DEF Options!Next

LEMMA InterfaceAnswers == Answer(options.web) => Options!InterfaceRemains
  BY DEF Answer, Options!InterfaceRemains

-----------------------------------------------------------------------------
(* Nothing is mapped before the configuration is read, after which the     *)
(* ports stay the same; what is not to be closed any more is closed or     *)
(* was refused.  The name that is committed is the one that is free.       *)
NotRead == {"start", "drm", "dropAdmin", "egl", "dropNice", "config"}

Closed(ports) ==
    \A p \in ports : router[p] \in {"lease", "static"} => p \in upnp.refused

NetworkInv ==
    /\ upnp = [at |-> upnp.at, mapped |-> upnp.mapped, todo |-> upnp.todo,
               refused |-> upnp.refused, holes |-> upnp.holes, rounds |-> upnp.rounds]
    /\ DOMAIN router = RouterPorts
    /\ mdns = [at |-> mdns.at, group |-> mdns.group, name |-> mdns.name,
               published |-> mdns.published]
    /\ bootPc \in NotRead => upnp.at = "off"
    /\ upnp.at = "unmap" => Closed(Network!Mappings \ upnp.todo)
    /\ upnp.at = "ended" /\ upnp.mapped = TRUE => Closed(Network!Mappings)
    /\ upnp.mapped \in BOOLEAN
    /\ Network!AnnouncedByName

LEMMA NetworkBegins == Network!Init => NetworkInv
<1> SUFFICES ASSUME Network!Init PROVE NetworkInv
  OBVIOUS
<1>1. /\ upnp = [at |-> "off", mapped |-> FALSE, todo |-> {}, refused |-> {},
                 holes |-> FALSE, rounds |-> 0]
      /\ mdns = [at |-> "off", group |-> "none", name |-> 0, published |-> 0]
      /\ router \in [RouterPorts -> {"none", "other", "static"}]
  BY DEF Network!Init
<1> QED
  BY <1>1 DEF NetworkInv, Network!AnnouncedByName

(* Main() reads the configuration, publishes, and takes the service back;  *)
(* the other threads leave the ports alone.                                *)
LEMMA NetworkSteps ==
    ASSUME Network!Next
    PROVE  \/ Network!Upnp \/ Network!RouterForgets \/ Network!Mdns
           \/ Network!Publish \/ Network!Unwind
           \/ Network!ReadConfig /\ UNCHANGED <<upnp, router, mdns>>
           \/ /\ UNCHANGED <<upnp, router, mdns, options>>
              /\ bootPc' \in NotRead => bootPc \in NotRead
<1> USE DEF NotRead, Network!networkVars
<1>1. CASE Network!Sanitize \/ Network!RunCommand \/ Network!InitHttp \/ Network!PeekShutdown
  BY <1>1 DEF Network!Sanitize, Network!RunCommand, Network!InitHttp, Network!PeekShutdown,
              Network!Return, Network!configVars
<1>2. CASE Network!Privileges \/ Network!Recover \/ Network!StartPool \/ Network!StartThreads
           \/ Network!StartTray \/ Network!LeaveLoop \/ Network!JoinThreads \/ Network!StopPool
  BY <1>2 DEF Network!Privileges, Network!Recover, Network!StartPool, Network!StartThreads,
              Network!StartTray, Network!LeaveLoop, Network!JoinThreads, Network!StopPool,
              Network!configVars, Network!Go, Network!Return
<1>3. CASE Network!LoseTray \/ Network!ExitSunshine \/ Network!Terminate \/ Network!AskShutdown
           \/ Network!ForceShutdown
  BY <1>3 DEF Network!LoseTray, Network!ExitSunshine, Network!Terminate, Network!AskShutdown,
              Network!ForceShutdown, Network!configVars
<1>4. ASSUME NEW s, Network!Handler(s) PROVE UNCHANGED <<upnp, router, mdns, options, bootPc>>
  BY <1>4 DEF Network!Handler, Network!PushWatchdog, Network!RaiseShutdown, Network!EndTray,
              Network!ReadGuard, Network!DropGuard, Network!HandlerStep, Network!configVars
<1>5. ASSUME NEW t, Network!Serve(t) \/ Network!ServiceEnds(t) \/ Network!ServiceHangs(t)
      PROVE  UNCHANGED <<upnp, router, mdns, options, bootPc>>
  BY <1>5 DEF Network!Serve, Network!ServiceEnds, Network!ServiceHangs, Network!configVars
<1>6. CASE Network!Sources
  <2>1. Network!SourceStep
    BY <1>6 DEF Network!Sources, Network!ProbeSources, Network!RefreshCaptureEnvironment,
                Network!DisplayNames, Network!Display, Network!HostChanges
  <2> QED
    BY <2>1 DEF Network!SourceStep, Network!configVars
<1>7. CASE Network!ReadConfig
  BY <1>7 DEF Network!ReadConfig
<1>8. CASE Network!Main
  BY <1>1, <1>2, <1>7, <1>8 DEF Network!Main
<1> QED
  BY <1>3, <1>4, <1>5, <1>6, <1>8 DEF Network!Next

LEMMA PortsKept ==
    ASSUME NetworkInv, Network!Upnp \/ Network!RouterForgets
    PROVE  NetworkInv'
<1>1. UNCHANGED <<bootPc, options, mdns>> /\ Network!UpnpStep
  BY DEF Network!Upnp, Network!Discover, Network!MapPort, Network!MapDone, Network!Refresh,
         Network!Unmap, Network!RouterForgets, Network!UpnpStep, Network!configVars
<1>2. Network!Mappings' = Network!Mappings /\ Network!Mappings \subseteq RouterPorts
  BY <1>1 DEF Network!Mappings
<1>3. Network!AnnouncedByName'
  BY <1>1 DEF NetworkInv, Network!AnnouncedByName
<1>4. bootPc \in NotRead => upnp.at = "off"
  BY DEF NetworkInv
<1>5. CASE Network!Discover
  BY <1>1, <1>2, <1>3, <1>4, <1>5 DEF Network!Discover, NetworkInv
<1>6. CASE Network!MapPort
  BY <1>1, <1>2, <1>3, <1>4, <1>6 DEF Network!MapPort, NetworkInv
<1>7. CASE Network!MapDone
  BY <1>1, <1>2, <1>3, <1>4, <1>7 DEF Network!MapDone, NetworkInv
<1>8. CASE Network!Refresh
  BY <1>1, <1>2, <1>3, <1>4, <1>8 DEF Network!Refresh, NetworkInv, Closed
<1>9. CASE Network!Unmap
  <2>1. upnp.at = "unmap" /\ bootPc \notin NotRead /\ Closed(Network!Mappings \ upnp.todo)
    BY <1>4, <1>9 DEF Network!Unmap, NetworkInv
  <2>2. CASE upnp.todo = {} /\ upnp' = [upnp EXCEPT !.at = "ended"] /\ UNCHANGED router
    BY <1>1, <1>2, <1>3, <2>1, <2>2 DEF NetworkInv, Closed
  <2>3. ASSUME NEW p \in upnp.todo,
               router' = [router EXCEPT ![p] = "none"],
               upnp' = [upnp EXCEPT !.todo = @ \ {p}]
        PROVE  NetworkInv'
    <3>1. /\ upnp'.at = upnp.at /\ upnp'.mapped = upnp.mapped /\ upnp'.refused = upnp.refused
          /\ upnp'.todo = upnp.todo \ {p} /\ upnp'.holes = upnp.holes /\ upnp'.rounds = upnp.rounds
          /\ upnp' = [at |-> upnp'.at, mapped |-> upnp'.mapped, todo |-> upnp'.todo,
                      refused |-> upnp'.refused, holes |-> upnp'.holes, rounds |-> upnp'.rounds]
      BY <2>3 DEF NetworkInv
    <3>2. /\ DOMAIN router' = RouterPorts
          /\ \A q \in RouterPorts : router'[q] = IF q = p THEN "none" ELSE router[q]
      BY <2>3 DEF NetworkInv
    <3>3. Closed(Network!Mappings \ upnp.todo)'
      BY <1>2, <2>1, <3>1, <3>2 DEF Closed
    <3> QED
      BY <1>1, <1>3, <2>1, <3>1, <3>2, <3>3 DEF NetworkInv
  <2>4. ASSUME NEW p \in upnp.todo, UNCHANGED router,
               upnp' = [upnp EXCEPT !.todo = @ \ {p}, !.refused = @ \cup {p}]
        PROVE  NetworkInv'
    <3>1. /\ upnp'.at = upnp.at /\ upnp'.mapped = upnp.mapped
          /\ upnp'.refused = upnp.refused \cup {p}
          /\ upnp'.todo = upnp.todo \ {p} /\ upnp'.holes = upnp.holes /\ upnp'.rounds = upnp.rounds
          /\ upnp' = [at |-> upnp'.at, mapped |-> upnp'.mapped, todo |-> upnp'.todo,
                      refused |-> upnp'.refused, holes |-> upnp'.holes, rounds |-> upnp'.rounds]
      BY <2>4 DEF NetworkInv
    <3>2. Closed(Network!Mappings \ upnp.todo)'
      BY <1>2, <2>1, <2>4, <3>1 DEF Closed
    <3> QED
      BY <1>1, <1>3, <2>1, <2>4, <3>1, <3>2 DEF NetworkInv
  <2> QED
    BY <1>9, <2>2, <2>3, <2>4 DEF Network!Unmap
<1>10. CASE Network!RouterForgets
  <2>1. /\ DOMAIN router' = RouterPorts /\ UNCHANGED upnp
        /\ \A p \in RouterPorts : router'[p] \in {"none", router[p]}
    BY <1>10 DEF Network!RouterForgets
  <2>2. ASSUME NEW S \in SUBSET RouterPorts, Closed(S) PROVE \A p \in S :
            router'[p] \in {"lease", "static"} => p \in upnp'.refused
    BY <2>1, <2>2 DEF Closed
  <2> QED
    BY <1>1, <1>2, <1>3, <2>1, <2>2 DEF NetworkInv, Closed
<1> QED
  BY <1>5, <1>6, <1>7, <1>8, <1>9, <1>10 DEF Network!Upnp

LEMMA NameKept ==
    ASSUME NetworkInv, Network!Mdns
    PROVE  NetworkInv'
<1>1. UNCHANGED <<bootPc, options, upnp, router>>
  <2>1. Network!MdnsStep
    BY DEF Network!Mdns, Network!ClientCallback, Network!EntryGroupCallback,
           Network!PollThreadEnds
  <2> QED
    BY <2>1 DEF Network!MdnsStep, Network!configVars
<1> DEFINE Shaped(m) == m = [at |-> m.at, group |-> m.group, name |-> m.name,
                             published |-> m.published]
           Named(m) == m.group = "committed" => m.published = m.name
<1>2. Shaped(mdns) /\ Named(mdns)
  BY DEF NetworkInv, Network!AnnouncedByName
<1>3. ASSUME NEW m, Shaped(m), Named(m), NEW r \in Network!CreateServices(m)
      PROVE  Shaped(r) /\ Named(r)
  BY <1>3 DEF Network!CreateServices
<1>4. Shaped(mdns') /\ Named(mdns')
  <2>1. CASE mdns' \in Network!CreateServices(mdns)
    BY <1>2, <1>3, <2>1
  <2>2. CASE mdns' = [mdns EXCEPT !.group = "empty"] \/ mdns' = [mdns EXCEPT !.at = "quit"]
             \/ mdns' = [mdns EXCEPT !.at = "ended", !.group = "none"]
    BY <1>2, <2>2
  <2>3. CASE mdns' \in Network!CreateServices([mdns EXCEPT !.group = "empty", !.name = @ + 1])
    <3> DEFINE m == [mdns EXCEPT !.group = "empty", !.name = @ + 1]
    <3>1. ASSUME NEW x, NEW s, s = [mdns EXCEPT !.group = "empty", !.name = x]
          PROVE  Shaped(s) /\ Named(s)
      BY <1>2, <3>1
    <3>2. Shaped(m) /\ Named(m)
      BY <3>1
    <3> HIDE DEF m
    <3> QED
      BY <1>3, <2>3, <3>2 DEF m
  <2> QED
    BY <2>1, <2>2, <2>3 DEF Network!Mdns, Network!ClientCallback, Network!EntryGroupCallback,
                            Network!PollThreadEnds
<1> QED
  BY <1>1, <1>4 DEF NetworkInv, Network!AnnouncedByName, Closed, Network!Mappings

LEMMA NetworkKept == ASSUME NetworkInv, Network!Next PROVE NetworkInv'
<1>1. CASE Network!Upnp \/ Network!RouterForgets \/ Network!Mdns
  BY <1>1, PortsKept, NameKept
<1>2. CASE Network!Publish
  <2>1. /\ UNCHANGED <<router, options>> /\ bootPc' \notin NotRead
        /\ upnp' = upnp \/ upnp' = [upnp EXCEPT !.at = "discover"]
        /\ \E a : mdns' = [mdns EXCEPT !.at = a]
    BY <1>2 DEF Network!Publish, Network!configVars, NotRead
  <2> QED
    BY <2>1 DEF NetworkInv, Network!AnnouncedByName, Closed, Network!Mappings
<1>3. CASE Network!Unwind
  <2>1. /\ UNCHANGED <<upnp, router, options>> /\ bootPc' \notin NotRead
        /\ mdns' = [mdns EXCEPT !.at = "ended", !.group = "none"]
    BY <1>3 DEF Network!Unwind, Network!configVars, NotRead
  <2> QED
    BY <2>1 DEF NetworkInv, Network!AnnouncedByName, Closed, Network!Mappings
<1>4. CASE Network!ReadConfig /\ UNCHANGED <<upnp, router, mdns>>
  <2>1. upnp.at = "off"
    BY <1>4 DEF Network!ReadConfig, NetworkInv, NotRead
  <2> QED
    BY <1>4, <2>1 DEF NetworkInv, Network!AnnouncedByName
<1>5. CASE UNCHANGED <<upnp, router, mdns, options>> /\ (bootPc' \in NotRead => bootPc \in NotRead)
  BY <1>5 DEF NetworkInv, Network!AnnouncedByName, Closed, Network!Mappings
<1> QED
  BY <1>1, <1>2, <1>3, <1>4, <1>5, NetworkSteps

LEMMA NetworkIsClosed == NetworkInv => Network!PortsAreClosed /\ Network!AnnouncedByName
<1> SUFFICES ASSUME NetworkInv PROVE Network!PortsAreClosed
  BY DEF NetworkInv
<1>1. upnp.at = "ended" /\ upnp.mapped => Closed(Network!Mappings)
  BY DEF NetworkInv
<1> QED
  BY <1>1 DEF Network!PortsAreClosed, Closed

-----------------------------------------------------------------------------
(* HostLifecycle.  Every source but the Wayland one that a session brings  *)
(* with it passed its check.  Once KMS is passed over it is not there, and *)
(* nothing brings it back: sources are probed once.                        *)
SourcesInv ==
    /\ sources \ {"wayland"} \subseteq verified
    /\ opened.worker # TRUE => "kms" \notin sources /\ window # "unknown"
    /\ opened.by \notin {"none", "gamescope", "wayland"} => opened.verified = TRUE
    /\ opened.required = TRUE /\ opened.connected # TRUE => opened.by \in {"gamescope", "wayland"}
    /\ opened.by = "kms" => opened.worker = TRUE

LEMMA FirstIsThere ==
    ASSUME NEW list, DOMAIN list \subseteq Nat, NEW S
    PROVE  Sources!FirstOf(list, S) = "none" \/ Sources!FirstOf(list, S) \in S
<1> DEFINE at == {i \in DOMAIN list : list[i] \in S}
           m == CHOOSE x \in at : \A y \in at : x <= y
<1>1. CASE at = {}
  BY <1>1 DEF Sources!FirstOf
<1>2. CASE at # {}
  <2>1. \E x \in at : \A y \in at : x <= y
    BY <1>2, LeastNatural
  <2>2. m \in at
    BY <2>1
  <2>3. Sources!FirstOf(list, S) = list[m]
    BY <1>2 DEF Sources!FirstOf, Sources!Min
  <2> QED
    BY <2>2, <2>3
<1> QED
  BY <1>1, <1>2

LEMMA KmsIsFirst ==
    ASSUME NEW S, "kms" \in S
    PROVE  Sources!FirstOf(<<"kms", "nvfbc", "wayland", "x11", "portal", "kwin">>, S) = "kms"
<1> DEFINE list == <<"kms", "nvfbc", "wayland", "x11", "portal", "kwin">>
           at == {i \in DOMAIN list : list[i] \in S}
           m == CHOOSE x \in at : \A y \in at : x <= y
<1>1. DOMAIN list = 1 .. 6 /\ list[1] = "kms"
  OBVIOUS
<1>2. 1 \in at /\ \A y \in at : y \in Nat /\ 1 <= y
  BY <1>1
<1>3. m \in at /\ \A y \in at : m <= y
  BY <1>2
<1>4. m = 1
  BY <1>2, <1>3
<1>5. Sources!FirstOf(list, S) = list[m]
  BY <1>2 DEF Sources!FirstOf, Sources!Min
<1> QED
  BY <1>1, <1>4, <1>5

LEMMA SourcesBegin == Sources!Init => SourcesInv
<1> SUFFICES ASSUME Sources!Init PROVE SourcesInv
  OBVIOUS
<1>1. /\ opened = [by |-> "none", verified |-> FALSE, required |-> FALSE, connected |-> TRUE,
                   worker |-> TRUE]
      /\ sources = {} /\ verified = {}
  BY DEF Sources!Init
<1> QED
  BY <1>1 DEF SourcesInv

LEMMA SourcesProbed == ASSUME SourcesInv, Sources!ProbeSources PROVE SourcesInv'
<1>1. UNCHANGED opened /\ window = "unknown"
  BY DEF Sources!ProbeSources
<1>2. sources' \ {"wayland"} \subseteq verified'
  BY DEF Sources!ProbeSources, SourcesInv
<1> QED
  BY <1>1, <1>2 DEF SourcesInv

LEMMA SourcesRefreshed ==
    ASSUME SourcesInv, Sources!RefreshCaptureEnvironment
    PROVE  SourcesInv'
<1>1. UNCHANGED opened /\ window # "unknown"
  BY DEF Sources!RefreshCaptureEnvironment
<1>2. window' # "unknown" /\ ("kms" \in sources' => "kms" \in sources)
      /\ sources' \ {"wayland"} \subseteq verified'
  BY DEF Sources!RefreshCaptureEnvironment, SourcesInv
<1> QED
  BY <1>1, <1>2 DEF SourcesInv

LEMMA OpensWhatIsFound ==
    ASSUME NEW cuda \in BOOLEAN
    PROVE  /\ Sources!Opens(cuda) \in {"none", "gamescope", "wayland"} \cup sources
           /\ Sources!Required /\ ~host.connected =>
                Sources!Opens(cuda) \in {"gamescope", "wayland"}
<1> DEFINE left == sources \ IF cuda THEN {} ELSE {"nvfbc"}
           list == <<"kms", "nvfbc", "wayland", "x11", "portal", "kwin">>
           few == <<"kwin", "portal">>
<1>1. DOMAIN list \subseteq Nat /\ DOMAIN few \subseteq Nat
  OBVIOUS
<1> HIDE DEF list, few
<1>2. /\ Sources!FirstOf(few, Sources!Preferred) \in {"none"} \cup Sources!Preferred
      /\ Sources!FirstOf(list, left) \in {"none"} \cup left
  BY <1>1, FirstIsThere
<1>3. Sources!Preferred \subseteq sources /\ left \subseteq sources
  BY DEF Sources!Preferred
<1>4. ~host.connected => Sources!Preferred = {}
  BY DEF Sources!Preferred
<1>5. Sources!Required /\ ~host.connected => Sources!VirtualBackend
  BY DEF Sources!VirtualBackend
<1>6. \/ Sources!Opens(cuda) = "gamescope" \/ Sources!Opens(cuda) = "wayland"
      \/ Sources!Preferred # {} /\ Sources!Opens(cuda) = Sources!FirstOf(few, Sources!Preferred)
      \/ /\ Sources!Preferred = {} /\ ~Sources!VirtualBackend
         /\ Sources!Opens(cuda) = Sources!FirstOf(list, left)
  BY DEF Sources!Opens, list, few
<1> HIDE DEF left
<1> QED
  BY <1>2, <1>3, <1>4, <1>5, <1>6

(* KMS is passed over only when nothing of it is found. *)
LEMMA KmsIsPassed ==
    ASSUME NEW cuda \in BOOLEAN, ~Sources!Active, Sources!Preferred = {},
           ~Sources!VirtualBackend, "kms" \in sources
    PROVE  Sources!Opens(cuda) = "kms"
<1> DEFINE left == sources \ IF cuda THEN {} ELSE {"nvfbc"}
<1>1. "kms" \in left
  OBVIOUS
<1>2. Sources!Opens(cuda)
        = Sources!FirstOf(<<"kms", "nvfbc", "wayland", "x11", "portal", "kwin">>, left)
  BY DEF Sources!Opens
<1> HIDE DEF left
<1> QED
  BY <1>1, <1>2, KmsIsFirst

LEMMA SourceOpened == ASSUME SourcesInv, Sources!Display PROVE SourcesInv'
<1> DEFINE drops(c) == /\ ~Sources!Active /\ Sources!Preferred = {} /\ ~Sources!VirtualBackend
                       /\ Sources!Opens(c) \notin {"kms", "nvfbc"}
<1>1. UNCHANGED <<window, sources, verified>> /\ window # "unknown"
  BY DEF Sources!Display
<1>2. PICK cuda \in BOOLEAN :
        opened' = [by |-> Sources!Opens(cuda),
                   verified |-> Sources!Opens(cuda) \in verified,
                   required |-> Sources!Required, connected |-> host.connected,
                   worker |-> opened.worker /\ ~drops(cuda)]
  BY DEF Sources!Display
<1>3. /\ opened'.by = Sources!Opens(cuda) /\ opened'.connected = host.connected
      /\ (opened'.verified = TRUE) <=> (Sources!Opens(cuda) \in verified)
      /\ (opened'.required = TRUE) <=> Sources!Required
      /\ (opened'.worker = TRUE) <=> (opened.worker /\ ~drops(cuda))
  BY <1>2
<1>4. drops(cuda) => "kms" \notin sources
  BY KmsIsPassed
<1> HIDE DEF drops
<1>5. opened.worker # TRUE => "kms" \notin sources
  BY DEF SourcesInv
<1>6. opened'.worker # TRUE => "kms" \notin sources
  BY <1>3, <1>4, <1>5
<1>7. opened'.by \in {"none", "gamescope", "wayland"} \cup sources
  BY <1>3, OpensWhatIsFound
<1>8. opened'.required = TRUE /\ opened'.connected # TRUE => opened'.by \in {"gamescope", "wayland"}
  BY <1>3, OpensWhatIsFound
<1>9. opened'.by \notin {"none", "gamescope", "wayland"} => opened'.verified = TRUE
  BY <1>3, <1>7 DEF SourcesInv
<1> QED
  BY <1>1, <1>6, <1>7, <1>8, <1>9 DEF SourcesInv

LEMMA SourcesSteps ==
    ASSUME Sources!Next
    PROVE  \/ Sources!ProbeSources \/ Sources!RefreshCaptureEnvironment \/ Sources!Display
           \/ UNCHANGED <<window, sources, verified, opened>>
<1> USE DEF Sources!sourceVars
<1>1. CASE Sources!Sanitize \/ Sources!ReadConfig \/ Sources!RunCommand \/ Sources!InitHttp
           \/ Sources!Publish \/ Sources!PeekShutdown \/ Sources!Unwind
  BY <1>1 DEF Sources!Sanitize, Sources!ReadConfig, Sources!RunCommand, Sources!InitHttp,
              Sources!Publish, Sources!PeekShutdown, Sources!Unwind
<1>2. CASE Sources!Privileges \/ Sources!Recover \/ Sources!StartPool \/ Sources!StartThreads
           \/ Sources!StartTray \/ Sources!LeaveLoop \/ Sources!JoinThreads \/ Sources!StopPool
  BY <1>2 DEF Sources!Privileges, Sources!Recover, Sources!StartPool, Sources!StartThreads,
              Sources!StartTray, Sources!LeaveLoop, Sources!JoinThreads, Sources!StopPool,
              Sources!Go
<1>3. CASE Sources!LoseTray \/ Sources!ExitSunshine \/ Sources!Terminate \/ Sources!AskShutdown
           \/ Sources!ForceShutdown
  BY <1>3 DEF Sources!LoseTray, Sources!ExitSunshine, Sources!Terminate, Sources!AskShutdown,
              Sources!ForceShutdown
<1>4. ASSUME NEW s, Sources!Handler(s) PROVE UNCHANGED <<window, sources, verified, opened>>
  BY <1>4 DEF Sources!Handler, Sources!PushWatchdog, Sources!RaiseShutdown, Sources!EndTray,
              Sources!ReadGuard, Sources!DropGuard, Sources!HandlerStep
<1>5. ASSUME NEW t, Sources!Serve(t) \/ Sources!ServiceEnds(t) \/ Sources!ServiceHangs(t)
      PROVE  UNCHANGED <<window, sources, verified, opened>>
  BY <1>5 DEF Sources!Serve, Sources!ServiceEnds, Sources!ServiceHangs
<1>6. CASE Sources!Upnp \/ Sources!RouterForgets \/ Sources!Mdns
  <2>1. Sources!UpnpStep \/ Sources!MdnsStep
    BY <1>6 DEF Sources!Upnp, Sources!Discover, Sources!MapPort, Sources!MapDone,
                Sources!Refresh, Sources!Unmap, Sources!RouterForgets, Sources!Mdns,
                Sources!ClientCallback, Sources!EntryGroupCallback, Sources!PollThreadEnds
  <2> QED
    BY <2>1 DEF Sources!UpnpStep, Sources!MdnsStep
<1>7. CASE Sources!DisplayNames \/ Sources!HostChanges
  BY <1>7 DEF Sources!DisplayNames, Sources!HostChanges
<1>8. CASE Sources!Main
  BY <1>1, <1>2, <1>8 DEF Sources!Main
<1>9. CASE Sources!Sources
  BY <1>7, <1>9 DEF Sources!Sources
<1> QED
  BY <1>3, <1>4, <1>5, <1>6, <1>8, <1>9 DEF Sources!Next

LEMMA SourcesKept == ASSUME SourcesInv, Sources!Next PROVE SourcesInv'
<1>1. CASE UNCHANGED <<window, sources, verified, opened>>
  BY <1>1 DEF SourcesInv
<1> QED
  BY <1>1, SourcesSteps, SourcesProbed, SourcesRefreshed, SourceOpened

LEMMA SourcesPassed ==
    SourcesInv => Sources!OpensVerified /\ Sources!HeadlessIsVirtual /\ Sources!KmsHasWorker
  BY DEF SourcesInv, Sources!OpensVerified, Sources!HeadlessIsVirtual, Sources!KmsHasWorker
-----------------------------------------------------------------------------
(* What the host keeps, whichever part of it the suite looks at.           *)
HostInv ==
    /\ ScreenInv /\ PortalInv /\ SteamInv /\ IdentityInv /\ DisplayInv
    /\ focus = "parse" => ModeInv
    /\ focus = "boot" => BootInv
    /\ focus = "options" => Answer(options.web)
    /\ focus = "network" => NetworkInv
    /\ focus = "sources" => SourcesInv

LEMMA HostBegins == ASSUME Start PROVE HostInv
<1>1. Screen!Init /\ Portal!Init /\ Steam!Init /\ Identity!Init
  BY DEF Start
<1>2. (Display!Init \/ Parse!Init) /\ (focus = "parse" => Parse!Init)
  BY DEF Start
<1>3. /\ focus = "boot" => Boot!Init
      /\ focus = "options" => Options!Init
      /\ focus = "network" => Network!Init
      /\ focus = "sources" => Sources!Init
  BY DEF Start
<1> QED
  BY <1>1, <1>2, <1>3, ScreenStarts, PortalStarts, SteamBegins, IdentityBegins, DisplayBegins,
     ModeBegins, BootBegins, OptionsBegin, NetworkBegins, SourcesBegin DEF HostInv

(* A component that stands still keeps its invariant. *)
LEMMA ScreenStands == ASSUME ScreenInv, UNCHANGED screenVars PROVE ScreenInv'
  BY DEF ScreenInv, screenVars

LEMMA PortalStands == ASSUME PortalInv, UNCHANGED portalVars PROVE PortalInv'
<1>1. UNCHANGED <<portalPc, only, count, waiting, requests, answers, progress>>
  BY DEF portalVars
<1> QED
  BY <1>1 DEF PortalInv, PortalTypes, Numbered, OwnRequest, OwnAnswer, StepsGranted, Portal!Session

LEMMA SteamStands == ASSUME SteamInv, UNCHANGED steamVars PROVE SteamInv'
<1>1. UNCHANGED <<proc, born, scanned, settings, step, candidate>>
  BY DEF steamVars
<1>2. Steam!MainSteam' = Steam!MainSteam
  BY <1>1 DEF Steam!MainSteam, Steam!Running, Steam!Name
<1> QED
  BY <1>1, <1>2 DEF SteamInv, Table, Times, Placed, OnlyCandidate, Recorded

LEMMA IdentityStands == ASSUME IdentityInv, UNCHANGED identityVars PROVE IdentityInv'
<1>1. UNCHANGED <<procs, started, session, truth, consumer, handed>>
  BY DEF identityVars
<1> QED
  BY <1>1 DEF IdentityInv, Young, SessionIsTrue, TruthIsOld, ConsumerIsOld, Identity!NoStaleIdentity

LEMMA DisplayStands ==
    ASSUME UNCHANGED displayVars
    PROVE  (DisplayInv => DisplayInv') /\ (ModeInv => ModeInv')
<1>1. UNCHANGED <<video, up, app, streams, request, task, displays, saved>>
  BY DEF displayVars
<1> QED
  BY <1>1 DEF DisplayInv, DisplayTypes, Settled, ModeInv, Plain

LEMMA BootStands ==
    ASSUME UNCHANGED bootVars
    PROVE  /\ BootInv => BootInv'
           /\ Answer(options.web) => Answer(options.web)'
           /\ NetworkInv => NetworkInv'
           /\ SourcesInv => SourcesInv'
<1>1. UNCHANGED <<bootPc, caps, pool, options, upnp, router, mdns, window, sources, verified, opened>>
  BY DEF bootVars
<1>2. BootInv => BootInv'
  BY <1>1 DEF BootInv, CapsInv, CapsAre, Boot!PrivilegesArePlaced
<1>3. NetworkInv => NetworkInv'
  BY <1>1 DEF NetworkInv, Network!AnnouncedByName, Closed, Network!Mappings
<1>4. SourcesInv => SourcesInv'
  BY <1>1 DEF SourcesInv
<1> QED
  BY <1>1, <1>2, <1>3, <1>4 DEF Answer

LEMMA HostStep == ASSUME HostInv, [Steps]_allVars PROVE HostInv'
<1>1. /\ focus' = focus
      /\ [focus = "screen" /\ Screen!Next]_screenVars
      /\ [focus = "portal" /\ Portal!Next]_portalVars
      /\ [focus = "steam" /\ Steam!Next]_steamVars
      /\ [focus = "identity" /\ Identity!Next]_identityVars
      /\ \/ focus = "display" /\ Display!Next
         \/ focus = "parse" /\ Parse!Next
         \/ UNCHANGED displayVars
      /\ \/ focus = "boot" /\ Boot!Next
         \/ focus = "options" /\ Options!Next
         \/ focus = "network" /\ Network!Next
         \/ focus = "sources" /\ Sources!Next
         \/ UNCHANGED bootVars
  BY ComponentSteps
<1>2. ScreenInv'
  BY <1>1, ScreenKept, ScreenStands DEF HostInv
<1>3. PortalInv'
  BY <1>1, PortalKept, PortalStands DEF HostInv
<1>4. SteamInv'
  BY <1>1, SteamKept, SteamStands DEF HostInv
<1>5. IdentityInv'
  BY <1>1, IdentityKept, IdentityStands DEF HostInv
<1>6. DisplayInv' /\ (focus = "parse" => ModeInv')
  <2>1. CASE UNCHANGED displayVars
    BY <2>1, DisplayStands DEF HostInv
  <2>2. CASE focus = "display" /\ Display!Next
    BY <2>2, DisplayKept DEF HostInv
  <2>3. CASE focus = "parse" /\ Parse!Next
    BY <2>3, DisplayKept, ModeKept DEF HostInv
  <2> QED
    BY <1>1, <2>1, <2>2, <2>3
<1>7. /\ focus = "boot" => BootInv'
      /\ focus = "options" => Answer(options.web)'
      /\ focus = "network" => NetworkInv'
      /\ focus = "sources" => SourcesInv'
  <2>1. CASE UNCHANGED bootVars
    BY <2>1, BootStands DEF HostInv
  <2>2. CASE focus = "boot" /\ Boot!Next
    BY <2>2, BootKept DEF HostInv
  <2>3. CASE focus = "options" /\ Options!Next
    BY <2>3, OptionsKept DEF HostInv
  <2>4. CASE focus = "network" /\ Network!Next
    BY <2>4, NetworkKept DEF HostInv
  <2>5. CASE focus = "sources" /\ Sources!Next
    BY <2>5, SourcesKept DEF HostInv
  <2> QED
    BY <1>1, <2>1, <2>2, <2>3, <2>4, <2>5
<1> QED
  BY <1>1, <1>2, <1>3, <1>4, <1>5, <1>6, <1>7 DEF HostInv

LEMMA HostKept == SuiteSpec => []HostInv
<1>1. Start => HostInv
  BY HostBegins
<1>2. HostInv /\ [Steps]_allVars => HostInv'
  BY HostStep
<1> QED
  BY <1>1, <1>2, PTL DEF SuiteSpec

(* What a part of the host uses was checked for it: no buffer returns to a *)
(* stream that is gone (PipewireCapture), a screen is used after its       *)
(* session was granted (ScreenCast), one Steam runs and its ancestry was   *)
(* read to the end (SteamPlacement), an identity that is handed out is     *)
(* the compositor's, whoever got its pid since (SourceIdentity), and a     *)
(* screen source passed its check, is virtual on a headless host and has   *)
(* the worker it needs (HostLifecycle).                                    *)
THEOREM SourcesVerified == SuiteSpec => []SourcesAreVerified
<1>1. HostInv => SourcesAreVerified
  BY ScreenReturns, PortalGranted, SteamIsOne, IdentityIsFresh, SourcesPassed
     DEF HostInv, SourcesAreVerified
<1> QED
  BY <1>1, HostKept, PTL

(* What is lent is given back: the displays of a client that left are put  *)
(* back and no mode is changed for one that did not ask (DisplaySettings), *)
(* the capabilities stay with the two workers, a web interface remains,    *)
(* the router's ports are closed and the service has the free name         *)
(* (HostLifecycle).                                                        *)
THEOREM LentIsReturned == SuiteSpec => []HostIsLentOut
<1>1. BootInv => Boot!PrivilegesArePlaced
  BY DEF BootInv
<1>2. HostInv => HostIsLentOut
  BY <1>1, DisplayReverted, ModesArePlain, InterfaceAnswers, NetworkIsClosed
     DEF HostInv, HostIsLentOut
<1> QED
  BY <1>2, HostKept, PTL
-----------------------------------------------------------------------------
(* HostLifecycle.  Until main() starts its servers there are none, from    *)
(* the HTTP identity on the pool runs, and a way out that has not undone   *)
(* the applications left before the servers.                               *)
Unserved ==
    Early \cup {"config", "command", "recover", "pool", "http", "publish", "peek", "threads"}

Pooled == {"http", "publish", "peek", "threads", "tray", "loop", "join", "undo", "stop"}

NoServer == \A t \in HostServices : bootService[t] = "none"

UndoInv ==
    /\ bootPc \in Unserved => NoServer
    /\ bootPc \in Pooled => pool = "running"
    /\ bootPc = "undo" => \A t \in HostServices : bootService[t] = "ended"
    /\ bootPc = "stop" => undone
    /\ bootPc = "unwind" /\ ~undone => NoServer /\ pool = "running"

UndoneLast ==
    undone' /\ ~undone =>
        /\ pool = "running"
        /\ \A t \in HostServices : bootService[t] \in {"none", "ended"}

LEMMA UndoBegins == Boot!Init => UndoInv
  BY DEF Boot!Init, UndoInv, NoServer, Unserved, Pooled, Early

LEMMA UndoKept == ASSUME UndoInv, Boot!Next PROVE UndoInv' /\ UndoneLast
<1> USE DEF Early, Unserved, Pooled, NoServer, UndoInv, UndoneLast
<1>1. CASE Boot!Sanitize \/ Boot!ReadConfig \/ Boot!RunCommand \/ Boot!InitHttp
           \/ Boot!PeekShutdown \/ Boot!Publish
  BY <1>1 DEF Boot!Sanitize, Boot!ReadConfig, Boot!RunCommand, Boot!InitHttp,
              Boot!PeekShutdown, Boot!Publish, Boot!Return, Boot!threadVars
<1>2. CASE Boot!Privileges \/ Boot!Recover \/ Boot!StartPool
  <2>1. CASE Boot!Privileges
    <3>1. /\ UNCHANGED <<pool, bootService, undone>>
          /\ bootPc \in Early /\ bootPc' \in Early \cup {"config"}
      BY <2>1 DEF Boot!Privileges, Boot!Go
    <3> QED
      BY <3>1
  <2>2. CASE Boot!Recover
    BY <2>2 DEF Boot!Recover, Boot!Go
  <2>3. CASE Boot!StartPool
    BY <2>3 DEF Boot!StartPool, Boot!Go
  <2> QED
    BY <1>2, <2>1, <2>2, <2>3
<1>3. CASE Boot!StartThreads \/ Boot!StartTray \/ Boot!LeaveLoop \/ Boot!JoinThreads
  BY <1>3 DEF Boot!StartThreads, Boot!StartTray, Boot!LeaveLoop, Boot!JoinThreads, Boot!Go,
              Boot!threadVars
<1>4. CASE Boot!StopPool
  BY <1>4 DEF Boot!StopPool, Boot!Go, Boot!Return
<1>5. CASE Boot!Unwind
  BY <1>5 DEF Boot!Unwind
<1>6. CASE \/ UNCHANGED <<bootPc, pool, bootService, undone>>
           \/ bootPc' = "trapped" /\ UNCHANGED undone
  BY <1>6
<1>7. ASSUME NEW t \in HostServices, NEW state \in {"serving", "ended", "hung"},
             bootService[t] \in {"starting", "serving"},
             bootService' = [bootService EXCEPT ![t] = state],
             UNCHANGED <<bootPc, pool, undone>>
      PROVE  UndoInv' /\ UndoneLast
  BY <1>7
<1>8. CASE Boot!LoseTray \/ Boot!ExitSunshine \/ Boot!Terminate \/ Boot!AskShutdown
           \/ Boot!ForceShutdown
  BY <1>6, <1>8 DEF Boot!LoseTray, Boot!ExitSunshine, Boot!Terminate, Boot!AskShutdown,
                    Boot!ForceShutdown, Boot!threadVars
<1>9. ASSUME NEW s \in Boot!Signals, Boot!Handler(s)
      PROVE  UNCHANGED <<bootPc, pool, bootService, undone>>
  BY <1>9 DEF Boot!Handler, Boot!PushWatchdog, Boot!RaiseShutdown, Boot!EndTray,
              Boot!ReadGuard, Boot!DropGuard, Boot!HandlerStep
<1>10. ASSUME NEW t \in HostServices,
              Boot!Serve(t) \/ Boot!ServiceEnds(t) \/ Boot!ServiceHangs(t)
       PROVE  UndoInv' /\ UndoneLast
  BY <1>7, <1>10 DEF Boot!Serve, Boot!ServiceEnds, Boot!ServiceHangs
<1>11. CASE Boot!Upnp \/ Boot!RouterForgets \/ Boot!Mdns \/ Boot!Sources
  <2>1. Boot!UpnpStep \/ Boot!MdnsStep \/ Boot!SourceStep
    BY <1>11 DEF Boot!Upnp, Boot!Discover, Boot!MapPort, Boot!MapDone, Boot!Refresh,
                 Boot!Unmap, Boot!RouterForgets, Boot!Mdns, Boot!ClientCallback,
                 Boot!EntryGroupCallback, Boot!PollThreadEnds, Boot!Sources,
                 Boot!ProbeSources, Boot!RefreshCaptureEnvironment, Boot!DisplayNames,
                 Boot!Display, Boot!HostChanges
  <2> QED
    BY <1>6, <2>1 DEF Boot!UpnpStep, Boot!MdnsStep, Boot!SourceStep, Boot!threadVars
<1>12. CASE Boot!Main
  BY <1>1, <1>2, <1>3, <1>4, <1>5, <1>12 DEF Boot!Main
<1> QED
  BY <1>8, <1>9, <1>10, <1>11, <1>12 DEF Boot!Next

(* Where the suite looks at one thing after the configuration was read, or *)
(* at the configuration itself, main() never comes to its end.             *)
Calm == {"config", "command", "published", "exited", "trapped"}

LEMMA OptionsAreCalm ==
    ASSUME bootPc \in Calm, Options!Next
    PROVE  bootPc' \in Calm /\ UNCHANGED undone
<1> USE DEF Calm
<1>1. CASE Options!ReadConfig \/ Options!Publish
  BY <1>1 DEF Options!ReadConfig, Options!Publish, Options!threadVars
<1>2. ~Options!Sanitize /\ ~Options!RunCommand /\ ~Options!InitHttp /\ ~Options!PeekShutdown /\ ~Options!Unwind
  BY DEF Options!Sanitize, Options!RunCommand, Options!InitHttp, Options!PeekShutdown, Options!Unwind
<1>3. /\ ~Options!Privileges /\ ~Options!Recover /\ ~Options!StartPool /\ ~Options!StartThreads
      /\ ~Options!StartTray /\ ~Options!LeaveLoop /\ ~Options!JoinThreads /\ ~Options!StopPool
  BY DEF Options!Privileges, Options!Recover, Options!StartPool, Options!StartThreads, Options!StartTray,
         Options!LeaveLoop, Options!JoinThreads, Options!StopPool, Options!Go
<1>4. CASE Options!LoseTray \/ Options!ExitSunshine \/ Options!Terminate \/ Options!AskShutdown
           \/ Options!ForceShutdown
  BY <1>4 DEF Options!LoseTray, Options!ExitSunshine, Options!Terminate, Options!AskShutdown,
              Options!ForceShutdown, Options!threadVars
<1>5. ASSUME NEW s, Options!Handler(s) PROVE UNCHANGED <<bootPc, undone>>
  BY <1>5 DEF Options!Handler, Options!PushWatchdog, Options!RaiseShutdown, Options!EndTray, Options!ReadGuard,
              Options!DropGuard, Options!HandlerStep
<1>6. ASSUME NEW t, Options!Serve(t) \/ Options!ServiceEnds(t) \/ Options!ServiceHangs(t)
      PROVE  UNCHANGED <<bootPc, undone>>
  BY <1>6 DEF Options!Serve, Options!ServiceEnds, Options!ServiceHangs
<1>7. CASE Options!Upnp \/ Options!RouterForgets \/ Options!Mdns \/ Options!Sources
  <2>1. Options!UpnpStep \/ Options!MdnsStep \/ Options!SourceStep
    BY <1>7 DEF Options!Upnp, Options!Discover, Options!MapPort, Options!MapDone, Options!Refresh, Options!Unmap,
                Options!RouterForgets, Options!Mdns, Options!ClientCallback, Options!EntryGroupCallback,
                Options!PollThreadEnds, Options!Sources, Options!ProbeSources,
                Options!RefreshCaptureEnvironment, Options!DisplayNames, Options!Display, Options!HostChanges
  <2> QED
    BY <2>1 DEF Options!UpnpStep, Options!MdnsStep, Options!SourceStep, Options!threadVars
<1>8. CASE Options!Main
  BY <1>1, <1>2, <1>3, <1>8 DEF Options!Main
<1> QED
  BY <1>4, <1>5, <1>6, <1>7, <1>8 DEF Options!Next

LEMMA NetworkIsCalm ==
    ASSUME bootPc \in Calm, Network!Next
    PROVE  bootPc' \in Calm /\ UNCHANGED undone
<1> USE DEF Calm
<1>1. CASE Network!ReadConfig \/ Network!Publish
  BY <1>1 DEF Network!ReadConfig, Network!Publish, Network!threadVars
<1>2. ~Network!Sanitize /\ ~Network!RunCommand /\ ~Network!InitHttp /\ ~Network!PeekShutdown /\ ~Network!Unwind
  BY DEF Network!Sanitize, Network!RunCommand, Network!InitHttp, Network!PeekShutdown, Network!Unwind
<1>3. /\ ~Network!Privileges /\ ~Network!Recover /\ ~Network!StartPool /\ ~Network!StartThreads
      /\ ~Network!StartTray /\ ~Network!LeaveLoop /\ ~Network!JoinThreads /\ ~Network!StopPool
  BY DEF Network!Privileges, Network!Recover, Network!StartPool, Network!StartThreads, Network!StartTray,
         Network!LeaveLoop, Network!JoinThreads, Network!StopPool, Network!Go
<1>4. CASE Network!LoseTray \/ Network!ExitSunshine \/ Network!Terminate \/ Network!AskShutdown
           \/ Network!ForceShutdown
  BY <1>4 DEF Network!LoseTray, Network!ExitSunshine, Network!Terminate, Network!AskShutdown,
              Network!ForceShutdown, Network!threadVars
<1>5. ASSUME NEW s, Network!Handler(s) PROVE UNCHANGED <<bootPc, undone>>
  BY <1>5 DEF Network!Handler, Network!PushWatchdog, Network!RaiseShutdown, Network!EndTray, Network!ReadGuard,
              Network!DropGuard, Network!HandlerStep
<1>6. ASSUME NEW t, Network!Serve(t) \/ Network!ServiceEnds(t) \/ Network!ServiceHangs(t)
      PROVE  UNCHANGED <<bootPc, undone>>
  BY <1>6 DEF Network!Serve, Network!ServiceEnds, Network!ServiceHangs
<1>7. CASE Network!Upnp \/ Network!RouterForgets \/ Network!Mdns \/ Network!Sources
  <2>1. Network!UpnpStep \/ Network!MdnsStep \/ Network!SourceStep
    BY <1>7 DEF Network!Upnp, Network!Discover, Network!MapPort, Network!MapDone, Network!Refresh, Network!Unmap,
                Network!RouterForgets, Network!Mdns, Network!ClientCallback, Network!EntryGroupCallback,
                Network!PollThreadEnds, Network!Sources, Network!ProbeSources,
                Network!RefreshCaptureEnvironment, Network!DisplayNames, Network!Display, Network!HostChanges
  <2> QED
    BY <2>1 DEF Network!UpnpStep, Network!MdnsStep, Network!SourceStep, Network!threadVars
<1>8. CASE Network!Main
  BY <1>1, <1>2, <1>3, <1>8 DEF Network!Main
<1> QED
  BY <1>4, <1>5, <1>6, <1>7, <1>8 DEF Network!Next

LEMMA SourcesAreCalm ==
    ASSUME bootPc \in Calm, Sources!Next
    PROVE  bootPc' \in Calm /\ UNCHANGED undone
<1> USE DEF Calm
<1>1. CASE Sources!ReadConfig \/ Sources!Publish
  BY <1>1 DEF Sources!ReadConfig, Sources!Publish, Sources!threadVars
<1>2. ~Sources!Sanitize /\ ~Sources!RunCommand /\ ~Sources!InitHttp /\ ~Sources!PeekShutdown /\ ~Sources!Unwind
  BY DEF Sources!Sanitize, Sources!RunCommand, Sources!InitHttp, Sources!PeekShutdown, Sources!Unwind
<1>3. /\ ~Sources!Privileges /\ ~Sources!Recover /\ ~Sources!StartPool /\ ~Sources!StartThreads
      /\ ~Sources!StartTray /\ ~Sources!LeaveLoop /\ ~Sources!JoinThreads /\ ~Sources!StopPool
  BY DEF Sources!Privileges, Sources!Recover, Sources!StartPool, Sources!StartThreads, Sources!StartTray,
         Sources!LeaveLoop, Sources!JoinThreads, Sources!StopPool, Sources!Go
<1>4. CASE Sources!LoseTray \/ Sources!ExitSunshine \/ Sources!Terminate \/ Sources!AskShutdown
           \/ Sources!ForceShutdown
  BY <1>4 DEF Sources!LoseTray, Sources!ExitSunshine, Sources!Terminate, Sources!AskShutdown,
              Sources!ForceShutdown, Sources!threadVars
<1>5. ASSUME NEW s, Sources!Handler(s) PROVE UNCHANGED <<bootPc, undone>>
  BY <1>5 DEF Sources!Handler, Sources!PushWatchdog, Sources!RaiseShutdown, Sources!EndTray, Sources!ReadGuard,
              Sources!DropGuard, Sources!HandlerStep
<1>6. ASSUME NEW t, Sources!Serve(t) \/ Sources!ServiceEnds(t) \/ Sources!ServiceHangs(t)
      PROVE  UNCHANGED <<bootPc, undone>>
  BY <1>6 DEF Sources!Serve, Sources!ServiceEnds, Sources!ServiceHangs
<1>7. CASE Sources!Upnp \/ Sources!RouterForgets \/ Sources!Mdns \/ Sources!Sources
  <2>1. Sources!UpnpStep \/ Sources!MdnsStep \/ Sources!SourceStep
    BY <1>7 DEF Sources!Upnp, Sources!Discover, Sources!MapPort, Sources!MapDone, Sources!Refresh, Sources!Unmap,
                Sources!RouterForgets, Sources!Mdns, Sources!ClientCallback, Sources!EntryGroupCallback,
                Sources!PollThreadEnds, Sources!Sources, Sources!ProbeSources,
                Sources!RefreshCaptureEnvironment, Sources!DisplayNames, Sources!Display, Sources!HostChanges
  <2> QED
    BY <2>1 DEF Sources!UpnpStep, Sources!MdnsStep, Sources!SourceStep, Sources!threadVars
<1>8. CASE Sources!Main
  BY <1>1, <1>2, <1>3, <1>8 DEF Sources!Main
<1> QED
  BY <1>4, <1>5, <1>6, <1>7, <1>8 DEF Sources!Next

EndInv ==
    /\ focus = "boot" => UndoInv
    /\ focus \in {"options", "network", "sources"} => bootPc \in Calm

(* main() undoes the applications last: once every server has ended, or    *)
(* before any was started, and while the task pool is there for what the   *)
(* undo commands schedule (HostLifecycle).                                 *)
THEOREM UndoneAtLast == SuiteSpec => Boot!UndoneWithPool
<1>1. Start => EndInv
  <2> SUFFICES ASSUME Start PROVE EndInv
    OBVIOUS
  <2>1. focus = "boot" => Boot!Init
    BY DEF Start
  <2>2. focus \in {"options", "network", "sources"} => bootPc = "config"
    BY DEF Start, Options!Init, Network!Init, Sources!Init
  <2> QED
    BY <2>1, <2>2, UndoBegins DEF EndInv, Calm
<1>2. EndInv /\ [Steps]_allVars => EndInv' /\ [UndoneLast]_(Boot!lifeVars)
  <2> SUFFICES ASSUME EndInv, [Steps]_allVars PROVE EndInv' /\ UndoneLast
    OBVIOUS
  <2>1. focus' = focus
    BY ComponentSteps
  <2>2. CASE UNCHANGED bootVars
    BY <2>1, <2>2 DEF EndInv, UndoInv, UndoneLast, NoServer, bootVars
  <2>3. CASE focus = "boot" /\ Boot!Next
    BY <2>1, <2>3, UndoKept DEF EndInv
  <2>4. CASE focus = "options" /\ Options!Next
    BY <2>1, <2>4, OptionsAreCalm DEF EndInv, UndoneLast
  <2>5. CASE focus = "network" /\ Network!Next
    BY <2>1, <2>5, NetworkIsCalm DEF EndInv, UndoneLast
  <2>6. CASE focus = "sources" /\ Sources!Next
    BY <2>1, <2>6, SourcesAreCalm DEF EndInv, UndoneLast
  <2> QED
    BY <2>2, <2>3, <2>4, <2>5, <2>6, ComponentSteps
<1> QED
  BY <1>1, <1>2, PTL DEF SuiteSpec, Boot!UndoneWithPool, UndoneLast
=============================================================================
