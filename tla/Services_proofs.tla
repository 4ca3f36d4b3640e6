-------------------------- MODULE Services_proofs --------------------------
(***************************************************************************)
(* The invariants of MCServices for any tasks, producers, sessions,        *)
(* shells, streams, devices, keys and profiles, and any bounds: each       *)
(* component has an inductive invariant of its own (LaunchInv,             *)
(* TerminalInv, PairingInv, RecordingInv, PoolInv, MailInv, WebInv,        *)
(* ApiInv, AppInv, SettingsInv, PowerInv), which its own steps keep and no *)
(* other component's step touches.                                         *)
(***************************************************************************)
EXTENDS MCServices, SequenceTheorems, TLAPS, WellFoundedInduction

(* A step of the suite is one of the component it looks at, or leaves it.  *)
LEMMA ComponentSteps ==
    ASSUME [Steps]_allVars
    PROVE  /\ focus' = focus
           /\ [focus = "route" /\ input' \in Route!PrepareInputs]_routeVars
           /\ [\/ focus = "app" /\ App!Next
               \/ focus = "threads" /\ AppThreads!Next]_appVars
           /\ [focus = "pool" /\ Queues!PoolNext]_poolVars
           /\ [focus = "mail" /\ Queues!MailNext]_mailVars
           /\ [focus = "web" /\ Web!Next]_webVars
           /\ [focus = "api" /\ Api!Next]_apiVars
           /\ [\/ focus = "settings" /\ Settings!Next
               \/ focus = "performance" /\ Performance!Next]_settingsVars
           /\ [focus = "terminal" /\ Term!Next]_terminalVars
           /\ [focus = "recording" /\ Rec!Next]_recordingVars
           /\ [focus = "pairing" /\ Pair!Next]_pairingVars
  BY DEF Steps, OnlyFocus, allVars

-----------------------------------------------------------------------------
(* RtspLaunch, for any clients and any number of launches. *)

(* The HTTPS thread arms the timer for a launch it has counted. *)
ArmInv == https = "arm" => count # 0

LaunchInv == TypeOK /\ ArmInv /\ PendingIsRemoved

(* Every state of the program is reached with the types of TypeOK, an      *)
(* armed launch that was counted, and no launch left pending for ever.     *)
THEOREM LaunchInvariance == Spec => []LaunchInv
<1>1. Init => LaunchInv
  BY LaunchAssumption DEF Init, LaunchInv, TypeOK, ArmInv, PendingIsRemoved, Launches
<1>2. LaunchInv /\ [Next]_vars => LaunchInv'
  <2> SUFFICES ASSUME LaunchInv, [Next]_vars PROVE LaunchInv'
    OBVIOUS
  <2> USE LaunchAssumption, PlainAssumption
      DEF LaunchInv, TypeOK, ArmInv, PendingIsRemoved, Launches
  <2>1. CASE Launch
    BY <2>1 DEF Launch
  <2>2. CASE Arm
    BY <2>2 DEF Arm
  <2>3. CASE TimerExpires
    BY <2>3 DEF TimerExpires
  <2>4. CASE Discard
    BY <2>4 DEF Discard
  <2>5. CASE ClearCancel
    BY <2>5 DEF ClearCancel
  <2>6. CASE ClearPop
    BY <2>6 DEF ClearPop
  <2>7. ASSUME NEW c \in Clients, Accept(c) PROVE LaunchInv'
    BY <2>7 DEF Accept
  <2>8. ASSUME NEW c \in Clients, Announce(c) PROVE LaunchInv'
    BY <2>8 DEF Announce
  <2>9. ASSUME NEW c \in Clients, NEW l \in Launches, ControlConnect(c, l)
        PROVE  LaunchInv'
    BY <2>9 DEF ControlConnect, Matches
  <2>10. ASSUME NEW c \in Clients, NEW l \in Launches, SessionEnds(c, l)
         PROVE  LaunchInv'
    BY <2>10 DEF SessionEnds
  <2>11. CASE UNCHANGED vars
    BY <2>11 DEF vars
  <2> QED
    BY <2>1, <2>2, <2>3, <2>4, <2>5, <2>6, <2>7, <2>8, <2>9, <2>10, <2>11 DEF Next
<1> QED
  BY <1>1, <1>2, PTL DEF Spec

(* Type correctness of the launch handshake. *)
THEOREM TypeCorrect == Spec => []TypeOK
<1>1. LaunchInv => TypeOK
  BY DEF LaunchInv
<1> QED
  BY <1>1, LaunchInvariance, PTL

(* However session_raise, the timer and session_clear interleave, a        *)
(* pending launch has a timer, a queued handler or a clear that removes it. *)
THEOREM NoLaunchStays == Spec => []PendingIsRemoved
<1>1. LaunchInv => PendingIsRemoved
  BY DEF LaunchInv
<1> QED
  BY <1>1, LaunchInvariance, PTL

-----------------------------------------------------------------------------
(* What the sequences of the components are made with. *)
LEMMA Appended ==
    ASSUME NEW S, NEW s \in Seq(S), NEW e \in S
    PROVE  /\ Append(s, e) \in Seq(S) /\ Len(Append(s, e)) = Len(s) + 1
           /\ \A i \in 1..Len(s) : Append(s, e)[i] = s[i]
           /\ Append(s, e)[Len(s) + 1] = e
  OBVIOUS

(* The first element of a sequence, and what is left without it.           *)
LEMMA Popped ==
    ASSUME NEW S, NEW s \in Seq(S), s # <<>>
    PROVE  /\ Len(s) >= 1 /\ Head(s) = s[1] /\ Head(s) \in S
           /\ Tail(s) \in Seq(S) /\ Len(Tail(s)) = Len(s) - 1
           /\ \A i \in 1..(Len(s) - 1) : Tail(s)[i] = s[i + 1]
  OBVIOUS

(* A set of natural numbers has a least one. *)
LEMMA LeastNatural ==
    ASSUME NEW S \in SUBSET Nat, S # {}
    PROVE  \E n \in S : \A m \in S : n <= m
<1>1. PICK n \in S : \A m \in S : ~(<<m, n>> \in OpToRel(<, Nat))
  BY NatLessThanWellFounded, WFMin
<1>2. \A m \in S : ~(m < n)
  BY <1>1 DEF OpToRel
<1> QED
  BY <1>2

-----------------------------------------------------------------------------
(* Routes. *)

(* The rules of select_session_route give every input of prepare() the     *)
(* route the documents name.                                               *)
LEMMA RulesAgree ==
    ASSUME NEW i \in Route!PrepareInputs
    PROVE  Route!RoutedAsDocumented(i)
<1> SUFFICES ASSUME i.prefer \/ ~Route!OwnedOnly(i)
             PROVE  Route!SelectSessionRoute(i) = Route!DocumentedRoute(i)
  BY DEF Route!RoutedAsDocumented
<1> USE DEF Route!PrepareInputs, Route!RouteInputs, Route!SelectSessionRoute,
            Route!DocumentedRoute
<1>1. CASE i.prefer
  BY <1>1
<1>2. CASE ~i.prefer /\ (~i.feature \/ i.mode = "off")
  BY <1>2
<1>3. CASE ~i.prefer /\ i.feature /\ i.mode # "off"
  BY <1>3 DEF Route!OwnedOnly, Route!AutomaticRoute, Route!Modes, Route!Policies
<1> QED
  BY <1>1, <1>2, <1>3

(* Every launch, whatever the host, the configuration and the request, is  *)
(* given the documented route, or asks for one of the two settings that    *)
(* the documents and the code treat differently.                           *)
THEOREM DocumentedRoutes == SuiteSpec => []RouteAsDocumented
<1> DEFINE Inv == input \in Route!PrepareInputs
<1>1. Start => Inv
  BY DEF Start
<1>2. Inv /\ [Steps]_allVars => Inv'
  BY ComponentSteps DEF routeVars
<1>3. Inv => RouteAsDocumented
  BY RulesAgree DEF RouteAsDocumented
<1> QED
  BY <1>1, <1>2, <1>3, PTL DEF SuiteSpec
-----------------------------------------------------------------------------
(* The application process, driven by one thread. *)
Here == pc["https"]
(* What the requests of the web server ask for.                            *)
Calls == {"launch", "cancel", "info"}

(* Where a call of terminate() may come from. *)
Returns ==
    {<<"setup">>, <<"idle">>, <<"failed">>, <<"retry">>, <<"off">>} \cup
    {<<"reap", call>> : call \in Calls}

(* Nothing of the last application is left, or only its undo commands.     *)
Undone == handle = "none" /\ ~placebo

(* What is owed is the prefix the iterator marks; the process and the      *)
(* placebo end before the first undo command; and where the thread stands  *)
(* tells what is left: an application, a part of one that is being started *)
(* or terminated, or nothing.                                              *)
AppInv ==
    /\ it \in 0..Commands
    /\ DOMAIN due = 1..Commands
    /\ pc \in [{"https"} -> {"idle", "poll", "reap", "kill", "undo", "undowait", "reset", "setup",
                             "prep", "dowait", "spawn", "retry", "off"}]
    /\ DOMAIN then = {"https"} /\ DOMAIN child = {"https"}
    /\ \A i \in 1..Commands : due[i] = IF i < it \/ (i = it /\ Here # "undowait") THEN 1 ELSE 0
    /\ Here \in {"poll", "reap"} => then["https"] \in {<<call>> : call \in Calls}
    /\ Here \in {"kill", "undo", "undowait", "reset"} => then["https"] \in Returns
    /\ Here \in {"idle", "setup", "prep", "dowait", "spawn", "retry", "off"} => then["https"] = <<>>
    /\ child["https"] \in (IF Here \in {"dowait", "undowait"} THEN {"run", "exit"} ELSE {"none"})
    /\ Here \in {"idle", "poll", "reap"} => app = 1 \/ (app \in {-1, 0} /\ Undone /\ it = 0)
    /\ Here \in {"undo", "undowait", "reset", "setup", "prep", "dowait", "spawn", "retry", "off"}
          => Undone
    /\ Here = "undowait" => it # 0
    /\ Here \in {"reset", "setup", "retry", "off"} => it = 0
    /\ Here \in {"setup", "retry", "off"} => app = -1
    /\ Here \in {"prep", "dowait", "spawn"} => app = 1

(* The process manager starts with nothing to undo.                        *)
LEMMA AppStarts == App!Init => AppInv
BY AppAssumption DEF App!Init, App!Preps, AppInv, Here, Undone

(* What is on the stack of a thread. *)
LEMMA Stacked ==
    /\ \A x : <<x>> \o <<>> = <<x>> /\ Head(<<x>>) = x /\ Tail(<<x>>) = <<>>
    /\ \A x, y : <<x>> \o <<y>> = <<x, y>>
    /\ \A x, y : Head(<<x, y>>) = x
    /\ \A x, y : Tail(<<x, y>>) = <<y>>
<1>1. \A x : <<x>> \o <<>> = <<x>> /\ Head(<<x>>) = x /\ Tail(<<x>>) = <<>>
  OBVIOUS
<1>2. \A x, y : <<x>> \o <<y>> = <<x, y>>
  <2> TAKE x, y
  <2> DEFINE s == <<x>> \o <<y>>  p == <<x, y>>
  <2>1. s \in Seq({x, y}) /\ Len(s) = 2 /\ s[1] = x /\ s[2] = y
    OBVIOUS
  <2>2. p \in Seq({x, y}) /\ Len(p) = 2 /\ p[1] = x /\ p[2] = y
    OBVIOUS
  <2> HIDE DEF s, p
  <2>3. \A i \in 1..Len(s) : s[i] = p[i]
    BY <2>1, <2>2
  <2>4. s = p
    BY <2>1, <2>2, <2>3, SeqEqual
  <2> QED
    BY <2>4 DEF s, p
<1>3. \A x, y : Head(<<x, y>>) = x
  OBVIOUS
<1>4. \A x, y : Tail(<<x, y>>) = <<y>>
  OBVIOUS
<1> QED
  BY <1>1, <1>2, <1>3, <1>4

(* Every step of the one thread, of a child or of the application keeps    *)
(* the invariant.                                                          *)
LEMMA AppKept ==
    ASSUME AppInv, [App!Next]_appVars
    PROVE  AppInv'
<1>0. ASSUME UNCHANGED appVars PROVE AppInv'
  BY <1>0 DEF AppInv, Here, Undone, appVars
<1> USE AppAssumption DEF App!Goto, App!Terminate, App!Return, Here, Undone, App!object
<1>1. ASSUME App!Requests PROVE AppInv'
  BY <1>1 DEF App!Requests, App!Request, AppInv, Calls
<1>2. ~App!Close /\ ~App!Edit
  BY DEF App!Close, App!Edit
<1>3. ASSUME App!Shutdown PROVE AppInv'
  BY <1>3, Stacked DEF App!Shutdown, AppInv, Returns
<1>4. ASSUME App!AppExits PROVE AppInv'
  BY <1>4 DEF App!AppExits, AppInv
<1>5. ASSUME App!Running("https") PROVE AppInv'
  <2>1. PICK call \in Calls : then["https"] = <<call>>
    BY <1>5 DEF App!Running, AppInv
  <2>2. <<"reap">> \o then["https"] = <<"reap", call>>
    BY <2>1, Stacked
  <2> QED
    BY <1>5, <2>1, <2>2 DEF App!Running, AppInv, Returns
<1>6. ASSUME App!Reap("https") PROVE AppInv'
  BY <1>6 DEF App!Reap, AppInv, Returns, Calls
<1>7. ASSUME App!Kill("https") PROVE AppInv'
  BY <1>7 DEF App!Kill, AppInv
<1>8. ASSUME App!Undo("https") PROVE AppInv'
  BY <1>8 DEF App!Undo, App!Clip, App!Preps, AppInv
<1>9. ASSUME App!UndoWait("https") PROVE AppInv'
  BY <1>9 DEF App!UndoWait, AppInv
<1>10. ~App!UndoThrows("https")
  BY DEF App!UndoThrows, AppInv
<1>11. ASSUME App!UndoEnd("https") PROVE AppInv'
  BY <1>11 DEF App!UndoEnd, AppInv
<1>12. ASSUME App!Reset("https") PROVE AppInv'
  <2>1. Here = "reset" /\ then["https"] \in Returns /\ it = 0 /\ Undone
    BY <1>12 DEF App!Reset, AppInv
  <2>2. CASE \E call \in Calls : then["https"] = <<"reap", call>>
    <3>1. PICK call \in Calls : then["https"] = <<"reap", call>>
      BY <2>2
    <3>2. Head(then["https"]) = "reap" /\ Tail(then["https"]) = <<call>>
      BY <3>1, Stacked
    <3> QED
      BY <1>12, <2>1, <3>2 DEF App!Reset, AppInv
  <2>3. CASE \E to \in {"setup", "idle", "failed", "retry", "off"} : then["https"] = <<to>>
    <3>1. PICK to \in {"setup", "idle", "failed", "retry", "off"} : then["https"] = <<to>>
      BY <2>3
    <3>2. Head(then["https"]) = to /\ Tail(then["https"]) = <<>>
      BY <3>1, Stacked
    <3> QED
      BY <1>12, <2>1, <3>1, <3>2 DEF App!Reset, AppInv
  <2> QED
    BY <2>1, <2>2, <2>3 DEF Returns
<1>13. ASSUME App!ChildExits("https") PROVE AppInv'
  BY <1>13 DEF App!ChildExits, AppInv
<1>14. ASSUME App!Setup PROVE AppInv'
  BY <1>14 DEF App!Setup, AppInv
<1>15. ASSUME App!Prep PROVE AppInv'
  BY <1>15 DEF App!Prep, App!Passed, App!Clip, AppInv, Returns
<1>16. ASSUME App!DoWait PROVE AppInv'
  <2>1. Here = "dowait" /\ then["https"] = <<>> /\ app = 1 /\ Undone /\ it \in 0..Commands
    BY <1>16 DEF App!DoWait, AppInv
  <2>2. CASE App!Goto("https", "dowait", "prep") /\ App!Passed /\ UNCHANGED then
    BY <1>16, <2>1, <2>2 DEF App!DoWait, App!Passed, App!Clip, AppInv
  <2>3. CASE App!Terminate("https", "dowait", "failed") /\ UNCHANGED <<it, due>>
    BY <1>16, <2>1, <2>3, Stacked DEF App!DoWait, AppInv, Returns
  <2>4. CASE App!Terminate("https", "dowait", "retry") /\ App!Passed
    BY <1>16, <2>1, <2>4, Stacked DEF App!DoWait, App!Passed, App!Clip, AppInv, Returns
  <2> QED
    BY <1>16, <2>2, <2>3, <2>4 DEF App!DoWait
<1>17. ASSUME App!PrepEnd PROVE AppInv'
  BY <1>17 DEF App!PrepEnd, AppInv
<1>18. ASSUME App!Spawn PROVE AppInv'
  BY <1>18 DEF App!Spawn, AppInv, Returns
<1>19. ASSUME App!Retry PROVE AppInv'
  BY <1>19 DEF App!Retry, AppInv, Returns
<1> QED
  BY <1>0, <1>1, <1>2, <1>3, <1>4, <1>5, <1>6, <1>7, <1>8, <1>9, <1>10, <1>11, <1>12, <1>13, <1>14,
     <1>15, <1>16, <1>17, <1>18, <1>19 DEF App!Next, App!Step

(* However an application is started, fails to start, ends or is           *)
(* terminated, and however many prep commands it has: each undo command    *)
(* that is owed runs once, and an idle manager has nothing left of it.     *)
THEOREM ApplicationUndone == SuiteSpec => []ApplicationIsUndone
<1> DEFINE Inv == focus = "app" => AppInv
<1>1. Start => Inv
  BY AppStarts DEF Start
<1>2. Inv /\ [Steps]_allVars => Inv'
  <2> SUFFICES ASSUME focus = "app", AppInv, [Steps]_allVars PROVE AppInv'
    BY ComponentSteps
  <2>1. [App!Next]_appVars
    BY ComponentSteps
  <2> QED
    BY <2>1, AppKept
<1>3. Inv => ApplicationIsUndone
  <2> SUFFICES ASSUME AppInv PROVE App!UndoMatchesDo /\ App!IdleIsClean
    BY DEF ApplicationIsUndone
  <2> QED
    BY AppAssumption DEF AppInv, Here, Undone, App!UndoMatchesDo, App!IdleIsClean, App!Undoing, App!Preps
<1> QED
  BY <1>1, <1>2, <1>3, PTL DEF SuiteSpec

(* Undo commands are deferred only in a session of its own. *)
DeferInv == deferred => origin # "none"

(* Only a launch sets the deferral, together with the origin it is about.  *)
LEMMA DeferKept == DeferInv /\ AppThreads!Next => DeferInv'
<1> SUFFICES ASSUME DeferInv, AppThreads!Next PROVE DeferInv'
  OBVIOUS
<1>1. CASE UNCHANGED <<deferred, origin>>
  BY <1>1 DEF DeferInv
<1>2. ASSUME AppThreads!Setup PROVE DeferInv'
  BY <1>2, Zenon DEF AppThreads!Setup, AppThreads!Goto, AppThreads!object, DeferInv
<1>3. ASSUME AppThreads!Edit PROVE DeferInv'
  BY <1>3 DEF AppThreads!Edit, DeferInv
<1>4. ASSUME NEW t, AppThreads!Reset(t) PROVE DeferInv'
  BY <1>4 DEF AppThreads!Reset, DeferInv
<1> USE DEF AppThreads!object
<1>5. ASSUME NEW t,
             \/ AppThreads!Running(t) \/ AppThreads!Reap(t) \/ AppThreads!Kill(t)
             \/ AppThreads!Undo(t) \/ AppThreads!UndoWait(t) \/ AppThreads!UndoThrows(t)
             \/ AppThreads!UndoEnd(t) \/ AppThreads!ChildExits(t)
      PROVE  UNCHANGED <<deferred, origin>>
  BY <1>5 DEF AppThreads!Running, AppThreads!Reap, AppThreads!Kill, AppThreads!Undo,
     AppThreads!UndoWait, AppThreads!UndoThrows, AppThreads!UndoEnd, AppThreads!ChildExits
<1>6. ASSUME \/ AppThreads!Requests \/ AppThreads!Close \/ AppThreads!Shutdown
             \/ AppThreads!AppExits \/ AppThreads!Prep \/ AppThreads!DoWait
             \/ AppThreads!PrepEnd \/ AppThreads!Spawn \/ AppThreads!Retry
      PROVE  UNCHANGED <<deferred, origin>>
  BY <1>6 DEF AppThreads!Requests, AppThreads!Request, AppThreads!Close, AppThreads!Shutdown,
     AppThreads!AppExits, AppThreads!Prep, AppThreads!DoWait, AppThreads!PrepEnd,
     AppThreads!Spawn, AppThreads!Retry
<1> QED
  BY <1>1, <1>2, <1>3, <1>4, <1>5, <1>6 DEF AppThreads!Next, AppThreads!Step

(* Only an undo that was deferred leaves the thread where it is. *)
LEMMA OnlyDeferred ==
    ASSUME it \in Int, AppThreads!Next, AppThreads!PassesOver
    PROVE  deferred
<1> USE DEF AppThreads!PassesOver, AppThreads!object
<1>1. ASSUME NEW t, AppThreads!Undo(t) PROVE deferred
  <2>1. CASE deferred /\ it \in {1}
    BY <2>1
  <2>2. CASE ~(deferred /\ it \in {1})
    BY <1>1, <2>2 DEF AppThreads!Undo
  <2> QED
    BY <2>1, <2>2
<1>2. due' # due /\ it' # it
  <2>1. it - 1 # it
    OBVIOUS
  <2> QED
    BY <2>1
<1>3. ASSUME NEW t,
             \/ AppThreads!Running(t) \/ AppThreads!Reap(t) \/ AppThreads!Kill(t)
             \/ AppThreads!UndoWait(t) \/ AppThreads!UndoThrows(t)
             \/ AppThreads!UndoEnd(t) \/ AppThreads!Reset(t) \/ AppThreads!ChildExits(t)
      PROVE  due' = due
  BY <1>3 DEF AppThreads!Running, AppThreads!Reap, AppThreads!Kill, AppThreads!UndoWait,
     AppThreads!UndoThrows, AppThreads!UndoEnd, AppThreads!Reset, AppThreads!ChildExits
<1>4. ASSUME \/ AppThreads!Requests \/ AppThreads!Close \/ AppThreads!Shutdown
             \/ AppThreads!AppExits \/ AppThreads!Edit \/ AppThreads!Setup
             \/ AppThreads!PrepEnd \/ AppThreads!Spawn \/ AppThreads!Retry
      PROVE  due' = due
  BY <1>4 DEF AppThreads!Requests, AppThreads!Request, AppThreads!Close, AppThreads!Shutdown,
     AppThreads!AppExits, AppThreads!Edit, AppThreads!Setup, AppThreads!PrepEnd,
     AppThreads!Spawn, AppThreads!Retry
<1>5. ASSUME AppThreads!Prep \/ AppThreads!DoWait PROVE due' = due \/ it' = it + 1
  BY <1>5 DEF AppThreads!Prep, AppThreads!DoWait, AppThreads!Passed
<1>6. it' # it + 1
  <2>1. it - 1 # it + 1
    OBVIOUS
  <2> QED
    BY <2>1
<1> QED
  BY <1>1, <1>2, <1>3, <1>4, <1>5, <1>6 DEF AppThreads!Next, AppThreads!Step

(* The iterator stays a number, even when two threads have moved it.       *)
LEMMA PlaceKept == it \in Int /\ AppThreads!Next => it' \in Int
<1> SUFFICES ASSUME it \in Int, AppThreads!Next PROVE it' \in Int
  OBVIOUS
<1> USE DEF AppThreads!object
<1>1. ASSUME NEW t,
             \/ AppThreads!Running(t) \/ AppThreads!Reap(t) \/ AppThreads!Kill(t)
             \/ AppThreads!Undo(t) \/ AppThreads!UndoWait(t) \/ AppThreads!UndoThrows(t)
             \/ AppThreads!UndoEnd(t) \/ AppThreads!Reset(t) \/ AppThreads!ChildExits(t)
      PROVE  it' \in {it, it - 1}
  BY <1>1 DEF AppThreads!Running, AppThreads!Reap, AppThreads!Kill, AppThreads!Undo,
     AppThreads!UndoWait, AppThreads!UndoThrows, AppThreads!UndoEnd, AppThreads!Reset,
     AppThreads!ChildExits
<1>2. ASSUME \/ AppThreads!Requests \/ AppThreads!Close \/ AppThreads!Shutdown
             \/ AppThreads!AppExits \/ AppThreads!Edit \/ AppThreads!Setup
             \/ AppThreads!PrepEnd \/ AppThreads!Spawn \/ AppThreads!Retry
             \/ AppThreads!Prep \/ AppThreads!DoWait
      PROVE  it' \in {it, 0, it + 1}
  BY <1>2 DEF AppThreads!Requests, AppThreads!Request, AppThreads!Close, AppThreads!Shutdown,
     AppThreads!AppExits, AppThreads!Edit, AppThreads!Setup, AppThreads!PrepEnd,
     AppThreads!Spawn, AppThreads!Retry, AppThreads!Prep, AppThreads!DoWait, AppThreads!Passed
<1> QED
  BY <1>1, <1>2 DEF AppThreads!Next, AppThreads!Step

(* The undo of a physical session is never passed over, whoever terminates *)
(* the application and whenever the applications are edited: what is       *)
(* deferred is what the last launch deferred, in a session of its own.     *)
THEOREM UndoInPhysicalSessions == SuiteSpec => PhysicalUndoRuns
<1> DEFINE Inv == it \in Int /\ DeferInv
<1>1. Start => (focus = "threads" => Inv)
  BY DEF Start, AppThreads!Init, DeferInv
<1>2. (focus = "threads" => Inv) /\ [Steps]_allVars => (focus = "threads" => Inv)'
  <2> SUFFICES ASSUME focus = "threads", Inv, [Steps]_allVars PROVE Inv'
    BY ComponentSteps
  <2>1. AppThreads!Next \/ UNCHANGED appVars
    BY ComponentSteps
  <2>2. CASE AppThreads!Next
    BY <2>2, DeferKept, PlaceKept
  <2>3. CASE UNCHANGED appVars
    BY <2>3 DEF appVars, DeferInv
  <2> QED
    BY <2>1, <2>2, <2>3
<1>3. (focus = "threads" => Inv) /\ [Steps]_allVars =>
         [focus = "threads" /\ AppThreads!PassesOver => origin # "none"]_allVars
  <2> SUFFICES ASSUME focus = "threads", Inv, [Steps]_allVars, AppThreads!PassesOver
               PROVE  origin # "none"
    OBVIOUS
  <2>1. AppThreads!Next \/ UNCHANGED appVars
    BY ComponentSteps
  <2>2. ~UNCHANGED appVars
    BY DEF appVars, AppThreads!PassesOver
  <2> QED
    BY <2>1, <2>2, OnlyDeferred DEF DeferInv
<1> QED
  BY <1>1, <1>2, <1>3, PTL DEF SuiteSpec, PhysicalUndoRuns
-----------------------------------------------------------------------------
(* Where shells, readers, connections and the service can be.              *)
TerminalTypes ==
    /\ backend \in [Shells -> {"none", "up", "down"}]
    /\ known \subseteq Shells
    /\ attached \in [Shells -> BOOLEAN]
    /\ shellReader \in [Shells -> {"none", "reading", "eof"}]
    /\ stopping \in [Shells -> BOOLEAN]
    /\ conn \in [Conns -> {"none", "accepted", "open", "found", "attached", "subscribed",
                           "authenticated", "leave", "gone"}]
    /\ DOMAIN target = Conns
    /\ \A c \in Conns : conn[c] = "found" => target[c] \in Shells
    /\ webOp \in {<<>>} \cup ({"mark", "join"} \X Shells)
    /\ service \in {"up", "stop", "closed", "detach", "down"}
    /\ acceptor \in {"loop", "join", "done"}

(* A shell that tmux does not keep lives while it is attached, what is     *)
(* attached is known, and what was ever started is known until somebody    *)
(* has set out to stop it; once the service has closed, everything that    *)
(* lives is being stopped.                                                 *)
TerminalInv ==
    /\ TerminalTypes
    /\ \A s \in Shells :
          /\ attached[s] <=> shellReader[s] # "none"
          /\ s \notin Persistent /\ backend[s] = "up" => attached[s]
          /\ attached[s] => s \in known
          /\ s \in known => backend[s] # "none"
          /\ backend[s] # "none" => s \in known \/ stopping[s]
    /\ webOp # <<>> /\ webOp[1] = "join" => stopping[webOp[2]]
    /\ acceptor = "done" => \A c \in Conns : conn[c] \in {"none", "gone"}
    /\ service \in {"detach", "down"} =>
          /\ acceptor = "done" /\ webOp = <<>>
          /\ \A s \in Shells : backend[s] # "none" => stopping[s]
    /\ service = "down" => known = {}

(* The service starts without shells.                                      *)
LEMMA TerminalStarts == Term!Init => TerminalInv
BY DEF Term!Init, Term!Idle, TerminalInv, TerminalTypes

(* Every step of the service, its readers, its connections and its shells  *)
(* keeps the invariant.                                                    *)
LEMMA TerminalKept ==
    ASSUME TerminalInv, Term!Next PROVE TerminalInv'
<1> USE DEF TerminalInv, TerminalTypes, Term!Idle, Term!shellVars, Term!connVars
<1>1. ASSUME NEW s \in Shells, Term!Create(s) PROVE TerminalInv'
  <2>1. CASE s \in Persistent
    BY <1>1, <2>1 DEF Term!Create
  <2>2. CASE s \notin Persistent
    <3>1. /\ backend' = [backend EXCEPT ![s] = "up"] /\ known' = known \cup {s}
          /\ attached' = [attached EXCEPT ![s] = TRUE]
          /\ shellReader' = [shellReader EXCEPT ![s] = "reading"]
          /\ service = "up" /\ webOp = <<>>
          /\ UNCHANGED <<stopping, webOp, service, acceptor, conn, target>>
      BY <1>1, <2>2 DEF Term!Create
    <3> QED
      BY <3>1
  <2> QED
    BY <2>1, <2>2
<1>2. ASSUME NEW s \in Shells, Term!ShellExit(s) PROVE TerminalInv'
  BY <1>2 DEF Term!ShellExit
<1>3. ASSUME NEW s \in Shells, Term!ReaderEof(s) PROVE TerminalInv'
  BY <1>3 DEF Term!ReaderEof
<1>4. ASSUME NEW s \in Shells, Term!ReaderClose(s) PROVE TerminalInv'
  BY <1>4 DEF Term!ReaderClose
<1>5. ASSUME NEW s \in Shells, Term!StopKill(s) PROVE TerminalInv'
  BY <1>5 DEF Term!StopKill
<1>6. CASE Term!StopMark
  BY <1>6 DEF Term!StopMark
<1>7. CASE Term!StopJoin
  BY <1>7 DEF Term!StopJoin
<1>8. CASE Term!Synchronize
  BY <1>8, TerminalAssumption DEF Term!Synchronize, Term!Recovered
<1>9. ASSUME NEW c \in Conns, Term!AcceptConn(c) PROVE TerminalInv'
  BY <1>9 DEF Term!AcceptConn, Term!At, Term!Go
<1>10. ASSUME NEW c \in Conns, Term!Register(c) PROVE TerminalInv'
  BY <1>10 DEF Term!Register, Term!At, Term!Go
<1>11. ASSUME NEW c \in Conns, Term!Attach(c) PROVE TerminalInv'
  <2> DEFINE s == target[c]
  <2>1. s \in Shells /\ conn' = [conn EXCEPT ![c] = conn'[c]]
        /\ conn'[c] \in {"attached", "leave"} /\ conn[c] = "found"
    BY <1>11 DEF Term!Attach, Term!At, Term!Go
  <2>2. CASE UNCHANGED <<attached, shellReader>>
    BY <1>11, <2>1, <2>2 DEF Term!Attach
  <2>3. CASE /\ ~stopping[s] /\ backend[s] = "up" /\ s \in Persistent
             /\ attached' = [attached EXCEPT ![s] = TRUE]
             /\ shellReader' = [shellReader EXCEPT ![s] = "reading"]
    BY <1>11, <2>1, <2>3 DEF Term!Attach
  <2> QED
    BY <1>11, <2>2, <2>3 DEF Term!Attach, Term!At, Term!Go
<1>12. ASSUME NEW c \in Conns, Term!Subscribe(c) PROVE TerminalInv'
  BY <1>12 DEF Term!Subscribe, Term!At, Term!Go
<1>13. ASSUME NEW c \in Conns, Term!Ready(c) PROVE TerminalInv'
  BY <1>13 DEF Term!Ready, Term!At, Term!Go
<1>14. ASSUME NEW c \in Conns, Term!Unsubscribe(c) PROVE TerminalInv'
  BY <1>14 DEF Term!Unsubscribe, Term!At, Term!Go
<1>15. ASSUME NEW c \in Conns, Term!LeaveConn(c) PROVE TerminalInv'
  BY <1>15 DEF Term!LeaveConn, Term!At, Term!Go
<1>16. ASSUME NEW c \in Conns, Term!PeerCloses(c) PROVE TerminalInv'
  BY <1>16 DEF Term!PeerCloses
<1>17. ASSUME NEW c \in Conns, NEW s \in Shells, Term!Authenticate(c, s) PROVE TerminalInv'
  <2>1. /\ known' = known \cup {x \in Persistent : backend[x] = "up"}
        /\ conn[c] = "open" /\ conn' = [conn EXCEPT ![c] = "found"]
        /\ target' = [target EXCEPT ![c] = s]
        /\ UNCHANGED <<backend, attached, shellReader, stopping, webOp, service, acceptor>>
    BY <1>17 DEF Term!Authenticate, Term!Recovered, Term!At, Term!Go
  <2>2. acceptor # "done" /\ service # "detach" /\ service # "down"
    BY <2>1
  <2>3. \A d \in Conns : conn'[d] = "found" => target'[d] \in Shells
    BY <2>1
  <2> QED
    BY <2>1, <2>2, <2>3, TerminalAssumption
<1>18. CASE Term!ServiceStops \/ Term!CloseServer \/ Term!AcceptorEnds
  BY <1>18 DEF Term!ServiceStops, Term!CloseServer, Term!AcceptorEnds
<1>19. CASE Term!JoinConns
  BY <1>19 DEF Term!JoinConns
<1>20. CASE Term!DetachAll
  BY <1>20 DEF Term!DetachAll
<1>21. CASE Term!DetachEnds
  BY <1>21 DEF Term!DetachEnds
<1> QED
  BY <1>1, <1>2, <1>3, <1>4, <1>5, <1>6, <1>7, <1>8, <1>9, <1>10, <1>11, <1>12, <1>13,
     <1>14, <1>15, <1>16, <1>17, <1>18, <1>19, <1>20, <1>21 DEF Term!Next

(* However the stop of the service, browsers and shells that end           *)
(* interleave: when the service is down no shell process of it is left.    *)
THEOREM NothingLeftBehind == SuiteSpec => []NoShellLeftBehind
<1>1. Start => TerminalInv
  BY TerminalStarts DEF Start
<1>2. TerminalInv /\ [Steps]_allVars => TerminalInv'
  <2> SUFFICES ASSUME TerminalInv, [Steps]_allVars PROVE TerminalInv'
    OBVIOUS
  <2>1. CASE Term!Next
    BY <2>1, TerminalKept
  <2>2. CASE UNCHANGED terminalVars
    BY <2>2 DEF terminalVars, TerminalInv, TerminalTypes
  <2> QED
    BY <2>1, <2>2, ComponentSteps
<1>3. TerminalInv => NoShellLeftBehind
  BY DEF TerminalInv, TerminalTypes, NoShellLeftBehind, Term!NoShellLeftBehind
<1> QED
  BY <1>1, <1>2, <1>3, PTL DEF SuiteSpec
-----------------------------------------------------------------------------
(* What is kept of a pairing under way.                                    *)
PairingRecord ==
    [id : Nat, device : Devices \cup {"none"},
     phase : {"none", "opened", "cert", "challenge", "response"}, right : BOOLEAN, expires : Nat]

(* The map of the sessions, when n were opened and the operator gave a PIN *)
(* for those of ids: each has its own id, and is past its first phase only *)
(* with a PIN.                                                             *)
SoundSessions(p, n, ids) ==
    /\ p \in [Uids -> PairingRecord]
    /\ \A u \in Uids :
          /\ p[u].id = 0 <=> p[u].phase = "none"
          /\ p[u].id # 0 => p[u].device \in Devices /\ p[u].id <= n
          /\ p[u].phase \in {"cert", "challenge", "response"} => p[u].id \in ids
    /\ \A u, v \in Uids : p[u].id = p[v].id /\ p[u].id # 0 => u = v

(* The parts of the pairing state the proof is about.                      *)
PairingTypes ==
    /\ clients \in [Devices -> {"none", "enabled", "disabled"}]
    /\ savedClients \in [Devices -> {"none", "enabled", "disabled"}]
    /\ pairedBy \in [Devices -> SUBSET Nat]
    /\ granted \subseteq Devices
    /\ approved \subseteq 1..opened
    /\ opened \in Nat /\ pairClock \in Nat

(* A pairing that has got past the PIN, and a client that was admitted,    *)
(* are of a device somebody entered a PIN for.                             *)
PairingInv ==
    /\ PairingTypes
    /\ SoundSessions(pairings, opened, approved)
    /\ \A d \in Devices : clients[d] = "enabled" => d \in granted
    /\ \A d \in Devices : pairedBy[d] \subseteq approved

(* There is no pairing at first, and no client.                            *)
LEMMA PairingStarts == Pair!Init => PairingInv
BY DEF Pair!Init, Pair!NoPairing, PairingInv, PairingTypes, SoundSessions, PairingRecord

(* What is left once the expired sessions are gone. *)
LEMMA LiveSessions ==
    ASSUME PairingInv
    PROVE  SoundSessions(Pair!Live, opened, approved)
<1>1. \A u \in Uids : Pair!Live[u] \in {Pair!NoPairing, pairings[u]}
  BY DEF Pair!Live
<1>2. Pair!NoPairing \in PairingRecord /\ Pair!NoPairing.id = 0 /\ Pair!NoPairing.phase = "none"
  BY DEF Pair!NoPairing, PairingRecord
<1>3. DOMAIN Pair!Live = Uids /\ Pair!Live = [u \in Uids |-> Pair!Live[u]]
  BY DEF Pair!Live
<1> QED
  BY <1>1, <1>2, <1>3 DEF PairingInv, SoundSessions

(* A session is removed. *)
LEMMA SessionRemoved ==
    ASSUME NEW p, NEW n \in Nat, NEW ids, SoundSessions(p, n, ids), NEW u \in Uids
    PROVE  SoundSessions([p EXCEPT ![u] = Pair!NoPairing], n, ids)
  BY DEF SoundSessions, PairingRecord, Pair!NoPairing

(* A session goes on to a phase for which it has a PIN. *)
LEMMA SessionAdvanced ==
    ASSUME NEW p, NEW n \in Nat, NEW ids, SoundSessions(p, n, ids), NEW u \in Uids,
           p[u].id # 0, p[u].id \in ids,
           NEW phase \in {"cert", "challenge", "response"}
    PROVE  SoundSessions([p EXCEPT ![u].phase = phase], n, ids)
  BY DEF SoundSessions, PairingRecord

(* The session that is given its PIN may go on; the others stay as they    *)
(* were.                                                                   *)
LEMMA PinGiven ==
    ASSUME NEW p, NEW n \in Nat, NEW ids, SoundSessions(p, n, ids), NEW u \in Uids,
           p[u].id # 0, NEW right \in BOOLEAN
    PROVE  SoundSessions([p EXCEPT ![u].phase = "cert", ![u].right = right], n,
                         ids \cup {p[u].id})
<1> DEFINE q == [p EXCEPT ![u].phase = "cert", ![u].right = right]
<1>1. q \in [Uids -> PairingRecord]
  BY DEF SoundSessions, PairingRecord
<1>2. \A v \in Uids : /\ q[v].id = p[v].id /\ q[v].device = p[v].device
                      /\ q[v].phase = IF v = u THEN "cert" ELSE p[v].phase
  BY DEF SoundSessions, PairingRecord
<1> HIDE DEF q
<1> QED
  BY <1>1, <1>2 DEF SoundSessions, q

(* Every message of a pairing, every PIN, cancellation and expiry keeps    *)
(* the invariant.                                                          *)
LEMMA PairingKept ==
    ASSUME PairingInv, Pair!Next PROVE PairingInv'
<1> DEFINE rest == Pair!Live
<1>0. SoundSessions(rest, opened, approved)
  BY LiveSessions
<1> HIDE DEF rest
<1> USE PairingAssumption DEF PairingInv, PairingTypes
<1>1. ASSUME NEW d \in Devices, NEW u \in Uids, Pair!StartPairing(d, u) PROVE PairingInv'
  <2>1. CASE UNCHANGED opened /\ pairings' = rest
    BY <1>0, <1>1, <2>1 DEF Pair!StartPairing, rest
  <2> DEFINE new == [id |-> opened + 1, device |-> d, phase |-> "opened",
                     right |-> FALSE, expires |-> pairClock + Timeout]
  <2>2. CASE opened' = opened + 1 /\ pairings' = [rest EXCEPT ![u] = new]
    <3>1. SoundSessions([rest EXCEPT ![u] = new], opened + 1, approved)
      BY <1>0 DEF SoundSessions, PairingRecord
    <3> QED
      BY <1>1, <2>2, <3>1 DEF Pair!StartPairing
  <2> QED
    BY <1>1, <2>1, <2>2 DEF Pair!StartPairing, rest
<1>2. ASSUME NEW u \in Uids, Pair!ProveSecret(u) PROVE PairingInv'
  <2> DEFINE s == rest[u]
  <2>1. SoundSessions(pairings', opened', approved')
    BY <1>0, <1>2, SessionRemoved DEF Pair!ProveSecret, rest
  <2>2. CASE s.phase = "response" /\ s.right
    <3>1. s.id \in approved /\ s.device \in Devices
      BY <1>0, <2>2 DEF SoundSessions
    <3>2. s.id \in Nat
      BY <1>0 DEF SoundSessions, PairingRecord
    <3>3. /\ clients' = [clients EXCEPT ![s.device] = "enabled"]
          /\ savedClients' \in {clients', savedClients}
          /\ pairedBy' = [pairedBy EXCEPT ![s.device] = @ \cup {s.id}]
          /\ granted' = granted \cup {s.device}
          /\ UNCHANGED <<pairClock, opened, approved>>
      BY <1>2, <2>2, <3>1 DEF Pair!ProveSecret, Pair!Save, rest
    <3> HIDE DEF s
    <3>4. \A d \in Devices : clients'[d] = "enabled" => d \in granted'
      BY <3>1, <3>3
    <3>5. \A d \in Devices : pairedBy'[d] \subseteq approved'
      BY <3>1, <3>3
    <3>6. PairingTypes'
      BY <3>1, <3>2, <3>3
    <3> QED
      BY <2>1, <3>4, <3>5, <3>6
  <2>3. CASE ~(s.phase = "response" /\ s.right)
    BY <1>2, <2>1, <2>3 DEF Pair!ProveSecret, rest
  <2> QED
    BY <2>2, <2>3
<1>3. ASSUME NEW u \in Uids, NEW phase \in {"challenge", "response"}, Pair!Advance(u, phase)
      PROVE  PairingInv'
  <2>1. CASE rest[u].phase = Pair!Before(phase)
    <3>1. rest[u].phase \in {"cert", "challenge"} /\ rest[u].id # 0
      BY <1>3, <2>1 DEF Pair!Before, Pair!Advance, rest
    <3>2. rest[u].id \in approved
      BY <1>0, <3>1 DEF SoundSessions
    <3>3. SoundSessions([rest EXCEPT ![u].phase = phase], opened, approved)
      BY <1>0, <3>1, <3>2, SessionAdvanced
    <3> QED
      BY <1>3, <2>1, <3>3 DEF Pair!Advance, rest
  <2>2. CASE rest[u].phase # Pair!Before(phase)
    BY <1>0, <1>3, <2>2, SessionRemoved DEF Pair!Advance, rest
  <2> QED
    BY <2>1, <2>2
<1>4. ASSUME NEW i \in 1..opened, Pair!CancelPairing(i) PROVE PairingInv'
  <2>1. PICK u \in Uids : pairings' = [rest EXCEPT ![u] = Pair!NoPairing]
    BY <1>4 DEF Pair!CancelPairing, rest
  <2>2. SoundSessions(pairings', opened, approved)
    BY <1>0, <2>1, SessionRemoved
  <2> QED
    BY <1>4, <2>2 DEF Pair!CancelPairing
<1>5. ASSUME NEW i \in 1..opened, NEW right \in BOOLEAN, Pair!SubmitPin(i, right)
      PROVE  PairingInv'
  <2>1. /\ approved' = approved \cup {i}
        /\ UNCHANGED <<clients, savedClients, pairClock, opened, pairedBy, granted>>
    BY <1>5 DEF Pair!SubmitPin
  <2>2. CASE pairings' = rest
    BY <1>0, <2>1, <2>2 DEF SoundSessions
  <2>3. ASSUME NEW u \in Uids, rest[u].id = i,
               pairings' = [rest EXCEPT ![u].phase = "cert", ![u].right = right]
        PROVE  PairingInv'
    <3>1. rest[u].id # 0
      BY <2>3
    <3>2. SoundSessions(pairings', opened, approved \cup {i})
      BY <1>0, <2>3, <3>1, PinGiven
    <3> QED
      BY <2>1, <3>2
  <2> QED
    BY <1>5, <2>2, <2>3 DEF Pair!SubmitPin, rest
<1>6. CASE Pair!PinReturns \/ Pair!PinTimesOut
  BY <1>6 DEF Pair!PinReturns, Pair!PinTimesOut, Pair!Answer
<1>7. CASE Pair!PinCleans
  <2> DEFINE at == {u \in Uids : pairings[u].id = waiter.id}
  <2>1. SoundSessions([u \in Uids |-> IF u \in at THEN Pair!NoPairing ELSE pairings[u]], opened,
                      approved)
    BY DEF SoundSessions, PairingRecord, Pair!NoPairing
  <2> QED
    BY <1>7, <2>1 DEF Pair!PinCleans
<1>8. CASE Pair!EraseAll
  BY <1>8 DEF Pair!EraseAll, Pair!SetClients, Pair!Save
<1>9. CASE Pair!RestartHost
  <2>1. SoundSessions([u \in Uids |-> Pair!NoPairing], opened, approved)
    BY DEF SoundSessions, PairingRecord, Pair!NoPairing
  <2> QED
    BY <1>9, <2>1 DEF Pair!RestartHost
<1>10. CASE Pair!PairTick
  BY <1>10 DEF Pair!PairTick
<1>11. ASSUME NEW d \in Devices, Pair!Unpair(d) PROVE PairingInv'
  BY <1>11 DEF Pair!Unpair, Pair!SetClients, Pair!Save
<1>12. ASSUME NEW d \in Devices, NEW on \in BOOLEAN, Pair!SetClientEnabled(d, on) PROVE PairingInv'
  BY <1>12 DEF Pair!SetClientEnabled, Pair!SetClients, Pair!Save
<1> QED
  BY <1>1, <1>2, <1>3, <1>4, <1>5, <1>6, <1>7, <1>8, <1>9, <1>10, <1>11, <1>12 DEF Pair!Next

(* However the messages of several pairings are ordered, repeated and      *)
(* timed out: a client that is paired is one somebody entered the PIN of.  *)
THEOREM OnlyApproved == SuiteSpec => []OnlyApprovedClients
<1>1. Start => PairingInv
  BY PairingStarts DEF Start
<1>2. PairingInv /\ [Steps]_allVars => PairingInv'
  <2> SUFFICES ASSUME PairingInv, [Steps]_allVars PROVE PairingInv'
    OBVIOUS
  <2>1. CASE Pair!Next
    BY <2>1, PairingKept
  <2>2. CASE UNCHANGED pairingVars
    BY <2>2 DEF pairingVars, PairingInv, PairingTypes
  <2> QED
    BY <2>1, <2>2, ComponentSteps
<1>3. PairingInv => OnlyApprovedClients
  BY DEF PairingInv, PairingTypes, OnlyApprovedClients, Pair!OnlyApprovedClients
<1> QED
  BY <1>1, <1>2, <1>3, PTL DEF SuiteSpec
-----------------------------------------------------------------------------
(* Recordings. *)

(* What the threads hand to the writer.                                    *)
Command ==
    [kind : {"frame", "stop", "shutdown"}, feed : Feeds \cup {"none"}, index : Nat,
     idr : BOOLEAN]

(* A command that is a frame its stream has sent. *)
SentFrame(c, sentSoFar) ==
    c.kind = "frame" /\ c.feed \in Feeds /\ c.index <= sentSoFar[c.feed]

(* Frame a was sent before frame b, if they are of one stream. *)
SentBefore(a, b) ==
    a.kind = "frame" /\ b.kind = "frame" /\ a.feed = b.feed => a.index < b.index

(* The queue holds what was sent, in its order. *)
SoundQueue(queued, sentSoFar) ==
    /\ queued \in Seq(Command)
    /\ \A i \in 1..Len(queued) : queued[i].kind = "frame" => SentFrame(queued[i], sentSoFar)
    /\ \A i, j \in 1..Len(queued) : i < j => SentBefore(queued[i], queued[j])

(* A frame was sent, and before everything in the queue. *)
Precedes(c, queued, sentSoFar) ==
    /\ SentFrame(c, sentSoFar)
    /\ \A i \in 1..Len(queued) : SentBefore(c, queued[i])

(* What the muxer was given is a run of one stream from a key frame on. *)
OneStream(run) ==
    run # <<>> =>
        /\ run[1].idr
        /\ \A i \in 2..Len(run) : run[i].feed = run[1].feed /\ run[i].index > run[i - 1].index

(* The frame that the writer starts with, or the last one it wrote, was    *)
(* sent before everything in the queue.                                    *)
RecordingInv ==
    /\ muxer \in Seq(Command) /\ command \in Command
    /\ sentFrames \in [Feeds -> Nat]
    /\ SoundQueue(commands, sentFrames)
    /\ writer = "start" => command.idr /\ Precedes(command, commands, sentFrames)
    /\ recording => /\ muxer # <<>> /\ muxer[1].feed = activeFeed
                    /\ muxer[Len(muxer)].feed = activeFeed
                    /\ Precedes(muxer[Len(muxer)], commands, sentFrames)
    /\ OneStream(muxer)

(* Nothing is recorded at first.                                           *)
LEMMA RecordingStarts == Rec!Init => RecordingInv
  BY DEF Rec!Init, Rec!Shut, RecordingInv, Command, SoundQueue, OneStream

(* Streams go on sending. *)
LEMMA MoreSent ==
    ASSUME NEW old \in [Feeds -> Nat], NEW new \in [Feeds -> Nat],
           \A f \in Feeds : new[f] >= old[f],
           NEW q, SoundQueue(q, old)
    PROVE  /\ SoundQueue(q, new)
           /\ \A c \in Command : Precedes(c, q, old) => Precedes(c, q, new)
<1>1. \A c \in Command : SentFrame(c, old) => SentFrame(c, new)
  BY DEF SentFrame, Command
<1>2. \A i \in 1..Len(q) : q[i] \in Command
  BY DEF SoundQueue
<1> QED
  BY <1>1, <1>2 DEF SoundQueue, Precedes

(* A command that is no frame is queued. *)
LEMMA OtherQueued ==
    ASSUME NEW q, NEW n \in [Feeds -> Nat], SoundQueue(q, n),
           NEW c \in Command, c.kind # "frame"
    PROVE  /\ SoundQueue(Append(q, c), n)
           /\ \A x \in Command : Precedes(x, q, n) => Precedes(x, Append(q, c), n)
<1> DEFINE r == Append(q, c)
<1>1. /\ r \in Seq(Command) /\ Len(r) = Len(q) + 1 /\ Len(q) \in Nat
      /\ \A i \in 1..Len(q) : r[i] = q[i]
      /\ r[Len(q) + 1] = c
  BY Appended DEF SoundQueue
<1> HIDE DEF r
<1>2. \A i \in 1..Len(r) : i \in 1..Len(q) \/ i = Len(q) + 1
  BY <1>1
<1>3. SoundQueue(r, n)
  BY <1>1, <1>2 DEF SoundQueue, SentBefore
<1>4. ASSUME NEW x \in Command, Precedes(x, q, n) PROVE Precedes(x, r, n)
  BY <1>1, <1>2, <1>4 DEF Precedes, SentBefore
<1> QED
  BY <1>3, <1>4 DEF r

(* The next frame of a stream is queued. *)
LEMMA FrameQueued ==
    ASSUME NEW q, NEW n \in [Feeds -> Nat], SoundQueue(q, n), NEW f \in Feeds,
           NEW c \in Command, c.kind = "frame", c.feed = f, c.index = n[f] + 1
    PROVE  LET m == [n EXCEPT ![f] = @ + 1]
           IN  /\ SoundQueue(Append(q, c), m)
               /\ \A x \in Command : Precedes(x, q, n) => Precedes(x, Append(q, c), m)
<1> DEFINE r == Append(q, c)
           m == [n EXCEPT ![f] = @ + 1]
<1>1. /\ r \in Seq(Command) /\ Len(r) = Len(q) + 1 /\ Len(q) \in Nat
      /\ \A i \in 1..Len(q) : r[i] = q[i] /\ q[i] \in Command
      /\ r[Len(q) + 1] = c
  BY Appended DEF SoundQueue
<1>2. \A i \in 1..Len(r) : i \in 1..Len(q) \/ i = Len(q) + 1
  BY <1>1
<1>3. m \in [Feeds -> Nat] /\ \A g \in Feeds : m[g] >= n[g]
  OBVIOUS
<1>4. \A x \in Command : SentFrame(x, n) => SentFrame(x, m) /\ SentBefore(x, c)
  BY DEF SentFrame, SentBefore, Command
<1>5. SentFrame(c, m)
  BY DEF SentFrame, Command
<1> HIDE DEF r, m
<1>6. SoundQueue(r, m)
  <2>1. \A i \in 1..Len(r) : r[i].kind = "frame" => SentFrame(r[i], m)
    BY <1>1, <1>2, <1>4, <1>5 DEF SoundQueue
  <2>2. ASSUME NEW i \in 1..Len(r), NEW j \in 1..Len(r), i < j PROVE SentBefore(r[i], r[j])
    <3>1. i \in 1..Len(q)
      BY <1>1, <2>2
    <3>2. CASE j \in 1..Len(q)
      BY <1>1, <2>2, <3>1, <3>2 DEF SoundQueue
    <3>3. CASE j = Len(q) + 1
      <4>1. CASE q[i].kind = "frame"
        BY <1>1, <1>4, <3>1, <3>3, <4>1 DEF SoundQueue
      <4>2. CASE q[i].kind # "frame"
        BY <1>1, <3>1, <4>2 DEF SentBefore
      <4> QED
        BY <4>1, <4>2
    <3> QED
      BY <1>2, <3>2, <3>3
  <2> QED
    BY <1>1, <2>1, <2>2 DEF SoundQueue
<1>7. ASSUME NEW x \in Command, Precedes(x, q, n) PROVE Precedes(x, r, m)
  BY <1>1, <1>2, <1>4, <1>7 DEF Precedes
<1> QED
  BY <1>6, <1>7 DEF r, m

(* The writer takes a command. *)
LEMMA CommandTaken ==
    ASSUME NEW q, NEW n \in [Feeds -> Nat], SoundQueue(q, n), q # <<>>
    PROVE  /\ Head(q) \in Command
           /\ SoundQueue(Tail(q), n)
           /\ Head(q).kind = "frame" => Precedes(Head(q), Tail(q), n)
           /\ \A x \in Command : Precedes(x, q, n) => Precedes(x, Tail(q), n)
           /\ \A x \in Command : Precedes(x, q, n) => SentBefore(x, Head(q))
<1>1. /\ q \in Seq(Command) /\ Len(q) \in Nat
      /\ Len(q) >= 1 /\ Head(q) = q[1] /\ Head(q) \in Command
      /\ Tail(q) \in Seq(Command) /\ Len(Tail(q)) = Len(q) - 1
      /\ \A i \in 1..(Len(q) - 1) : Tail(q)[i] = q[i + 1]
  BY Popped DEF SoundQueue
<1> DEFINE r == Tail(q)
           c == Head(q)
<1>2. \A i \in 1..Len(r) : i + 1 \in 1..Len(q) /\ r[i] = q[i + 1]
  BY <1>1
<1>3. 1 \in 1..Len(q) /\ c = q[1]
  BY <1>1
<1> HIDE DEF r, c
<1>4. SoundQueue(r, n)
  <2>1. \A i, j \in 1..Len(r) : i < j => SentBefore(r[i], r[j])
    <3> SUFFICES ASSUME NEW i \in 1..Len(r), NEW j \in 1..Len(r), i < j
                 PROVE  SentBefore(r[i], r[j])
      OBVIOUS
    <3>1. i + 1 < j + 1
      BY <1>1
    <3> QED
      BY <1>2, <3>1 DEF SoundQueue
  <2> QED
    BY <1>1, <1>2, <2>1 DEF SoundQueue, r
<1>5. c.kind = "frame" => Precedes(c, r, n)
  <2>1. \A i \in 1..Len(r) : 1 < i + 1
    BY <1>1
  <2> QED
    BY <1>2, <1>3, <2>1 DEF SoundQueue, Precedes
<1>6. \A x \in Command : Precedes(x, q, n) => Precedes(x, r, n) /\ SentBefore(x, c)
  BY <1>2, <1>3 DEF Precedes
<1> QED
  BY <1>1, <1>4, <1>5, <1>6 DEF r, c

(* The muxer is given the next frame. *)
LEMMA FrameWritten ==
    ASSUME NEW run \in Seq(Command), run # <<>>, OneStream(run), NEW c \in Command,
           c.feed = run[1].feed, c.index > run[Len(run)].index
    PROVE  /\ OneStream(Append(run, c))
           /\ Append(run, c)[1] = run[1] /\ Append(run, c) # <<>>
           /\ Append(run, c)[Len(Append(run, c))] = c
<1> DEFINE r == Append(run, c)
<1>1. /\ r \in Seq(Command) /\ Len(r) = Len(run) + 1 /\ Len(run) \in Nat /\ Len(run) >= 1
      /\ \A i \in 1..Len(run) : r[i] = run[i]
      /\ r[Len(run) + 1] = c
  BY Appended
<1> HIDE DEF r
<1>2. ASSUME NEW i \in 2..Len(r) PROVE r[i].feed = r[1].feed /\ r[i].index > r[i - 1].index
  <2>1. CASE i \in 2..Len(run)
    BY <1>1, <2>1 DEF OneStream
  <2>2. CASE i = Len(run) + 1
    BY <1>1, <2>2
  <2> QED
    BY <1>1, <2>1, <2>2
<1> QED
  BY <1>1, <1>2 DEF OneStream, r

(* Every step of the streams, of the requests and of the writer keeps the  *)
(* invariant.                                                              *)
LEMMA RecordingKept ==
    ASSUME RecordingInv, Rec!Next PROVE RecordingInv'
<1> USE DEF Rec!fileVars
<1>0. muxer # <<>> => muxer[Len(muxer)] \in Command
  BY DEF RecordingInv
<1>a. /\ Rec!Shut \in Command /\ Rec!Shut.kind # "frame"
      /\ Rec!Stop("none") \in Command /\ Rec!Stop("none").kind # "frame"
  BY DEF Rec!Shut, Rec!Stop, Command
<1>1. ASSUME NEW on \in BOOLEAN, Rec!SetEnabled(on) PROVE RecordingInv'
  BY <1>0, <1>a, <1>1, OtherQueued DEF Rec!SetEnabled, RecordingInv
<1>2. ASSUME NEW c \in Capacities, Rec!SetCapacity(c) PROVE RecordingInv'
  BY <1>2 DEF Rec!SetCapacity, RecordingInv
<1>3. ASSUME NEW i \in DOMAIN files, Rec!RemoveFile(i) PROVE RecordingInv'
  BY <1>3 DEF Rec!RemoveFile, RecordingInv
<1>4. ASSUME NEW f \in Feeds, Rec!StreamEnded(f) PROVE RecordingInv'
  <2>1. Rec!Stop(f) \in Command /\ Rec!Stop(f).kind # "frame"
    BY DEF Rec!Stop, Command
  <2> QED
    BY <1>0, <1>4, <2>1, OtherQueued DEF Rec!StreamEnded, RecordingInv
<1>5. ASSUME NEW f \in Feeds, NEW idr \in BOOLEAN, Rec!Submit(f, idr) PROVE RecordingInv'
  <2> DEFINE c == Rec!Frame(f, sentFrames[f] + 1, idr)
  <2>1. /\ sentFrames' = [sentFrames EXCEPT ![f] = @ + 1]
        /\ sentFrames' \in [Feeds -> Nat]
        /\ \A g \in Feeds : sentFrames'[g] >= sentFrames[g]
        /\ UNCHANGED <<recording, activeFeed, muxer, writer, command>>
    BY <1>5 DEF Rec!Submit, RecordingInv
  <2>2. c \in Command /\ c.kind = "frame" /\ c.feed = f /\ c.index = sentFrames[f] + 1
    BY DEF Rec!Frame, Command, RecordingInv
  <2>3. commands' \in {commands, Append(commands, Rec!Stop("none")), Append(commands, c)}
    BY <1>5 DEF Rec!Submit
  <2> HIDE DEF c
  <2>4. /\ SoundQueue(commands', sentFrames')
        /\ \A x \in Command : Precedes(x, commands, sentFrames)
                                 => Precedes(x, commands', sentFrames')
    <3>1. CASE commands' = commands
      BY <2>1, <3>1, MoreSent DEF RecordingInv
    <3>2. CASE commands' = Append(commands, Rec!Stop("none"))
      <4>1. /\ SoundQueue(commands, sentFrames')
            /\ \A x \in Command : Precedes(x, commands, sentFrames)
                                     => Precedes(x, commands, sentFrames')
        BY <2>1, MoreSent DEF RecordingInv
      <4> QED
        BY <1>a, <2>1, <3>2, <4>1, OtherQueued
    <3>3. CASE commands' = Append(commands, c)
      BY <2>1, <2>2, <3>3, FrameQueued DEF RecordingInv
    <3> QED
      BY <2>3, <3>1, <3>2, <3>3
  <2> QED
    BY <1>0, <2>1, <2>4 DEF RecordingInv
<1>6. CASE Rec!Destroy
  BY <1>0, <1>a, <1>6, OtherQueued DEF Rec!Destroy, RecordingInv
<1>7. CASE Rec!Take
  <2> DEFINE c == Head(commands)
  <2>1. /\ c \in Command
        /\ SoundQueue(commands', sentFrames)
        /\ c.kind = "frame" => Precedes(c, commands', sentFrames)
        /\ \A x \in Command : Precedes(x, commands, sentFrames)
                                 => Precedes(x, commands', sentFrames) /\ SentBefore(x, c)
    BY <1>7, CommandTaken DEF Rec!Take, RecordingInv
  <2>2. /\ command' = c /\ UNCHANGED <<activeFeed, sentFrames>>
        /\ writer' = "start" => c.kind = "frame" /\ c.idr
        /\ recording' => recording
    BY <1>7 DEF Rec!Take
  <2>3. CASE muxer' = muxer
    BY <1>0, <2>1, <2>2, <2>3 DEF RecordingInv
  <2>4. CASE /\ c.kind = "frame" /\ recording /\ activeFeed = c.feed
             /\ muxer' = Append(muxer, c)
    <3>1. c.feed = muxer[1].feed /\ c.index > muxer[Len(muxer)].index
      BY <1>0, <2>1, <2>4 DEF RecordingInv, SentBefore, Precedes, SentFrame, Command
    <3> HIDE DEF c
    <3>2. /\ OneStream(muxer') /\ muxer'[1] = muxer[1] /\ muxer' # <<>>
          /\ muxer'[Len(muxer')] = c /\ muxer' \in Seq(Command)
      BY <2>1, <2>4, <3>1, FrameWritten, Appended DEF RecordingInv
    <3> QED
      BY <2>1, <2>2, <2>4, <3>2 DEF RecordingInv
  <2> QED
    BY <1>7, <2>3, <2>4 DEF Rec!Take
<1>8. CASE Rec!StartMuxer
  BY <1>8 DEF Rec!StartMuxer, RecordingInv, OneStream
<1>9. CASE Rec!StartFails
  BY <1>9 DEF Rec!StartFails, RecordingInv
<1>10. CASE Rec!WriteFails
  BY <1>10, CommandTaken DEF Rec!WriteFails, RecordingInv
<1>11. ASSUME NEW well \in BOOLEAN, Rec!Finalize(well) PROVE RecordingInv'
  BY <1>11 DEF Rec!Finalize, RecordingInv, OneStream
<1> QED
  BY <1>1, <1>2, <1>3, <1>4, <1>5, <1>6, <1>7, <1>8, <1>9, <1>10, <1>11 DEF Rec!Next

(* Whatever streams start, end and are replaced while commands are queued, *)
(* and whatever is dropped when the queue is full: a file holds frames of  *)
(* one stream only, in order.                                              *)
THEOREM RecordingsAreWhole == SuiteSpec => []OneStreamPerRecording
<1>1. Start => RecordingInv
  BY RecordingStarts DEF Start
<1>2. RecordingInv /\ [Steps]_allVars => RecordingInv'
  <2> SUFFICES ASSUME RecordingInv, [Steps]_allVars PROVE RecordingInv'
    OBVIOUS
  <2>1. CASE Rec!Next
    BY <2>1, RecordingKept
  <2>2. CASE UNCHANGED recordingVars
    BY <2>2 DEF recordingVars, RecordingInv
  <2> QED
    BY <2>1, <2>2, ComponentSteps
<1>3. RecordingInv => OneStreamPerRecording
  BY DEF RecordingInv, OneStream, OneStreamPerRecording, Rec!OneStreamPerRecording
<1> QED
  BY <1>1, <1>2, <1>3, PTL DEF SuiteSpec
-----------------------------------------------------------------------------
(* The task pool. *)

(* A task and the time it is due at.                                       *)
TimerRecord == [due : Nat, task : Tasks]

(* The time of an entry is a number.                                       *)
LEMMA TimerFields == \A x \in TimerRecord : x.due \in Nat
  BY DEF TimerRecord

(* The timers that are due later come first. *)
Descending(list) ==
    /\ list \in Seq(TimerRecord)
    /\ \A i, j \in 1..Len(list) : i < j => list[i].due >= list[j].due

(* The timers are sorted, the next one last; a worker that sleeps does so  *)
(* only while nothing is queued, and no longer than the first timer.       *)
PoolInv ==
    /\ tasks \in Seq(Tasks) /\ clock \in Nat
    /\ Descending(timers)
    /\ worker = "waiting" =>
          /\ tasks = <<>> /\ running
          /\ \A i \in 1..Len(timers) : until <= timers[i].due

(* The pool starts empty.                                                  *)
LEMMA PoolStarts == Queues!PoolInit => PoolInv
  BY DEF Queues!PoolInit, PoolInv, Descending

(* An entry put into a list at place p. *)
LEMMA InsertedAt ==
    ASSUME NEW S, NEW s \in Seq(S), NEW p \in 1..(Len(s) + 1), NEW e \in S
    PROVE  /\ Queues!InsertAt(s, p, e) \in Seq(S)
           /\ Len(Queues!InsertAt(s, p, e)) = Len(s) + 1
           /\ \A i \in 1..(Len(s) + 1) :
                 Queues!InsertAt(s, p, e)[i] = IF i < p THEN s[i] ELSE IF i = p THEN e ELSE s[i - 1]
<1> DEFINE a == SubSeq(s, 1, p - 1)
           b == SubSeq(s, p, Len(s))
<1>1. a \in Seq(S) /\ Len(a) = p - 1 /\ \A i \in 1..(p - 1) : a[i] = s[i]
  OBVIOUS
<1>2. b \in Seq(S) /\ Len(b) = Len(s) - p + 1 /\ \A i \in 1..(Len(s) - p + 1) : b[i] = s[p + i - 1]
  OBVIOUS
<1> DEFINE c == a \o <<e>>
           r == c \o b
<1> HIDE DEF a, b
<1>3. /\ c \in Seq(S) /\ Len(c) = p /\ c[p] = e
      /\ \A i \in 1..(p - 1) : c[i] = s[i]
  BY <1>1
<1> HIDE DEF c
<1>4. r \in Seq(S) /\ Len(r) = Len(s) + 1
  <2>1. r \in Seq(S) /\ Len(r) = Len(c) + Len(b)
    BY <1>2, <1>3, ConcatProperties
  <2>2. Len(s) \in Nat /\ p \in Nat
    OBVIOUS
  <2> QED
    BY <1>2, <1>3, <2>1, <2>2
<1>5. \A i \in 1..p : r[i] = c[i]
  BY <1>2, <1>3
<1>6. ASSUME NEW i \in (p + 1)..(Len(s) + 1) PROVE r[i] = s[i - 1]
  <2>1. r[i] = b[i - p]
    BY <1>2, <1>3
  <2>2. i - p \in 1..(Len(s) - p + 1) /\ p + (i - p) - 1 = i - 1
    OBVIOUS
  <2> QED
    BY <1>2, <2>1, <2>2
<1>7. Queues!InsertAt(s, p, e) = r
  BY DEF Queues!InsertAt, r, c, a, b
<1> HIDE DEF r
<1>8. \A i \in 1..(Len(s) + 1) : r[i] = IF i < p THEN s[i] ELSE IF i = p THEN e ELSE s[i - 1]
  BY <1>3, <1>5, <1>6
<1> QED
  BY <1>4, <1>7, <1>8

(* An entry taken out of a list. *)
LEMMA Removed ==
    ASSUME NEW S, NEW s \in Seq(S), NEW p \in 1..Len(s)
    PROVE  /\ Queues!RemoveAt(s, p) \in Seq(S)
           /\ Len(Queues!RemoveAt(s, p)) = Len(s) - 1
           /\ \A i \in 1..(Len(s) - 1) :
                 Queues!RemoveAt(s, p)[i] = IF i < p THEN s[i] ELSE s[i + 1]
<1> DEFINE a == SubSeq(s, 1, p - 1)
           b == SubSeq(s, p + 1, Len(s))
           r == a \o b
<1>1. a \in Seq(S) /\ Len(a) = p - 1 /\ \A i \in 1..(p - 1) : a[i] = s[i]
  OBVIOUS
<1>2. b \in Seq(S) /\ Len(b) = Len(s) - p /\ \A i \in 1..(Len(s) - p) : b[i] = s[p + i]
  OBVIOUS
<1>3. Queues!RemoveAt(s, p) = r
  BY DEF Queues!RemoveAt
<1> HIDE DEF a, b
<1>4. r \in Seq(S) /\ Len(r) = Len(s) - 1 /\ \A i \in 1..(p - 1) : r[i] = s[i]
  <2>1. /\ r \in Seq(S) /\ Len(r) = Len(a) + Len(b)
        /\ \A i \in 1..(Len(a) + Len(b)) : r[i] = IF i <= Len(a) THEN a[i] ELSE b[i - Len(a)]
    BY <1>1, <1>2, ConcatProperties
  <2>2. Len(s) \in Nat /\ p \in Nat
    OBVIOUS
  <2> QED
    BY <1>1, <1>2, <2>1, <2>2
<1>5. ASSUME NEW i \in p..(Len(s) - 1) PROVE r[i] = s[i + 1]
  <2>1. r[i] = b[i - p + 1]
    BY <1>1, <1>2
  <2>2. i - p + 1 \in 1..(Len(s) - p) /\ p + (i - p + 1) = i + 1
    OBVIOUS
  <2> QED
    BY <1>2, <2>1, <2>2
<1> HIDE DEF r
<1> QED
  BY <1>3, <1>4, <1>5

(* A timer goes before the first one that is due earlier: the list stays   *)
(* sorted.                                                                 *)
LEMMA TimerPlaced ==
    ASSUME NEW list, Descending(list), NEW e \in TimerRecord
    PROVE  Descending(Queues!Placed(list, e))
<1> DEFINE n == Len(list)
           earlier == {i \in DOMAIN list : list[i].due < e.due}
           place == IF earlier = {} THEN n + 1
                    ELSE CHOOSE i \in earlier : \A j \in earlier : i <= j
           r == Queues!Placed(list, e)
<1>1. /\ list \in Seq(TimerRecord) /\ n \in Nat /\ DOMAIN list = 1..n
      /\ \A i \in 1..n : list[i].due \in Nat
      /\ e.due \in Nat
  BY TimerFields DEF Descending
<1>2. /\ place \in 1..(n + 1)
      /\ \A i \in 1..n : i < place => list[i].due >= e.due
      /\ place <= n => list[place].due < e.due
  <2>1. CASE earlier = {}
    BY <1>1, <2>1
  <2>2. CASE earlier # {}
    <3>1. \E i \in earlier : \A j \in earlier : i <= j
      <4>1. earlier \in SUBSET Nat
        BY <1>1
      <4> HIDE DEF earlier
      <4> QED
        BY <2>2, <4>1, LeastNatural
    <3>2. place \in earlier /\ \A j \in earlier : place <= j
      BY <2>2, <3>1
    <3> HIDE DEF place
    <3> QED
      BY <1>1, <3>2
  <2> QED
    BY <2>1, <2>2
<1>3. r = Queues!InsertAt(list, place, e)
  BY DEF Queues!Placed
<1> HIDE DEF place, r
<1>4. /\ r \in Seq(TimerRecord) /\ Len(r) = n + 1
      /\ \A i \in 1..(n + 1) :
            r[i] = IF i < place THEN list[i] ELSE IF i = place THEN e ELSE list[i - 1]
  <2>1. e \in TimerRecord /\ list \in Seq(TimerRecord) /\ place \in 1..(Len(list) + 1)
    BY <1>1, <1>2
  <2> QED
    BY <1>3, <2>1, InsertedAt
<1>5. ASSUME NEW i \in 1..(n + 1), NEW j \in 1..(n + 1), i < j PROVE r[i].due >= r[j].due
  <2>1. \A k, l \in 1..n : k < l => list[k].due >= list[l].due
    BY DEF Descending
  <2>2. CASE i < place
    <3>1. r[i] = list[i] /\ i \in 1..n /\ list[i].due >= e.due
      BY <1>1, <1>2, <1>4, <2>2
    <3>2. CASE j < place
      BY <1>1, <1>2, <1>4, <1>5, <2>1, <3>1, <3>2
    <3>3. CASE j = place
      BY <1>1, <1>2, <1>4, <3>1, <3>3
    <3>4. CASE j > place
      <4>1. r[j] = list[j - 1] /\ j - 1 \in 1..n /\ i < j - 1
        BY <1>1, <1>2, <1>4, <2>2, <3>4
      <4> QED
        BY <2>1, <3>1, <4>1
    <3> QED
      BY <1>1, <1>2, <3>2, <3>3, <3>4
  <2>3. CASE i = place
    <3>1. r[i] = e /\ r[j] = list[j - 1] /\ j - 1 \in 1..n /\ place <= j - 1 /\ place <= n
      BY <1>1, <1>2, <1>4, <1>5, <2>3
    <3>2. list[place].due < e.due /\ list[place].due >= list[j - 1].due
      <4>1. place \in 1..n /\ list[place].due < e.due
        BY <1>1, <1>2, <3>1
      <4>2. place = j - 1 \/ list[place].due >= list[j - 1].due
        BY <1>1, <2>1, <3>1, <4>1
      <4> QED
        BY <1>1, <4>1, <4>2
    <3> QED
      BY <1>1, <1>2, <3>1, <3>2
  <2>4. CASE i > place
    <3>1. /\ r[i] = list[i - 1] /\ r[j] = list[j - 1]
          /\ i - 1 \in 1..n /\ j - 1 \in 1..n /\ i - 1 < j - 1
      BY <1>1, <1>2, <1>4, <1>5, <2>4
    <3> QED
      BY <2>1, <3>1
  <2> QED
    BY <1>1, <1>2, <2>2, <2>3, <2>4
<1> QED
  BY <1>4, <1>5 DEF Descending, r

(* Without one of its timers the list stays sorted, and has no new one. *)
LEMMA TimerRemoved ==
    ASSUME NEW list, Descending(list), NEW p \in 1..Len(list)
    PROVE  /\ Descending(Queues!RemoveAt(list, p))
           /\ \A i \in 1..Len(Queues!RemoveAt(list, p)) :
                 \E j \in 1..Len(list) : Queues!RemoveAt(list, p)[i] = list[j]
<1> DEFINE r == Queues!RemoveAt(list, p)
<1>1. /\ r \in Seq(TimerRecord) /\ Len(r) = Len(list) - 1 /\ Len(list) \in Nat
      /\ \A i \in 1..(Len(list) - 1) : r[i] = IF i < p THEN list[i] ELSE list[i + 1]
  BY Removed DEF Descending
<1> HIDE DEF r
<1>2. \A i, j \in 1..Len(r) : i < j => r[i].due >= r[j].due
  BY <1>1 DEF Descending
<1>3. \A i \in 1..Len(r) : \E j \in 1..Len(list) : r[i] = list[j]
  <2> TAKE i \in 1..Len(r)
  <2>1. CASE i < p
    BY <1>1, <2>1
  <2>2. CASE ~(i < p)
    <3>1. i + 1 \in 1..Len(list) /\ r[i] = list[i + 1]
      BY <1>1, <2>2
    <3> QED
      BY <3>1
  <2> QED
    BY <2>1, <2>2
<1> QED
  BY <1>1, <1>2, <1>3 DEF Descending, r

(* Every push, delay, cancellation and step of a worker keeps the          *)
(* invariant.                                                              *)
LEMMA PoolKept ==
    ASSUME PoolInv, Queues!PoolNext PROVE PoolInv'
<1> USE PoolAssumption
<1>1. ASSUME NEW t \in Tasks, Queues!Push(t) PROVE PoolInv'
  BY <1>1 DEF Queues!Push, Queues!Notify, PoolInv
<1>2. ASSUME NEW t \in Tasks, Queues!Cancel(t) PROVE PoolInv'
  <2>1. PICK p \in DOMAIN timers : timers' = Queues!RemoveAt(timers, p)
    BY <1>2 DEF Queues!Cancel
  <2>2. p \in 1..Len(timers)
    BY DEF PoolInv, Descending
  <2>3. /\ Descending(timers')
        /\ \A i \in 1..Len(timers') : \E j \in 1..Len(timers) : timers'[i] = timers[j]
    BY <2>1, <2>2, TimerRemoved DEF PoolInv
  <2> QED
    BY <1>2, <2>3 DEF Queues!Cancel, PoolInv
<1>3. ASSUME NEW t \in Tasks, NEW d \in Delays, Queues!PushDelayed(t, d) PROVE PoolInv'
  <2> DEFINE at == clock + d
  <2>1. [due |-> at, task |-> t] \in TimerRecord
    <3>1. clock \in Nat
      BY DEF PoolInv
    <3>2. at \in Nat
      BY <3>1
    <3> HIDE DEF at
    <3> QED
      BY <3>2 DEF TimerRecord
  <2>2. Descending(timers')
    BY <1>3, <2>1, TimerPlaced DEF Queues!PushDelayed, PoolInv
  <2> QED
    BY <1>3, <2>2 DEF Queues!PushDelayed, Queues!Notify, PoolInv
<1>4. CASE Queues!WorkerPop
  <2>1. worker' # "waiting" /\ clock' = clock
    BY <1>4 DEF Queues!WorkerPop, Queues!Draining
  <2>2. CASE tasks' = Tail(tasks) /\ tasks # <<>> /\ timers' = timers
    BY <2>1, <2>2 DEF PoolInv
  <2>3. CASE timers # <<>> /\ timers' = Queues!Front(timers) /\ tasks' = tasks
    <3>1. /\ timers' \in Seq(TimerRecord) /\ Len(timers') = Len(timers) - 1
          /\ \A i \in 1..Len(timers') : timers'[i] = timers[i]
          /\ Len(timers) \in Nat
      <4>1. timers \in Seq(TimerRecord) /\ Len(timers) \in Nat /\ Len(timers) >= 1
        BY <2>3 DEF PoolInv, Descending
      <4>2. timers' = SubSeq(timers, 1, Len(timers) - 1)
        BY <2>3 DEF Queues!Front
      <4>3. \A i \in 1..(Len(timers) - 1) : timers[i] \in TimerRecord
        BY <4>1, ElementOfSeq
      <4>4. /\ timers' \in Seq(TimerRecord) /\ Len(timers') = Len(timers) - 1
            /\ \A i \in 1..(Len(timers) - 1) : timers'[i] = timers[i]
        <5> DEFINE k == Len(timers) - 1
        <5>1. k \in Nat /\ timers' = SubSeq(timers, 1, k) /\ \A i \in 1..k : timers[i] \in TimerRecord
          BY <4>1, <4>2, <4>3
        <5> HIDE DEF k
        <5>2. /\ timers' \in Seq(TimerRecord) /\ Len(timers') = IF 1 <= k THEN k - 1 + 1 ELSE 0
              /\ \A i \in 1..(k - 1 + 1) : timers'[i] = timers[1 + i - 1]
          BY <5>1, SubSeqProperties
        <5>3. Len(timers') = k /\ \A i \in 1..k : timers'[i] = timers[i]
          BY <5>1, <5>2
        <5> QED
          BY <5>2, <5>3 DEF k
      <4> QED
        BY <4>1, <4>4
    <3>2. Descending(timers')
      BY <3>1 DEF PoolInv, Descending
    <3> QED
      BY <2>1, <2>3, <3>2 DEF PoolInv
  <2> QED
    BY <1>4, <2>2, <2>3 DEF Queues!WorkerPop, Queues!PopTask, Queues!Due
<1>5. CASE Queues!WorkerRun \/ Queues!WorkerEmpty \/ Queues!WorkerLock
  BY <1>5 DEF Queues!WorkerRun, Queues!WorkerEmpty, Queues!WorkerLock, PoolInv
<1>6. CASE Queues!WorkerDecide
  <2>1. UNCHANGED <<tasks, timers, running, clock>>
    BY <1>6 DEF Queues!WorkerDecide
  <2>2. CASE worker' # "waiting"
    BY <2>1, <2>2 DEF PoolInv
  <2>3. CASE worker' = "waiting"
    <3>1. tasks = <<>> /\ running
      BY <1>6, <2>3 DEF Queues!WorkerDecide, Queues!Ready
    <3>2. timers # <<>> => until' = timers[Len(timers)].due
      BY <1>6, <2>3 DEF Queues!WorkerDecide, Queues!Ready, Queues!Last
    <3>3. \A i \in 1..Len(timers) : until' <= timers[i].due
      <4> SUFFICES ASSUME NEW i \in 1..Len(timers) PROVE until' <= timers[i].due
        OBVIOUS
      <4>1. /\ timers \in Seq(TimerRecord) /\ Len(timers) \in 1..Len(timers)
            /\ timers[i].due \in Nat /\ timers # <<>>
        BY TimerFields DEF PoolInv, Descending
      <4>2. i = Len(timers) \/ timers[i].due >= timers[Len(timers)].due
        BY <4>1 DEF PoolInv, Descending
      <4>3. timers[Len(timers)].due \in Nat
        BY <4>1, TimerFields
      <4> QED
        BY <3>2, <4>1, <4>2, <4>3
    <3> QED
      BY <2>1, <3>1, <3>3 DEF PoolInv
  <2> QED
    BY <2>2, <2>3
<1>7. CASE Queues!WorkerTimeout \/ Queues!WorkerLeave
  BY <1>7 DEF Queues!WorkerTimeout, Queues!WorkerLeave, PoolInv
<1>8. CASE Queues!Stop
  BY <1>8 DEF Queues!Stop, Queues!Notify, PoolInv
<1>9. CASE Queues!Tick
  BY <1>9 DEF Queues!Tick, PoolInv
<1> QED
  BY <1>1, <1>2, <1>3, <1>4, <1>5, <1>6, <1>7, <1>8, <1>9 DEF Queues!PoolNext, Queues!WorkerStep
-----------------------------------------------------------------------------
(* The mailboxes. *)

(* An item: its producer and its number.                                   *)
Items == Producers \X Nat

(* A sequence of items in which those of each producer come in its order,  *)
(* when n counts what it offered and w is where it is: what it still       *)
(* carries is not among them.                                              *)
Handed(s, n, w) ==
    /\ s \in Seq(Items)
    /\ \A i, j \in 1..Len(s) : i < j /\ s[i][1] = s[j][1] => s[i][2] < s[j][2]
    /\ \A i \in 1..Len(s) : /\ s[i][2] <= n[s[i][1]]
                            /\ w[s[i][1]] # "idle" => s[i][2] < n[s[i][1]]

(* Every item offered is in the sequence or still carried. *)
Covered(s, n, w) ==
    \A p \in Producers : \A k \in 1..n[p] :
        \/ \E i \in 1..Len(s) : s[i] = <<p, k>>
        \/ k = n[p] /\ w[p] # "idle"

(* How much each producer has sent.                                        *)
Counts == [Producers -> Nat]
(* Where each producer is.                                                 *)
Places == [Producers -> {"idle", "waiting", "woken"}]

(* The queue keeps its bound, and what was taken and what is queued, one   *)
(* after the other, are what was accepted, in the order of each producer.  *)
MailInv ==
    /\ overflow \in Queues!Policies /\ queue \in Seq(Items) /\ taken \in Seq(Items)
    /\ sent \in Counts /\ sender \in Places
    /\ Len(queue) <= MaxElements
    /\ Handed(taken \o queue, sent, sender)
    /\ overflow = "block_producer" /\ open => Covered(taken \o queue, sent, sender)

(* The queue starts empty.                                                 *)
LEMMA MailStarts == Queues!MailInit => MailInv
<1> SUFFICES ASSUME Queues!MailInit PROVE MailInv
  OBVIOUS
<1>1. queue = <<>> /\ taken = <<>> /\ taken \o queue = <<>> /\ Len(taken \o queue) = 0
  BY DEF Queues!MailInit
<1>2. /\ sent \in Counts /\ sender \in Places /\ overflow \in Queues!Policies
      /\ \A p \in Producers : sent[p] = 0
  BY DEF Queues!MailInit, Counts, Places
<1> QED
  BY <1>1, <1>2, MailAssumption DEF MailInv, Handed, Covered

(* An item is the pair of its parts.                                       *)
LEMMA ItemParts == \A x \in Items : x[1] \in Producers /\ x[2] \in Nat /\ x = <<x[1], x[2]>>
  BY DEF Items

(* Only whether a producer is idle matters. *)
LEMMA Notified ==
    ASSUME NEW s, NEW n \in Counts, NEW v \in Places, NEW w \in Places, Handed(s, n, v),
           \A p \in Producers : v[p] = "idle" <=> w[p] = "idle"
    PROVE  Handed(s, n, w) /\ (Covered(s, n, v) => Covered(s, n, w))
<1>1. \A i \in 1..Len(s) : s[i] \in Items /\ s[i][1] \in Producers
  BY ItemParts, ElementOfSeq DEF Handed
<1>2. Handed(s, n, w)
  BY <1>1 DEF Handed
<1>3. Covered(s, n, v) => Covered(s, n, w)
  BY DEF Covered
<1> QED
  BY <1>2, <1>3

(* An item goes to the end of the sequence. *)
LEMMA Offered ==
    ASSUME NEW s, NEW n \in Counts, NEW w \in Places, Handed(s, n, w),
           NEW p \in Producers, NEW k \in Nat,
           NEW m \in Counts, NEW v \in Places,
           \A q \in Producers : q # p => m[q] = n[q] /\ (w[q] = "idle" <=> v[q] = "idle"),
           m[p] = k, v[p] = "idle",
           \/ k = n[p] + 1 /\ w[p] = "idle"
           \/ k = n[p] /\ w[p] # "idle"
    PROVE  /\ Handed(Append(s, <<p, k>>), m, v)
           /\ Covered(s, n, w) => Covered(Append(s, <<p, k>>), m, v)
<1> DEFINE x == <<p, k>>
           r == Append(s, x)
<1>1. x \in Items /\ x[1] = p /\ x[2] = k
  BY DEF Items
<1>2. \A i \in 1..Len(s) : s[i] \in Items /\ s[i][1] \in Producers /\ s[i][2] \in Nat
  BY ItemParts, ElementOfSeq DEF Handed
<1> HIDE DEF x
<1>3. /\ r \in Seq(Items) /\ Len(r) = Len(s) + 1 /\ Len(s) \in Nat
      /\ \A i \in 1..Len(s) : r[i] = s[i]
      /\ r[Len(s) + 1] = x
  BY <1>1, Appended DEF Handed
<1> HIDE DEF r
<1>4. \A i \in 1..Len(r) : i \in 1..Len(s) \/ i = Len(s) + 1
  BY <1>3
<1>5. \A i \in 1..Len(s) : s[i][1] = p => s[i][2] < k
  <2> TAKE i \in 1..Len(s)
  <2>1. n[p] \in Nat
    BY DEF Counts
  <2>2. s[i][2] <= n[s[i][1]] /\ (w[s[i][1]] # "idle" => s[i][2] < n[s[i][1]])
    BY DEF Handed
  <2> QED
    BY <1>2, <2>1, <2>2
<1>6. ASSUME NEW i \in 1..Len(r), NEW j \in 1..Len(r), i < j, r[i][1] = r[j][1]
      PROVE  r[i][2] < r[j][2]
  <2>1. i \in 1..Len(s) /\ r[i] = s[i]
    BY <1>3, <1>4, <1>6
  <2>2. CASE j \in 1..Len(s)
    BY <1>3, <1>6, <2>1, <2>2 DEF Handed
  <2>3. CASE j = Len(s) + 1
    BY <1>1, <1>3, <1>5, <1>6, <2>1, <2>3
  <2> QED
    BY <1>4, <2>2, <2>3
<1>7. ASSUME NEW i \in 1..Len(r)
      PROVE  r[i][2] <= m[r[i][1]] /\ (v[r[i][1]] # "idle" => r[i][2] < m[r[i][1]])
  <2>1. CASE i = Len(s) + 1
    BY <1>1, <1>3, <2>1
  <2>2. CASE i \in 1..Len(s) /\ s[i][1] = p
    BY <1>2, <1>3, <1>5, <2>2
  <2>3. CASE i \in 1..Len(s) /\ s[i][1] # p
    BY <1>2, <1>3, <2>3 DEF Handed
  <2> QED
    BY <1>4, <2>1, <2>2, <2>3
<1>8. ASSUME Covered(s, n, w), NEW q \in Producers, NEW l \in 1..m[q]
      PROVE  \/ \E i \in 1..Len(r) : r[i] = <<q, l>>
             \/ l = m[q] /\ v[q] # "idle"
  <2>0. n[q] \in Nat /\ m[q] \in Nat
    BY DEF Counts
  <2>1. CASE q = p /\ l = k
    <3>1. Len(s) + 1 \in 1..Len(r) /\ r[Len(s) + 1] = <<q, l>>
      BY <1>3, <2>1 DEF x
    <3> QED
      BY <3>1
  <2>2. CASE ~(q = p /\ l = k)
    <3>1. l \in 1..n[q] /\ (l = n[q] /\ w[q] # "idle" => q # p)
      BY <2>0, <2>2
    <3>2. CASE \E i \in 1..Len(s) : s[i] = <<q, l>>
      <4>1. PICK i \in 1..Len(s) : s[i] = <<q, l>>
        BY <3>2
      <4>2. i \in 1..Len(r) /\ r[i] = <<q, l>>
        BY <1>3, <4>1
      <4> QED
        BY <4>2
    <3>3. CASE l = n[q] /\ w[q] # "idle"
      BY <3>1, <3>3
    <3> QED
      BY <1>8, <3>1, <3>2, <3>3 DEF Covered
  <2> QED
    BY <2>1, <2>2
<1> QED
  BY <1>3, <1>6, <1>7, <1>8 DEF Handed, Covered, r, x

(* An item is refused, or stays with its producer. *)
LEMMA KeptBack ==
    ASSUME NEW s, NEW n \in Counts, NEW w \in Places, Handed(s, n, w),
           NEW p \in Producers, NEW v \in Places,
           \A q \in Producers : q # p => v[q] = w[q]
    PROVE  LET m == [n EXCEPT ![p] = @ + 1]
           IN  /\ m \in Counts /\ Handed(s, m, v)
               /\ Covered(s, n, w) /\ w[p] = "idle" /\ v[p] # "idle" => Covered(s, m, v)
<1> DEFINE m == [n EXCEPT ![p] = @ + 1]
<1>1. \A i \in 1..Len(s) : s[i] \in Items /\ s[i][1] \in Producers /\ s[i][2] \in Nat
  BY ItemParts, ElementOfSeq DEF Handed
<1>2. /\ m \in Counts /\ m[p] = n[p] + 1
      /\ \A q \in Producers : n[q] \in Nat /\ m[q] \in Nat /\ (q # p => m[q] = n[q])
  BY DEF Counts
<1> HIDE DEF m
<1>3. ASSUME NEW i \in 1..Len(s)
      PROVE  s[i][2] <= m[s[i][1]] /\ (v[s[i][1]] # "idle" => s[i][2] < m[s[i][1]])
  <2>1. s[i][2] <= n[s[i][1]] /\ (w[s[i][1]] # "idle" => s[i][2] < n[s[i][1]])
    BY DEF Handed
  <2>2. CASE s[i][1] = p
    BY <1>1, <1>2, <2>1, <2>2
  <2>3. CASE s[i][1] # p
    BY <1>1, <1>2, <2>1, <2>3
  <2> QED
    BY <2>2, <2>3
<1>4. Handed(s, m, v)
  BY <1>3 DEF Handed
<1>5. ASSUME Covered(s, n, w), w[p] = "idle", v[p] # "idle",
             NEW q \in Producers, NEW l \in 1..m[q]
      PROVE  \/ \E i \in 1..Len(s) : s[i] = <<q, l>>
             \/ l = m[q] /\ v[q] # "idle"
  <2>1. CASE q = p
    <3>1. CASE l = n[p] + 1
      BY <1>2, <1>5, <2>1, <3>1
    <3>2. CASE l # n[p] + 1
      <4>1. l \in 1..n[p]
        BY <1>2, <2>1, <3>2
      <4> QED
        BY <1>5, <2>1, <4>1 DEF Covered
    <3> QED
      BY <3>1, <3>2
  <2>2. CASE q # p
    BY <1>2, <1>5, <2>2 DEF Covered
  <2> QED
    BY <2>1, <2>2
<1> QED
  BY <1>2, <1>4, <1>5 DEF Covered, m

(* What was queued is forgotten. *)
LEMMA Prefix ==
    ASSUME NEW s \in Seq(Items), NEW t \in Seq(Items), NEW n, NEW w, Handed(s \o t, n, w)
    PROVE  Handed(s, n, w)
<1>1. /\ Len(s) \in Nat /\ Len(t) \in Nat /\ Len(s \o t) = Len(s) + Len(t)
      /\ \A i \in 1..Len(s) : (s \o t)[i] = s[i]
  BY ConcatProperties
<1>2. \A i \in 1..Len(s) : i \in 1..Len(s \o t)
  BY <1>1
<1> QED
  BY <1>1, <1>2 DEF Handed

(* An item at the end of the queue is at the end of everything.            *)
LEMMA AppendedLast ==
    ASSUME NEW S, NEW s \in Seq(S), NEW t \in Seq(S), NEW x \in S
    PROVE  s \o Append(t, x) = Append(s \o t, x)
<1>1. Append(t, x) = t \o <<x>> /\ <<x>> \in Seq(S)
  OBVIOUS
<1>2. s \o t \in Seq(S)
  BY ConcatProperties
<1>3. Append(s \o t, x) = (s \o t) \o <<x>>
  BY <1>2
<1> QED
  BY <1>1, <1>3, ConcatAssociative

(* The first item of the queue becomes the last one that was taken.        *)
LEMMA HandedOver ==
    ASSUME NEW S, NEW s \in Seq(S), NEW t \in Seq(S), t # <<>>
    PROVE  Append(s, Head(t)) \o Tail(t) = s \o t
<1>1. Head(t) \in S /\ Tail(t) \in Seq(S) /\ <<Head(t)>> \in Seq(S) /\ t = <<Head(t)>> \o Tail(t)
  OBVIOUS
<1>2. Append(s, Head(t)) = s \o <<Head(t)>>
  BY <1>1
<1> QED
  BY <1>1, <1>2, ConcatAssociative

(* Every send, wake-up, receive and close keeps the invariant.             *)
LEMMA MailKept ==
    ASSUME MailInv, Queues!MailNext PROVE MailInv'
<1> DEFINE all == taken \o queue
<1>0. /\ all \in Seq(Items) /\ taken \in Seq(Items) /\ queue \in Seq(Items) /\ Len(queue) \in Nat
      /\ sent \in Counts /\ sender \in Places /\ MaxElements \in Nat \ {0}
      /\ Handed(all, sent, sender)
  BY ConcatProperties, MailAssumption DEF MailInv
<1> DEFINE woken == [p \in Producers |-> IF sender[p] = "waiting" THEN "woken" ELSE sender[p]]
<1>w. woken \in Places /\ \A p \in Producers : woken[p] = "idle" <=> sender[p] = "idle"
  BY <1>0 DEF Places
<1> HIDE DEF all, woken
<1>1. ASSUME NEW p \in Producers, Queues!Raise(p) PROVE MailInv'
  <2> DEFINE k == sent[p] + 1
             item == <<p, k>>
  <2>1. /\ sender[p] = "idle" /\ open /\ k \in Nat /\ item \in Items /\ sent[p] \in Nat
        /\ sent' = [sent EXCEPT ![p] = @ + 1]
        /\ UNCHANGED <<overflow, open, taken>>
    BY <1>0, <1>1 DEF Queues!Raise, Counts, Items
  <2>2. sent' \in Counts /\ sent'[p] = k /\ \A q \in Producers : q # p => sent'[q] = sent[q]
    BY <1>0, <2>1 DEF Counts
  <2>3. CASE ~Queues!Full /\ queue' = Append(queue, item) /\ sender' = woken
    <3>1. taken' \o queue' = Append(all, item)
      BY <1>0, <2>1, <2>3, AppendedLast DEF all
    <3>2. /\ Handed(Append(all, item), sent', woken)
          /\ Covered(all, sent, sender) => Covered(Append(all, item), sent', woken)
      <4>1. woken[p] = "idle"
        BY <1>w, <2>1
      <4> HIDE DEF k
      <4>2. k = sent[p] + 1
        BY DEF k
      <4> QED
        BY <1>0, <1>w, <2>1, <2>2, <4>1, <4>2, Offered
    <3>3. queue' \in Seq(Items) /\ Len(queue') <= MaxElements
      BY <1>0, <2>1, <2>3, Appended DEF Queues!Full
    <3> QED
      BY <1>0, <1>w, <2>1, <2>2, <2>3, <3>1, <3>2, <3>3 DEF MailInv, all
  <2>4. CASE overflow = "reject" /\ UNCHANGED <<queue, sender>>
    <3>1. Handed(all, sent', sender)
      BY <1>0, <2>1, KeptBack
    <3> QED
      BY <1>0, <2>1, <2>2, <2>4, <3>1 DEF MailInv, all
  <2>5. CASE overflow = "clear_pending" /\ queue' = <<item>> /\ sender' = woken
    <3>1. Handed(taken, sent, sender)
      BY <1>0, Prefix DEF all
    <3>2. /\ Handed(Append(taken, item), sent', woken)
          /\ Covered(taken, sent, sender) => Covered(Append(taken, item), sent', woken)
      <4>1. woken[p] = "idle"
        BY <1>w, <2>1
      <4> HIDE DEF k
      <4>2. k = sent[p] + 1
        BY DEF k
      <4> QED
        BY <1>0, <1>w, <2>1, <2>2, <3>1, <4>1, <4>2, Offered
    <3> HIDE DEF item
    <3>3. taken' \o queue' = Append(taken, item) /\ queue' \in Seq(Items) /\ Len(queue') = 1
      BY <1>0, <2>1, <2>5
    <3>4. Len(queue') <= MaxElements
      BY <1>0, <3>3
    <3>5. Handed(taken' \o queue', sent', sender')
      BY <2>5, <3>2, <3>3
    <3> QED
      BY <1>0, <1>w, <2>1, <2>2, <2>5, <3>3, <3>4, <3>5 DEF MailInv
  <2>6. CASE sender' = [sender EXCEPT ![p] = "waiting"] /\ UNCHANGED queue
    <3>1. /\ sender' \in Places /\ sender'[p] # "idle"
          /\ \A q \in Producers : q # p => sender'[q] = sender[q]
      BY <1>0, <2>6 DEF Places
    <3>2. /\ Handed(all, sent', sender')
          /\ Covered(all, sent, sender) => Covered(all, sent', sender')
      BY <1>0, <2>1, <3>1, KeptBack
    <3> QED
      BY <1>0, <2>1, <2>2, <2>6, <3>1, <3>2 DEF MailInv, all
  <2> QED
    BY <1>1, <2>3, <2>4, <2>5, <2>6 DEF Queues!Raise, Queues!NotifyAll, woken
<1>2. ASSUME NEW p \in Producers, Queues!RaiseWoken(p) PROVE MailInv'
  <2>1. /\ sender[p] = "woken" /\ UNCHANGED <<overflow, open, sent, taken>>
    BY <1>2 DEF Queues!RaiseWoken
  <2>2. CASE ~open /\ sender' = [sender EXCEPT ![p] = "idle"] /\ UNCHANGED queue
    <3>1. sender' \in Places /\ \A q \in Producers : sender'[q] # "idle" => sender[q] # "idle"
      BY <1>0, <2>2 DEF Places
    <3>2. \A i \in 1..Len(all) : all[i] \in Items /\ all[i][1] \in Producers
      BY <1>0, ItemParts, ElementOfSeq
    <3>3. Handed(all, sent, sender')
      BY <1>0, <3>1, <3>2 DEF Handed
    <3> QED
      BY <1>0, <2>1, <2>2, <3>1, <3>3 DEF MailInv, all
  <2>3. CASE sender' = [sender EXCEPT ![p] = "waiting"] /\ UNCHANGED queue
    <3>1. sender' \in Places /\ \A q \in Producers : sender'[q] = "idle" <=> sender[q] = "idle"
      BY <1>0, <2>1, <2>3 DEF Places
    <3>2. /\ Handed(all, sent, sender')
          /\ Covered(all, sent, sender) => Covered(all, sent, sender')
      BY <1>0, <3>1, Notified
    <3> QED
      BY <1>0, <2>1, <2>3, <3>1, <3>2 DEF MailInv, all
  <2>4. CASE /\ open /\ ~Queues!Full /\ queue' = Append(queue, Queues!Item(p))
             /\ sender' = [q \in Producers |->
                              IF q = p THEN "idle"
                              ELSE IF sender[q] = "waiting" THEN "woken" ELSE sender[q]]
    <3> DEFINE item == <<p, sent[p]>>
    <3>1. item \in Items /\ item = Queues!Item(p) /\ sent[p] \in Nat
      BY <1>0 DEF Queues!Item, Counts, Items
    <3>2. /\ sender' \in Places /\ sender'[p] = "idle"
          /\ \A q \in Producers : q # p => (sender[q] = "idle" <=> sender'[q] = "idle")
      BY <1>0, <2>4 DEF Places
    <3>3. taken' \o queue' = Append(all, item)
      BY <1>0, <2>1, <2>4, <3>1, AppendedLast DEF all
    <3>4. /\ Handed(Append(all, item), sent, sender')
          /\ Covered(all, sent, sender) => Covered(Append(all, item), sent, sender')
      BY <1>0, <2>1, <3>1, <3>2, Offered
    <3> HIDE DEF item
    <3>5. queue' \in Seq(Items) /\ Len(queue') = Len(queue) + 1
      BY <1>0, <2>4, <3>1, Appended
    <3>6. Len(queue') <= MaxElements
      BY <1>0, <2>4, <3>5 DEF Queues!Full
    <3> QED
      BY <1>0, <2>1, <2>4, <3>2, <3>3, <3>4, <3>5, <3>6 DEF MailInv, all
  <2> QED
    BY <1>2, <2>2, <2>3, <2>4 DEF Queues!RaiseWoken, Queues!Enqueue
<1>3. CASE Queues!PopItem
  <2>1. UNCHANGED <<overflow, open, sent>>
    BY <1>3 DEF Queues!PopItem
  <2>2. CASE UNCHANGED <<queue, taken, sender>>
    BY <2>1, <2>2 DEF MailInv
  <2>3. CASE /\ queue # <<>> /\ taken' = Append(taken, Head(queue)) /\ queue' = Tail(queue)
             /\ sender' = woken
    <3>1. taken' \o queue' = all
      BY <1>0, <2>3, HandedOver DEF all
    <3>2. /\ Handed(all, sent, woken)
          /\ Covered(all, sent, sender) => Covered(all, sent, woken)
      BY <1>0, <1>w, Notified
    <3>3. /\ queue' \in Seq(Items) /\ Len(queue') = Len(queue) - 1 /\ taken' \in Seq(Items)
      BY <1>0, <2>3, Popped, Appended
    <3>4. Len(queue') <= MaxElements
      BY <1>0, <3>3 DEF MailInv
    <3> QED
      BY <1>0, <1>w, <2>1, <2>3, <3>1, <3>2, <3>3, <3>4 DEF MailInv, all
  <2> QED
    BY <1>3, <2>2, <2>3 DEF Queues!PopItem, woken
<1>4. CASE Queues!PopTimeout
  BY <1>4 DEF Queues!PopTimeout, MailInv
<1>5. CASE Queues!QueueStop
  <2>1. Handed(all, sent, woken)
    BY <1>0, <1>w, Notified
  <2> QED
    BY <1>0, <1>5, <1>w, <2>1 DEF Queues!QueueStop, Queues!NotifyAll, MailInv, all, woken
<1>6. CASE Queues!EventRaise \/ Queues!EventPop \/ Queues!PostGet \/ Queues!PostDrop \/ Queues!PostCleanup
  BY <1>6 DEF Queues!EventRaise, Queues!EventPop, Queues!PostGet, Queues!PostDrop, Queues!PostCleanup,
              MailInv
<1> QED
  BY <1>1, <1>2, <1>3, <1>4, <1>5, <1>6 DEF Queues!MailNext

(* What the invariant says is what a receiver sees.                        *)
LEMMA MailOrdered == MailInv => Queues!OrderedHandover
<1> SUFFICES ASSUME MailInv PROVE Queues!OrderedHandover
  OBVIOUS
<1> DEFINE all == taken \o queue
<1>1. all \in Seq(Items) /\ DOMAIN all = 1..Len(all) /\ Handed(all, sent, sender)
  BY ConcatProperties DEF MailInv
<1>2. \A i \in 1..Len(all) : all[i] \in Queues!ToSet(all)
  BY <1>1 DEF Queues!ToSet
<1>3. overflow = "block_producer" /\ open => Covered(all, sent, sender)
  BY DEF MailInv
<1>4. Len(queue) <= MaxElements
  BY DEF MailInv
<1> HIDE DEF all
<1>5. \A i, j \in DOMAIN all : i < j /\ all[i][1] = all[j][1] => all[i][2] < all[j][2]
  BY <1>1 DEF Handed
<1>6. overflow = "block_producer" /\ open =>
          \A p \in Producers : \A n \in 1..sent[p] :
              <<p, n>> \in Queues!ToSet(all) \/ (n = sent[p] /\ sender[p] # "idle")
  BY <1>2, <1>3 DEF Covered
<1> QED
  BY <1>4, <1>5, <1>6 DEF Queues!OrderedHandover, all

(* Whatever threads push, cancel, raise, pop and stop: no worker of the    *)
(* pool sleeps past work that is due, and a mailbox keeps its bound and    *)
(* hands over everything it accepted in the order of its producers.        *)
THEOREM WaitersServed == SuiteSpec => []WaitersAreServed
<1>1. Start => PoolInv /\ MailInv
  BY PoolStarts, MailStarts DEF Start
<1>2. PoolInv /\ [Steps]_allVars => PoolInv'
  <2> SUFFICES ASSUME PoolInv, [Steps]_allVars PROVE PoolInv'
    OBVIOUS
  <2>1. CASE Queues!PoolNext
    BY <2>1, PoolKept
  <2>2. CASE UNCHANGED poolVars
    BY <2>2 DEF poolVars, PoolInv
  <2> QED
    BY <2>1, <2>2, ComponentSteps
<1>3. MailInv /\ [Steps]_allVars => MailInv'
  <2> SUFFICES ASSUME MailInv, [Steps]_allVars PROVE MailInv'
    OBVIOUS
  <2>1. CASE Queues!MailNext
    BY <2>1, MailKept
  <2>2. CASE UNCHANGED mailVars
    BY <2>2 DEF mailVars, MailInv
  <2> QED
    BY <2>1, <2>2, ComponentSteps
<1>4. PoolInv => Queues!NoMissedWakeup
  BY DEF PoolInv, Descending, Queues!NoMissedWakeup
<1>5. PoolInv /\ MailInv => WaitersAreServed
  BY <1>4, MailOrdered DEF WaitersAreServed
<1> QED
  BY <1>1, <1>2, <1>3, <1>5, PTL DEF SuiteSpec
-----------------------------------------------------------------------------
(* Web sessions. *)

(* The sessions f, in memory or in the file, when the credentials have     *)
(* version cr: they are of this version or an older one, and one that has  *)
(* ended is of an older one, or its removal never reached the disk.        *)
Settled(f, cr, is, en, un) ==
    /\ DOMAIN f \subseteq is
    /\ \A i \in DOMAIN f :
          /\ f[i].creds \in Nat /\ f[i].creds <= cr
          /\ f[i].creds = cr /\ i \in en => i \in un

(* The sessions in memory and those in the file are settled.               *)
WebInv ==
    /\ creds \in Nat /\ ended \subseteq issued
    /\ Settled(webSessions, creds, issued, ended, unsaved)
    /\ Settled(stored, creds, issued, ended, unsaved)

(* There are no sessions at first.                                         *)
LEMMA WebStarts == Web!Init => WebInv
BY DEF Web!Init, Web!Empty, WebInv, Settled

(* Forgetting sessions leaves the rest as they were. *)
LEMMA Forgotten ==
    ASSUME NEW f, NEW S, NEW cr, NEW is, NEW en, NEW un, Settled(f, cr, is, en, un)
    PROVE  Settled(Web!Only(f, S), cr, is, en, un)
BY DEF Settled, Web!Only

(* So does the expiry of sessions.                                         *)
LEMMA ExpiredForgotten ==
    ASSUME NEW f, NEW cr, NEW is, NEW en, NEW un, Settled(f, cr, is, en, un)
    PROVE  Settled(Web!Unexpired(f), cr, is, en, un)
BY Forgotten DEF Web!Unexpired

(* What validate() leaves are sessions it found. *)
LEMMA Validated ==
    ASSUME NEW i, WebInv
    PROVE  Settled(Web!AfterValidate(i), creds, issued, ended, unsaved)
<1> DEFINE f == Web!Unexpired(webSessions)
<1>1. Settled(f, creds, issued, ended, unsaved)
  BY ExpiredForgotten DEF WebInv
<1> HIDE DEF f
<1>2. Settled(Web!Only(f, Ids \ {i}), creds, issued, ended, unsaved)
  BY <1>1, Forgotten
<1>3. Web!AfterValidate(i) \in {f, Web!Only(f, Ids \ {i})}
  BY DEF Web!AfterValidate, f
<1> QED
  BY <1>1, <1>2, <1>3

(* Sessions are saved, or the disk keeps some that are gone: those become  *)
(* the exception.                                                          *)
LEMMA Saved ==
    ASSUME NEW f, NEW en, NEW is,
           Settled(f, creds, is, en, unsaved),
           Settled(stored, creds, is, en, unsaved \cup (DOMAIN stored \ DOMAIN f)),
           Web!Persist(f)
    PROVE  /\ Settled(f, creds, is, en, unsaved')
           /\ Settled(stored', creds, is, en, unsaved')
BY DEF Settled, Web!Persist

(* Logins, logouts, new credentials, failing saves and restarts keep the   *)
(* invariant.                                                              *)
LEMMA WebKept ==
    ASSUME WebInv, [Web!Next]_webVars
    PROVE  WebInv'
<1> SUFFICES ASSUME Web!Next PROVE WebInv'
  BY DEF WebInv, Settled, webVars
<1>1. ASSUME NEW i \in Ids, Web!Refuse(i) PROVE WebInv'
  <2>1. Settled(webSessions', creds, issued, ended, unsaved)
    BY <1>1, Validated DEF Web!Refuse
  <2>2. CASE UNCHANGED <<stored, unsaved>>
    BY <1>1, <2>1, <2>2 DEF WebInv, Web!Refuse
  <2>3. CASE Web!Persist(webSessions')
    <3>1. Settled(stored, creds, issued, ended,
                  unsaved \cup (DOMAIN stored \ DOMAIN webSessions'))
      BY DEF WebInv, Settled
    <3> QED
      BY <1>1, <2>1, <2>3, <3>1, Saved DEF WebInv, Web!Refuse
  <2> QED
    BY <1>1, <2>2, <2>3 DEF Web!Refuse
<1>2. ASSUME NEW i \in Ids, Web!Login(i) PROVE WebInv'
  <2> DEFINE all == issued \cup {i}
             f == Web!Unexpired(webSessions)
  <2>1. Settled(f, creds, issued, ended, unsaved)
    BY ExpiredForgotten DEF WebInv
  <2>2. \A j \in DOMAIN f : f[j] = webSessions[j]
    BY DEF Web!Unexpired, Web!Only
  <2>3. /\ DOMAIN webSessions' = {i} \cup DOMAIN f /\ i \notin DOMAIN f
        /\ webSessions'[i].creds = creds
        /\ \A j \in DOMAIN f : webSessions'[j] = f[j]
    BY <1>2, <2>1, <2>2 DEF Web!Login, Settled
  <2>4. Settled(webSessions', creds, all, ended, unsaved)
    BY <1>2, <2>1, <2>3 DEF Settled, WebInv, Web!Login
  <2>5. Settled(stored, creds, all, ended, unsaved \cup (DOMAIN stored \ DOMAIN webSessions'))
    BY DEF WebInv, Settled
  <2>6. /\ Settled(webSessions', creds, all, ended, unsaved')
        /\ Settled(stored', creds, all, ended, unsaved')
    BY <1>2, <2>4, <2>5, Saved DEF Web!Login
  <2> QED
    BY <1>2, <2>6 DEF WebInv, Web!Login
<1>3. ASSUME NEW i \in Ids, Web!Logout(i) PROVE WebInv'
  <2> DEFINE out == ended \cup {i}
  <2>1. Settled(Web!AfterValidate(i), creds, issued, ended, unsaved)
    BY Validated
  <2>2. webSessions' = Web!Only(Web!AfterValidate(i), Ids \ {i})
    BY <1>3 DEF Web!Logout
  <2>3. i \notin DOMAIN webSessions'
    BY <2>2 DEF Web!Only
  <2>4. Settled(webSessions', creds, issued, ended, unsaved)
    BY <2>1, <2>2, Forgotten
  <2>5. Settled(webSessions', creds, issued, out, unsaved)
    BY <2>3, <2>4 DEF Settled
  <2>6. Settled(stored, creds, issued, out, unsaved \cup (DOMAIN stored \ DOMAIN webSessions'))
    BY <2>3 DEF WebInv, Settled
  <2>7. /\ Settled(webSessions', creds, issued, out, unsaved')
        /\ Settled(stored', creds, issued, out, unsaved')
    BY <1>3, <2>5, <2>6, Saved DEF Web!Logout
  <2>8. i \in issued
    BY <1>3 DEF Web!Logout, Web!Valid, Web!Unexpired, Web!Only, WebInv, Settled
  <2> QED
    BY <1>3, <2>7, <2>8 DEF WebInv, Web!Logout
<1>4. ASSUME Web!SaveCreds PROVE WebInv'
  BY <1>4 DEF Web!SaveCreds, WebInv, Settled
<1>5. ASSUME Web!Invalidate PROVE WebInv'
  <2>1. Settled(Web!Empty, creds, issued, ended, unsaved)
    BY DEF Web!Empty, Settled
  <2>2. Settled(stored, creds, issued, ended, unsaved \cup (DOMAIN stored \ DOMAIN Web!Empty))
    BY DEF WebInv, Settled
  <2> QED
    BY <1>5, <2>1, <2>2, Saved DEF Web!Invalidate, WebInv
<1>6. ASSUME Web!Restart PROVE WebInv'
  BY <1>6, ExpiredForgotten DEF Web!Restart, WebInv
<1>7. ASSUME \/ Web!LoginRefused \/ Web!LoginFails \/ Web!IssueToken \/ Web!UseToken
             \/ \E k \in Web!Kinds : Web!Lifecycle(k)
             \/ Web!ShutdownRejected \/ Web!Tick
      PROVE  WebInv'
  BY <1>7 DEF Web!LoginRefused, Web!LoginFails, Web!IssueToken, Web!UseToken, Web!Lifecycle,
              Web!ShutdownRejected, Web!Tick, WebInv
<1> QED
  BY <1>1, <1>2, <1>3, <1>4, <1>5, <1>6, <1>7 DEF Web!Next

(* A settled session that ended is not accepted.                           *)
LEMMA WebEnded == WebInv => Web!EndedStaysEnded
BY DEF WebInv, Settled, Web!EndedStaysEnded, Web!Valid, Web!Unexpired, Web!Only
-----------------------------------------------------------------------------
(* Requests of the web interfaces. *)

(* What the handlers check, and the change itself. *)
CheckNames ==
    {"accepted", "address", "basic", "configured", "cookie", "csrf", "do", "exists",
     "fields", "idle", "inside", "managed", "mime", "object", "origin", "parse",
     "rate", "readable", "setupOrigin", "size", "steamshineUi", "token", "type",
     "typed", "unconfigured", "upstreamUi", "visible"}

(* No check of s is the change itself. *)
Quiet(s) == s \in Seq(CheckNames) /\ \A i \in 1..Len(s) : s[i] # "do"

(* The checks of P come before the change in c. *)
Opens(P, c) ==
    /\ c \in Seq(CheckNames)
    /\ \E n \in 0..Len(c) :
          /\ \A i \in 1..n : c[i] # "do"
          /\ \A p \in P : \E i \in 1..n : c[i] = p

(* What the upstream interface asks first.                                 *)
Passwords == {"address", "basic", "csrf"}
(* What the other interface asks first.                                    *)
Cookies == {"steamshineUi", "origin", "address", "cookie", "token"}

(* What the handler h of these checks must have asked before it changes    *)
(* anything.                                                               *)
SoundChecks(h, c) ==
    /\ c \in Seq(CheckNames)
    /\ \/ Quiet(c) \/ Opens(Passwords, c) \/ Opens(Cookies, c) \/ Opens({"unconfigured"}, c)
       \/ h \in {"getCSRFToken", "uploadCover", "login"}
    /\ h \in {"activateGpuProfile", "deckyAction", "storageAction"} => Opens({"managed"}, c)
    /\ h \in {"quit", "restart2", "shutdownHost"} => Opens({"idle"}, c)

(* Every handler of a table asks what it must.                             *)
SoundTable(routes) == \A h \in DOMAIN routes : SoundChecks(h, routes[h])

(* More checks after the ones that were asked change nothing.              *)
LEMMA OpensMore ==
    ASSUME NEW P, NEW s, NEW t \in Seq(CheckNames), Opens(P, s)
    PROVE  Opens(P, s \o t)
<1>1. PICK n \in 0..Len(s) :
          /\ \A i \in 1..n : s[i] # "do"
          /\ \A p \in P : \E i \in 1..n : s[i] = p
  BY DEF Opens
<1>2. /\ s \o t \in Seq(CheckNames) /\ Len(s \o t) = Len(s) + Len(t)
      /\ \A i \in 1..Len(s) : (s \o t)[i] = s[i]
  BY ConcatProperties DEF Opens
<1>3. n \in 0..Len(s \o t) /\ \A i \in 1..n : (s \o t)[i] = s[i]
  BY <1>2 DEF Opens
<1> QED
  BY <1>1, <1>2, <1>3 DEF Opens

(* Other checks before them do not either, if they change nothing          *)
(* themselves.                                                             *)
LEMMA OpensLater ==
    ASSUME NEW P, NEW s, NEW t, Quiet(s), Opens(P, t)
    PROVE  Opens(P, s \o t)
<1>1. PICK n \in 0..Len(t) :
          /\ \A i \in 1..n : t[i] # "do"
          /\ \A p \in P : \E i \in 1..n : t[i] = p
  BY DEF Opens
<1> DEFINE c == s \o t  m == Len(s) + n
<1>2. /\ c \in Seq(CheckNames) /\ Len(c) = Len(s) + Len(t)
      /\ \A i \in 1..Len(s) : c[i] = s[i]
      /\ \A i \in 1..Len(t) : c[Len(s) + i] = t[i]
  BY ConcatProperties DEF Opens, Quiet
<1>3. Len(s) \in Nat /\ Len(t) \in Nat /\ m \in 0..Len(c)
  BY <1>2 DEF Opens, Quiet
<1> HIDE DEF c
<1>4. ASSUME NEW i \in 1..m PROVE c[i] # "do"
  <2>1. CASE i <= Len(s)
    BY <1>2, <1>3, <2>1 DEF Quiet
  <2>2. CASE i > Len(s)
    <3>1. i - Len(s) \in 1..n /\ i - Len(s) \in 1..Len(t)
      BY <1>3, <2>2
    <3>2. c[Len(s) + (i - Len(s))] = t[i - Len(s)] /\ Len(s) + (i - Len(s)) = i
      BY <1>2, <1>3, <3>1
    <3> QED
      BY <1>1, <3>1, <3>2
  <2> QED
    BY <1>3, <2>1, <2>2
<1>5. ASSUME NEW p \in P PROVE \E i \in 1..m : c[i] = p
  <2>1. PICK i \in 1..n : t[i] = p
    BY <1>1
  <2>2. Len(s) + i \in 1..m /\ c[Len(s) + i] = p
    BY <1>2, <1>3, <2>1
  <2> QED
    BY <2>2
<1> QED
  BY <1>2, <1>3, <1>4, <1>5 DEF Opens, c

(* Two parts that change nothing change nothing.                           *)
LEMMA QuietBoth ==
    ASSUME NEW s, NEW t, Quiet(s), Quiet(t)
    PROVE  Quiet(s \o t)
<1>1. /\ s \o t \in Seq(CheckNames) /\ Len(s \o t) = Len(s) + Len(t)
      /\ \A i \in 1..Len(s) : (s \o t)[i] = s[i]
      /\ \A i \in 1..Len(t) : (s \o t)[Len(s) + i] = t[i]
  BY ConcatProperties DEF Quiet
<1>2. Len(s) \in Nat /\ Len(t) \in Nat
  BY DEF Quiet
<1>3. ASSUME NEW i \in 1..Len(s \o t) PROVE (s \o t)[i] # "do"
  <2>1. CASE i <= Len(s)
    BY <1>1, <1>2, <2>1 DEF Quiet
  <2>2. CASE i > Len(s)
    <3>1. i - Len(s) \in 1..Len(t) /\ Len(s) + (i - Len(s)) = i
      BY <1>1, <1>2, <2>2
    <3> QED
      BY <1>1, <3>1 DEF Quiet
  <2> QED
    BY <1>1, <1>2, <2>1, <2>2
<1> QED
  BY <1>1, <1>3 DEF Quiet

(* The ways in which a handler of either interface begins. *)
LEMMA Beginnings ==
    /\ Quiet(Api!Auth) /\ Quiet(Api!Session) /\ Quiet(Api!Guarded)
    /\ Quiet(Api!Mutation) /\ Quiet(Api!Json)
    /\ Opens(Passwords, Api!Guarded) /\ Opens(Cookies, Api!Mutation)
<1>1. Quiet(Api!Auth) /\ Quiet(Api!Session) /\ Quiet(Api!Mutation) /\ Quiet(Api!Json)
  BY DEF CheckNames, Quiet, Api!Auth, Api!Session, Api!Mutation, Api!Json
<1>2. Quiet(<<"csrf">>)
  BY DEF Quiet, CheckNames
<1>3. Quiet(Api!Guarded)
  BY <1>1, <1>2, QuietBoth DEF Api!Guarded
<1>4. Opens(Cookies, Api!Mutation)
  <2> DEFINE m == <<"steamshineUi", "origin", "address", "cookie", "token">>
  <2>1. m \in Seq(CheckNames) /\ Len(m) = 5 /\ m[1] = "steamshineUi" /\ m[2] = "origin"
        /\ m[3] = "address" /\ m[4] = "cookie" /\ m[5] = "token"
    BY DEF CheckNames
  <2> HIDE DEF m
  <2>2. \A p \in Cookies : \E i \in 1..5 : m[i] = p
    BY <2>1 DEF Cookies
  <2>3. \A i \in 1..5 : m[i] # "do"
    BY <1>1, <2>1 DEF Quiet, Api!Mutation, m
  <2>4. Opens(Cookies, m)
    BY <2>1, <2>2, <2>3 DEF Opens
  <2> QED
    BY <2>4 DEF Api!Mutation, m
<1>5. Opens(Passwords, Api!Guarded)
  <2> DEFINE g == Api!Guarded
  <2>3. g \in Seq(CheckNames) /\ Len(g) = 4 /\ g[1] = "address" /\ g[3] = "basic" /\ g[4] = "csrf"
    BY DEF CheckNames, Api!Guarded, Api!Auth
  <2> HIDE DEF g
  <2>4. \A p \in Passwords : \E i \in 1..4 : g[i] = p
    BY <2>3 DEF Passwords
  <2>5. \A i \in 1..4 : g[i] # "do"
    BY <1>3, <2>3 DEF Quiet, g
  <2>6. Opens(Passwords, g)
    BY <2>3, <2>4, <2>5 DEF Opens
  <2> QED
    BY <2>6 DEF g
<1> QED
  BY <1>1, <1>3, <1>4, <1>5

(* A handler of the upstream interface that begins with the usual checks.  *)
LEMMA OpenedByPassword ==
    ASSUME NEW t \in Seq(CheckNames)
    PROVE  /\ Opens(Passwords, Api!Guarded \o t)
           /\ Opens(Passwords, <<"type">> \o Api!Guarded \o t)
<1>1. Quiet(<<"type">>)
  BY DEF Quiet, CheckNames
<1>2. Opens(Passwords, <<"type">> \o Api!Guarded)
  BY <1>1, Beginnings, OpensLater
<1> QED
  BY <1>2, Beginnings, OpensMore

(* One of the other interface.                                             *)
LEMMA OpenedByCookie ==
    ASSUME NEW t \in Seq(CheckNames)
    PROVE  /\ Opens(Cookies, Api!Mutation \o t)
           /\ Opens(Cookies, Api!Mutation \o Api!Json \o t)
           /\ Opens(Cookies, Api!Mutation \o <<"rate">> \o Api!Json \o t)
           /\ Quiet(Api!Mutation \o Api!Json)
<1>1. <<"rate">> \in Seq(CheckNames) /\ Api!Json \in Seq(CheckNames)
  BY DEF CheckNames, Api!Json
<1>2. Opens(Cookies, Api!Mutation \o Api!Json) /\ Opens(Cookies, Api!Mutation \o <<"rate">>)
  BY <1>1, Beginnings, OpensMore
<1>3. Opens(Cookies, Api!Mutation \o <<"rate">> \o Api!Json)
  BY <1>1, <1>2, OpensMore
<1> QED
  BY <1>2, <1>3, Beginnings, OpensMore, QuietBoth

(* What a handler asks after the usual checks of its interface. *)
LEMMA AskedLast ==
    /\ Opens({"managed"}, <<"managed", "accepted", "do">>)
    /\ Opens({"managed"}, <<"typed", "fields", "managed", "accepted", "do">>)
    /\ Opens({"managed"}, <<"fields", "managed", "accepted", "do">>)
    /\ Opens({"idle"}, <<"idle", "do">>)
    /\ Opens({"idle"}, <<"exists", "idle", "do">>)
<1>1. Opens({"managed"}, <<"managed", "accepted", "do">>)
  <2> DEFINE t == <<"managed", "accepted", "do">>
  <2>1. t \in Seq(CheckNames) /\ Len(t) = 3 /\ t[1] = "managed"
    BY DEF CheckNames
  <2> QED
    BY <2>1 DEF Opens
<1>2. Opens({"managed"}, <<"typed", "fields", "managed", "accepted", "do">>)
  <2> DEFINE t == <<"typed", "fields", "managed", "accepted", "do">>
  <2>1. t \in Seq(CheckNames) /\ Len(t) = 5 /\ t[1] = "typed" /\ t[2] = "fields" /\ t[3] = "managed"
    BY DEF CheckNames
  <2> HIDE DEF t
  <2>2. /\ 3 \in 0..Len(t) /\ \A i \in 1..3 : t[i] # "do"
        /\ \A p \in {"managed"} : \E i \in 1..3 : t[i] = p
    BY <2>1
  <2>3. Opens({"managed"}, t)
    BY <2>1, <2>2 DEF Opens
  <2> QED
    BY <2>3 DEF t
<1>3. Opens({"managed"}, <<"fields", "managed", "accepted", "do">>)
  <2> DEFINE t == <<"fields", "managed", "accepted", "do">>
  <2>1. t \in Seq(CheckNames) /\ Len(t) = 4 /\ t[1] = "fields" /\ t[2] = "managed"
    BY DEF CheckNames
  <2> HIDE DEF t
  <2>2. /\ 2 \in 0..Len(t) /\ \A i \in 1..2 : t[i] # "do"
        /\ \A p \in {"managed"} : \E i \in 1..2 : t[i] = p
    BY <2>1
  <2>3. Opens({"managed"}, t)
    BY <2>1, <2>2 DEF Opens
  <2> QED
    BY <2>3 DEF t
<1>4. Opens({"idle"}, <<"idle", "do">>)
  <2> DEFINE t == <<"idle", "do">>
  <2>1. t \in Seq(CheckNames) /\ Len(t) = 2 /\ t[1] = "idle"
    BY DEF CheckNames
  <2> QED
    BY <2>1 DEF Opens
<1>5. Opens({"idle"}, <<"exists", "idle", "do">>)
  <2> DEFINE t == <<"exists", "idle", "do">>
  <2>1. t \in Seq(CheckNames) /\ Len(t) = 3 /\ t[1] = "exists" /\ t[2] = "idle"
    BY DEF CheckNames
  <2> HIDE DEF t
  <2>2. /\ 2 \in 0..Len(t) /\ \A i \in 1..2 : t[i] # "do"
        /\ \A p \in {"idle"} : \E i \in 1..2 : t[i] = p
    BY <2>1
  <2>3. Opens({"idle"}, t)
    BY <2>1, <2>2 DEF Opens
  <2> QED
    BY <2>3 DEF t
<1> QED
  BY <1>1, <1>2, <1>3, <1>4, <1>5

(* A handler that changes nothing, one that asks for the password, one     *)
(* that asks for the cookie: neither runs a helper nor ends the process.   *)
LEMMA PlainHandler ==
    ASSUME NEW h, NEW c,
           Quiet(c) \/ Opens(Passwords, c) \/ Opens(Cookies, c),
           h \notin {"activateGpuProfile", "deckyAction", "storageAction",
                     "quit", "restart2", "shutdownHost"}
    PROVE  SoundChecks(h, c)
BY DEF SoundChecks, Quiet, Opens

(* What the handlers ask after that, with the change at the end. *)
Rests ==
    {<<"do">>, <<"parse">>, <<"exists">>, <<"parse", "do">>, <<"fields", "do">>, <<"typed", "do">>,
     <<"accepted", "do">>, <<"parse", "fields", "do">>, <<"fields", "accepted", "do">>,
     <<"typed", "accepted", "do">>, <<"exists", "readable", "do">>, <<"exists", "readable">>,
     <<"fields", "exists", "readable">>, <<"parse", "fields", "accepted", "do">>,
     <<"csrf", "parse", "accepted", "do">>}

(* These are sequences of checks.                                          *)
LEMMA RestsAreChecks == Rests \subseteq Seq(CheckNames)
BY DEF Rests, CheckNames

(* Requests that change nothing. *)
LEMMA Reading ==
    /\ Quiet(<<>>) /\ Quiet(<<"exists">>) /\ Quiet(<<"parse">>) /\ Quiet(<<"steamshineUi">>)
    /\ Quiet(<<"upstreamUi">>) /\ Quiet(<<"exists", "readable">>)
    /\ Quiet(<<"fields", "exists", "readable">>)
    /\ Quiet(<<"upstreamUi", "visible">>) /\ Quiet(<<"upstreamUi", "unconfigured">>)
    /\ Quiet(<<"inside", "exists", "mime">>) /\ Quiet(<<"steamshineUi", "exists", "mime">>)
BY DEF Quiet, CheckNames

(* Neither runs a helper nor ends the process. *)
OrdinaryHandler(h) ==
    h \notin {"activateGpuProfile", "deckyAction", "storageAction",
              "quit", "restart2", "shutdownHost"}

(* What the usual beginnings of the upstream interface are worth.          *)
LEMMA ByPassword ==
    ASSUME NEW t \in Rests, NEW h, OrdinaryHandler(h)
    PROVE  /\ SoundChecks(h, Api!Guarded \o t)
           /\ SoundChecks(h, <<"type">> \o Api!Guarded \o t)
BY RestsAreChecks, OpenedByPassword, PlainHandler DEF OrdinaryHandler

(* What those of the other interface are worth.                            *)
LEMMA ByCookie ==
    ASSUME NEW t \in Rests, NEW h, OrdinaryHandler(h)
    PROVE  /\ SoundChecks(h, Api!Mutation \o t)
           /\ SoundChecks(h, Api!Mutation \o Api!Json \o t)
           /\ SoundChecks(h, Api!Mutation \o <<"rate">> \o Api!Json \o t)
BY RestsAreChecks, OpenedByCookie, PlainHandler DEF OrdinaryHandler

(* A handler that only reads needs none of them.                           *)
LEMMA ByReading ==
    ASSUME NEW h, OrdinaryHandler(h)
    PROVE  /\ SoundChecks(h, Api!Auth) /\ SoundChecks(h, Api!Session)
           /\ SoundChecks(h, <<>>) /\ SoundChecks(h, <<"exists">>)
           /\ SoundChecks(h, <<"upstreamUi">>) /\ SoundChecks(h, <<"steamshineUi">>)
           /\ SoundChecks(h, <<"upstreamUi">> \o Api!Auth)
           /\ SoundChecks(h, <<"upstreamUi", "visible">> \o Api!Auth)
           /\ SoundChecks(h, <<"upstreamUi", "unconfigured">>)
           /\ SoundChecks(h, <<"inside", "exists", "mime">>)
           /\ SoundChecks(h, <<"steamshineUi", "exists", "mime">>)
           /\ SoundChecks(h, Api!Auth \o <<"parse">>) /\ SoundChecks(h, Api!Auth \o <<"exists">>)
           /\ SoundChecks(h, Api!Auth \o <<"fields", "exists", "readable">>)
           /\ SoundChecks(h, Api!Session \o <<"parse">>)
           /\ SoundChecks(h, Api!Session \o <<"exists", "readable">>)
<1>1. /\ Quiet(<<"upstreamUi">> \o Api!Auth) /\ Quiet(<<"upstreamUi", "visible">> \o Api!Auth)
      /\ Quiet(Api!Auth \o <<"parse">>) /\ Quiet(Api!Auth \o <<"exists">>)
      /\ Quiet(Api!Auth \o <<"fields", "exists", "readable">>)
      /\ Quiet(Api!Session \o <<"parse">>) /\ Quiet(Api!Session \o <<"exists", "readable">>)
  BY Reading, Beginnings, QuietBoth
<1> QED
  BY <1>1, Reading, Beginnings, PlainHandler DEF OrdinaryHandler

(* The upstream interface, table by table.                                 *)
LEMMA UpstreamSound == \A routes \in Api!Upstream : SoundTable(routes)
<1>1. SoundTable(Api!Pages)
  <2>8. /\ SoundChecks("sunshine", Api!Pages["sunshine"])
        /\ SoundChecks("page", Api!Pages["page"])
        /\ SoundChecks("logout", Api!Pages["logout"])
        /\ SoundChecks("welcome", Api!Pages["welcome"])
    BY ByReading DEF OrdinaryHandler, Api!Pages
  <2>9. DOMAIN Api!Pages = {"sunshine", "page", "logout", "welcome"}
    BY DEF Api!Pages
  <2> QED
    BY <2>8, <2>9 DEF SoundTable
<1>2. SoundTable(Api!Assets)
  <2>8. /\ SoundChecks("image", Api!Assets["image"])
        /\ SoundChecks("getAsset", Api!Assets["getAsset"])
        /\ SoundChecks("getSteamshinePage", Api!Assets["getSteamshinePage"])
        /\ SoundChecks("getSteamshineAsset", Api!Assets["getSteamshineAsset"])
    BY ByReading DEF OrdinaryHandler, Api!Assets
  <2>9. DOMAIN Api!Assets = {"image", "getAsset", "getSteamshinePage",
          "getSteamshineAsset"}
    BY DEF Api!Assets
  <2> QED
    BY <2>8, <2>9 DEF SoundTable
<1>3. SoundTable(Api!TokenAndApps)
  <2>1. Api!Auth \o <<"do">> \in Seq(CheckNames)
    BY DEF Api!Auth, CheckNames
  <2>2. SoundChecks("getCSRFToken", Api!Auth \o <<"do">>)
    BY <2>1 DEF SoundChecks
  <2>8. /\ SoundChecks("getCSRFToken", Api!TokenAndApps["getCSRFToken"])
        /\ SoundChecks("getApps", Api!TokenAndApps["getApps"])
    BY <2>2, ByReading DEF OrdinaryHandler, Api!TokenAndApps
  <2>9. DOMAIN Api!TokenAndApps = {"getCSRFToken", "getApps"}
    BY DEF Api!TokenAndApps
  <2> QED
    BY <2>8, <2>9 DEF SoundTable
<1>4. SoundTable(Api!Applications)
  <2>8. /\ SoundChecks("saveApp", Api!Applications["saveApp"])
        /\ SoundChecks("closeApp", Api!Applications["closeApp"])
        /\ SoundChecks("deleteApp", Api!Applications["deleteApp"])
    BY ByPassword DEF Rests, OrdinaryHandler, Api!Applications
  <2>9. DOMAIN Api!Applications = {"saveApp", "closeApp", "deleteApp"}
    BY DEF Api!Applications
  <2> QED
    BY <2>8, <2>9 DEF SoundTable
<1>5. SoundTable(Api!PairedClients)
  <2>8. /\ SoundChecks("getClients", Api!PairedClients["getClients"])
        /\ SoundChecks("updateClient", Api!PairedClients["updateClient"])
        /\ SoundChecks("unpair", Api!PairedClients["unpair"])
        /\ SoundChecks("unpairAll", Api!PairedClients["unpairAll"])
    BY ByPassword, ByReading
    DEF Rests, OrdinaryHandler, Api!PairedClients
  <2>9. DOMAIN Api!PairedClients = {"getClients", "updateClient", "unpair", "unpairAll"}
    BY DEF Api!PairedClients
  <2> QED
    BY <2>8, <2>9 DEF SoundTable
<1>6. SoundTable(Api!Configuration)
  <2>8. /\ SoundChecks("getConfig", Api!Configuration["getConfig"])
        /\ SoundChecks("getLocale", Api!Configuration["getLocale"])
        /\ SoundChecks("saveConfig", Api!Configuration["saveConfig"])
    BY ByPassword, ByReading
    DEF Rests, OrdinaryHandler, Api!Configuration
  <2>9. DOMAIN Api!Configuration = {"getConfig", "getLocale", "saveConfig"}
    BY DEF Api!Configuration
  <2> QED
    BY <2>8, <2>9 DEF SoundTable
<1>7. SoundTable(Api!CoversAndLogs)
  <2>1. <<"type">> \o Api!Auth \o <<"parse", "fields", "accepted", "do">> \in Seq(CheckNames)
    BY DEF Api!Auth, CheckNames
  <2>2. SoundChecks("uploadCover", <<"type">> \o Api!Auth \o <<"parse", "fields", "accepted", "do">>)
    BY <2>1 DEF SoundChecks
  <2>8. /\ SoundChecks("getCover", Api!CoversAndLogs["getCover"])
        /\ SoundChecks("uploadCover", Api!CoversAndLogs["uploadCover"])
        /\ SoundChecks("getLogs", Api!CoversAndLogs["getLogs"])
    BY <2>2, ByReading DEF OrdinaryHandler, Api!CoversAndLogs
  <2>9. DOMAIN Api!CoversAndLogs = {"getCover", "uploadCover", "getLogs"}
    BY DEF Api!CoversAndLogs
  <2> QED
    BY <2>8, <2>9 DEF SoundTable
<1>8. SoundTable(Api!Pairings)
  <2>8. /\ SoundChecks("getPendingPairings", Api!Pairings["getPendingPairings"])
        /\ SoundChecks("cancelPairing", Api!Pairings["cancelPairing"])
        /\ SoundChecks("savePin", Api!Pairings["savePin"])
    BY ByPassword, ByReading
    DEF Rests, OrdinaryHandler, Api!Pairings
  <2>9. DOMAIN Api!Pairings = {"getPendingPairings", "cancelPairing", "savePin"}
    BY DEF Api!Pairings
  <2> QED
    BY <2>8, <2>9 DEF SoundTable
<1>9. SoundTable(Api!Resets)
  <2>8. /\ SoundChecks("resetDisplayDevicePersistence", Api!Resets["resetDisplayDevicePersistence"])
        /\ SoundChecks("resetPortalToken", Api!Resets["resetPortalToken"])
        /\ SoundChecks("restart", Api!Resets["restart"])
    BY ByPassword DEF Rests, OrdinaryHandler, Api!Resets
  <2>9. DOMAIN Api!Resets = {"resetDisplayDevicePersistence", "resetPortalToken",
          "restart"}
    BY DEF Api!Resets
  <2> QED
    BY <2>8, <2>9 DEF SoundTable
<1>10. SoundTable(Api!Licenses)
  <2>8. /\ SoundChecks("getVirtualInputStatus", Api!Licenses["getVirtualInputStatus"])
        /\ SoundChecks("getVirtualInputLicense", Api!Licenses["getVirtualInputLicense"])
        /\ SoundChecks("updateVirtualInputLicense", Api!Licenses["updateVirtualInputLicense"])
    BY ByPassword, ByReading
    DEF Rests, OrdinaryHandler, Api!Licenses
  <2>9. DOMAIN Api!Licenses = {"getVirtualInputStatus", "getVirtualInputLicense",
          "updateVirtualInputLicense"}
    BY DEF Api!Licenses
  <2> QED
    BY <2>8, <2>9 DEF SoundTable
<1>11. SoundTable(Api!Browsing)
  <2>8. /\ SoundChecks("browseDirectory", Api!Browsing["browseDirectory"])
    BY ByReading DEF OrdinaryHandler, Api!Browsing
  <2>9. DOMAIN Api!Browsing = {"browseDirectory"}
    BY DEF Api!Browsing
  <2> QED
    BY <2>8, <2>9 DEF SoundTable
<1>12. SoundTable([unknown |-> <<"exists">>])
  BY ByReading DEF SoundTable, OrdinaryHandler
<1> QED
  BY <1>1, <1>2, <1>3, <1>4, <1>5, <1>6, <1>7, <1>8, <1>9, <1>10, <1>11, <1>12
  DEF Api!Upstream

(* What is asked before the process ends, or a helper is run. *)
IdleAsked == {<<"idle", "do">>, <<"exists", "idle", "do">>}
(* What is asked before a helper is run.                                   *)
ManagedAsked ==
    {<<"managed", "accepted", "do">>, <<"typed", "fields", "managed", "accepted", "do">>,
     <<"fields", "managed", "accepted", "do">>}

(* The other interface, table by table.                                    *)
LEMMA SteamshineSound == \A routes \in Api!Steamshine : SoundTable(routes)
<1>1. SoundTable(Api!Management)
  <2>8. /\ SoundChecks("managementStatus", Api!Management["managementStatus"])
        /\ SoundChecks("authorizeManagement", Api!Management["authorizeManagement"])
    BY ByCookie, ByReading
    DEF Rests, OrdinaryHandler, Api!Management
  <2>9. DOMAIN Api!Management = {"managementStatus", "authorizeManagement"}
    BY DEF Api!Management
  <2> QED
    BY <2>8, <2>9 DEF SoundTable
<1>2. SoundTable(Api!Setup)
  <2> DEFINE c == <<"steamshineUi", "setupOrigin", "unconfigured">> \o Api!Json
                  \o <<"typed", "accepted", "do">>
             s == <<"steamshineUi", "setupOrigin", "unconfigured">>
  <2>1. s \in Seq(CheckNames) /\ Len(s) = 3 /\ s[1] # "do" /\ s[2] # "do" /\ s[3] = "unconfigured"
    BY DEF CheckNames
  <2> HIDE DEF s
  <2>2. /\ 3 \in 0..Len(s) /\ \A i \in 1..3 : s[i] # "do"
        /\ \A p \in {"unconfigured"} : \E i \in 1..3 : s[i] = p
    BY <2>1
  <2>3. Opens({"unconfigured"}, s)
    BY <2>1, <2>2 DEF Opens
  <2>4. Api!Json \in Seq(CheckNames) /\ <<"typed", "accepted", "do">> \in Seq(CheckNames)
    BY Beginnings, RestsAreChecks DEF Quiet, Rests
  <2>5. Opens({"unconfigured"}, s \o Api!Json \o <<"typed", "accepted", "do">>)
    BY <2>3, <2>4, OpensMore
  <2>6. SoundChecks("setupCredentials", c)
    BY <2>5 DEF SoundChecks, s, Opens
  <2>8. /\ SoundChecks("setupStatus", Api!Setup["setupStatus"])
        /\ SoundChecks("setupCredentials", Api!Setup["setupCredentials"])
    BY <2>6, ByReading DEF OrdinaryHandler, Api!Setup
  <2>9. DOMAIN Api!Setup = {"setupStatus", "setupCredentials"}
    BY DEF Api!Setup
  <2> QED
    BY <2>8, <2>9 DEF SoundTable
<1>3. SoundTable(Api!Logins)
  <2>1. <<"steamshineUi", "origin", "rate">> \o Api!Json \o <<"typed", "accepted", "do">>
          \in Seq(CheckNames)
    BY DEF Api!Json, CheckNames
  <2>2. SoundChecks("login", <<"steamshineUi", "origin", "rate">> \o Api!Json
                               \o <<"typed", "accepted", "do">>)
    BY <2>1 DEF SoundChecks
  <2>8. /\ SoundChecks("login", Api!Logins["login"])
        /\ SoundChecks("logout2", Api!Logins["logout2"])
    BY <2>2, ByCookie DEF Rests, OrdinaryHandler, Api!Logins
  <2>9. DOMAIN Api!Logins = {"login", "logout2"}
    BY DEF Api!Logins
  <2> QED
    BY <2>8, <2>9 DEF SoundTable
<1>4. SoundTable(Api!Lifecycle)
  <2>0. \A t \in IdleAsked : Opens({"idle"}, t)
    BY AskedLast DEF IdleAsked
  <2>1. \A t \in IdleAsked : t \in Seq(CheckNames) /\ Opens({"idle"}, t)
    BY <2>0 DEF Opens
  <2>2. \A t \in IdleAsked : /\ Opens(Cookies, Api!Mutation \o t)
                        /\ Opens({"idle"}, Api!Mutation \o t)
    BY <2>1, OpenedByCookie, OpensLater, Beginnings
  <2>3. \A h \in {"quit", "restart2", "shutdownHost"} : \A t \in IdleAsked : SoundChecks(h, Api!Mutation \o t)
    BY <2>2 DEF SoundChecks, Opens
  <2>8. /\ SoundChecks("quit", Api!Lifecycle["quit"])
        /\ SoundChecks("restart2", Api!Lifecycle["restart2"])
    BY <2>3 DEF IdleAsked, Api!Lifecycle
  <2>9. DOMAIN Api!Lifecycle = {"quit", "restart2"}
    BY DEF Api!Lifecycle
  <2> QED
    BY <2>8, <2>9 DEF SoundTable
<1>5. SoundTable(Api!Shutdown)
  <2>0. \A t \in IdleAsked : Opens({"idle"}, t)
    BY AskedLast DEF IdleAsked
  <2>1. \A t \in IdleAsked : t \in Seq(CheckNames) /\ Opens({"idle"}, t)
    BY <2>0 DEF Opens
  <2>2. \A t \in IdleAsked : /\ Opens(Cookies, Api!Mutation \o t)
                        /\ Opens({"idle"}, Api!Mutation \o t)
    BY <2>1, OpenedByCookie, OpensLater, Beginnings
  <2>3. \A h \in {"quit", "restart2", "shutdownHost"} : \A t \in IdleAsked : SoundChecks(h, Api!Mutation \o t)
    BY <2>2 DEF SoundChecks, Opens
  <2>8. /\ SoundChecks("shutdownHost", Api!Shutdown["shutdownHost"])
        /\ SoundChecks("shutdownStatus", Api!Shutdown["shutdownStatus"])
    BY <2>3, ByReading
    DEF IdleAsked, OrdinaryHandler, Api!Shutdown
  <2>9. DOMAIN Api!Shutdown = {"shutdownHost", "shutdownStatus"}
    BY DEF Api!Shutdown
  <2> QED
    BY <2>8, <2>9 DEF SoundTable
<1>6. SoundTable(Api!Updates)
  <2>8. /\ SoundChecks("updateRelease", Api!Updates["updateRelease"])
        /\ SoundChecks("updateStatus", Api!Updates["updateStatus"])
    BY ByCookie, ByReading
    DEF Rests, OrdinaryHandler, Api!Updates
  <2>9. DOMAIN Api!Updates = {"updateRelease", "updateStatus"}
    BY DEF Api!Updates
  <2> QED
    BY <2>8, <2>9 DEF SoundTable
<1>7. SoundTable(Api!Profiles)
  <2>8. /\ SoundChecks("session", Api!Profiles["session"])
        /\ SoundChecks("status", Api!Profiles["status"])
        /\ SoundChecks("streamProfiles", Api!Profiles["streamProfiles"])
        /\ SoundChecks("saveStreamProfile", Api!Profiles["saveStreamProfile"])
        /\ SoundChecks("resetStreamProfile", Api!Profiles["resetStreamProfile"])
        /\ SoundChecks("systemMetrics", Api!Profiles["systemMetrics"])
    BY ByCookie, ByReading
    DEF Rests, OrdinaryHandler, Api!Profiles
  <2>9. DOMAIN Api!Profiles = {"session", "status", "streamProfiles",
          "saveStreamProfile", "resetStreamProfile", "systemMetrics"}
    BY DEF Api!Profiles
  <2> QED
    BY <2>8, <2>9 DEF SoundTable
<1>8. SoundTable(Api!Games)
  <2>8. /\ SoundChecks("getApps2", Api!Games["getApps2"])
        /\ SoundChecks("saveApp2", Api!Games["saveApp2"])
        /\ SoundChecks("deleteApp2", Api!Games["deleteApp2"])
        /\ SoundChecks("closeApp2", Api!Games["closeApp2"])
    BY ByCookie, ByReading
    DEF Rests, OrdinaryHandler, Api!Games
  <2>9. DOMAIN Api!Games = {"getApps2", "saveApp2", "deleteApp2", "closeApp2"}
    BY DEF Api!Games
  <2> QED
    BY <2>8, <2>9 DEF SoundTable
<1>9. SoundTable(Api!GpuProfiles)
  <2>0. \A t \in ManagedAsked : Opens({"managed"}, t)
    BY AskedLast DEF ManagedAsked
  <2>1. \A t \in ManagedAsked : t \in Seq(CheckNames) /\ Opens({"managed"}, t)
    BY <2>0 DEF Opens
  <2>2. \A t \in ManagedAsked : /\ Opens(Cookies, Api!Mutation \o t)
                        /\ Opens({"managed"}, Api!Mutation \o t)
    BY <2>1, OpenedByCookie, OpensLater, Beginnings
  <2>3. \A h \in {"activateGpuProfile", "deckyAction", "storageAction"} : \A t \in ManagedAsked : SoundChecks(h, Api!Mutation \o t)
    BY <2>2 DEF SoundChecks, Opens
  <2>8. /\ SoundChecks("gpuCapabilities", Api!GpuProfiles["gpuCapabilities"])
        /\ SoundChecks("gpuProfiles", Api!GpuProfiles["gpuProfiles"])
        /\ SoundChecks("saveGpuProfile", Api!GpuProfiles["saveGpuProfile"])
        /\ SoundChecks("deleteGpuProfile", Api!GpuProfiles["deleteGpuProfile"])
        /\ SoundChecks("activateGpuProfile", Api!GpuProfiles["activateGpuProfile"])
    BY <2>3, ByCookie, ByReading
    DEF Rests, ManagedAsked, OrdinaryHandler, Api!GpuProfiles
  <2>9. DOMAIN Api!GpuProfiles = {"gpuCapabilities", "gpuProfiles", "saveGpuProfile",
          "deleteGpuProfile", "activateGpuProfile"}
    BY DEF Api!GpuProfiles
  <2> QED
    BY <2>8, <2>9 DEF SoundTable
<1>10. SoundTable(Api!Shortcuts)
  <2>8. /\ SoundChecks("shortcuts", Api!Shortcuts["shortcuts"])
        /\ SoundChecks("saveShortcut", Api!Shortcuts["saveShortcut"])
        /\ SoundChecks("deleteShortcut", Api!Shortcuts["deleteShortcut"])
    BY ByCookie, ByReading
    DEF Rests, OrdinaryHandler, Api!Shortcuts
  <2>9. DOMAIN Api!Shortcuts = {"shortcuts", "saveShortcut", "deleteShortcut"}
    BY DEF Api!Shortcuts
  <2> QED
    BY <2>8, <2>9 DEF SoundTable
<1>11. SoundTable(Api!Turbo)
  <2>8. /\ SoundChecks("turbo", Api!Turbo["turbo"])
        /\ SoundChecks("saveTurbo", Api!Turbo["saveTurbo"])
        /\ SoundChecks("x52", Api!Turbo["x52"])
        /\ SoundChecks("saveX52", Api!Turbo["saveX52"])
    BY ByCookie, ByReading
    DEF Rests, OrdinaryHandler, Api!Turbo
  <2>9. DOMAIN Api!Turbo = {"turbo", "saveTurbo", "x52", "saveX52"}
    BY DEF Api!Turbo
  <2> QED
    BY <2>8, <2>9 DEF SoundTable
<1>12. SoundTable(Api!Addons)
  <2>0. \A t \in ManagedAsked : Opens({"managed"}, t)
    BY AskedLast DEF ManagedAsked
  <2>1. \A t \in ManagedAsked : t \in Seq(CheckNames) /\ Opens({"managed"}, t)
    BY <2>0 DEF Opens
  <2>2. \A t \in ManagedAsked : /\ Opens(Cookies, Api!Mutation \o Api!Json \o t)
                        /\ Opens({"managed"}, Api!Mutation \o Api!Json \o t)
    BY <2>1, OpenedByCookie, OpensLater, Beginnings
  <2>3. \A h \in {"activateGpuProfile", "deckyAction", "storageAction"} : \A t \in ManagedAsked : SoundChecks(h, Api!Mutation \o Api!Json \o t)
    BY <2>2 DEF SoundChecks, Opens
  <2>8. /\ SoundChecks("decky", Api!Addons["decky"])
        /\ SoundChecks("deckyAction", Api!Addons["deckyAction"])
        /\ SoundChecks("storage", Api!Addons["storage"])
        /\ SoundChecks("storageAction", Api!Addons["storageAction"])
    BY <2>3, ByReading
    DEF ManagedAsked, OrdinaryHandler, Api!Addons
  <2>9. DOMAIN Api!Addons = {"decky", "deckyAction", "storage", "storageAction"}
    BY DEF Api!Addons
  <2> QED
    BY <2>8, <2>9 DEF SoundTable
<1>13. SoundTable(Api!Recordings)
  <2>8. /\ SoundChecks("steamCache", Api!Recordings["steamCache"])
        /\ SoundChecks("configureSteamCache", Api!Recordings["configureSteamCache"])
        /\ SoundChecks("recordings", Api!Recordings["recordings"])
        /\ SoundChecks("toggleRecording", Api!Recordings["toggleRecording"])
        /\ SoundChecks("recordingSettings", Api!Recordings["recordingSettings"])
        /\ SoundChecks("deleteRecording", Api!Recordings["deleteRecording"])
        /\ SoundChecks("recordingMedia", Api!Recordings["recordingMedia"])
    BY ByCookie, ByReading
    DEF Rests, OrdinaryHandler, Api!Recordings
  <2>9. DOMAIN Api!Recordings = {"steamCache", "configureSteamCache", "recordings",
          "toggleRecording", "recordingSettings", "deleteRecording", "recordingMedia"}
    BY DEF Api!Recordings
  <2> QED
    BY <2>8, <2>9 DEF SoundTable
<1>14. SoundTable(Api!Terminals)
  <2>8. /\ SoundChecks("terminalStatus", Api!Terminals["terminalStatus"])
        /\ SoundChecks("terminalStart", Api!Terminals["terminalStart"])
        /\ SoundChecks("terminalStop", Api!Terminals["terminalStop"])
    BY ByCookie, ByReading
    DEF Rests, OrdinaryHandler, Api!Terminals
  <2>9. DOMAIN Api!Terminals = {"terminalStatus", "terminalStart", "terminalStop"}
    BY DEF Api!Terminals
  <2> QED
    BY <2>8, <2>9 DEF SoundTable
<1>15. SoundTable(Api!Settings)
  <2>8. /\ SoundChecks("getConfig2", Api!Settings["getConfig2"])
        /\ SoundChecks("saveConfig2", Api!Settings["saveConfig2"])
        /\ SoundChecks("virtualDisplay", Api!Settings["virtualDisplay"])
        /\ SoundChecks("gamescopeSources", Api!Settings["gamescopeSources"])
        /\ SoundChecks("saveVirtualDisplay", Api!Settings["saveVirtualDisplay"])
    BY ByCookie, ByReading
    DEF Rests, OrdinaryHandler, Api!Settings
  <2>9. DOMAIN Api!Settings = {"getConfig2", "saveConfig2", "virtualDisplay",
          "gamescopeSources", "saveVirtualDisplay"}
    BY DEF Api!Settings
  <2> QED
    BY <2>8, <2>9 DEF SoundTable
<1>16. SoundTable(Api!PairingsAndLogs)
  <2>8. /\ SoundChecks("pendingPairings", Api!PairingsAndLogs["pendingPairings"])
        /\ SoundChecks("pairingPin", Api!PairingsAndLogs["pairingPin"])
        /\ SoundChecks("clients", Api!PairingsAndLogs["clients"])
        /\ SoundChecks("revokeClient", Api!PairingsAndLogs["revokeClient"])
        /\ SoundChecks("recentLogs", Api!PairingsAndLogs["recentLogs"])
        /\ SoundChecks("diagnostics", Api!PairingsAndLogs["diagnostics"])
        /\ SoundChecks("resetDiagnostics", Api!PairingsAndLogs["resetDiagnostics"])
    BY ByCookie, ByReading
    DEF Rests, OrdinaryHandler, Api!PairingsAndLogs
  <2>9. DOMAIN Api!PairingsAndLogs = {"pendingPairings", "pairingPin", "clients",
          "revokeClient", "recentLogs", "diagnostics", "resetDiagnostics"}
    BY DEF Api!PairingsAndLogs
  <2> QED
    BY <2>8, <2>9 DEF SoundTable
<1> QED
  BY <1>1, <1>2, <1>3, <1>4, <1>5, <1>6, <1>7, <1>8, <1>9, <1>10, <1>11, <1>12, <1>13, <1>14, <1>15, <1>16
  DEF Api!Steamshine

(* The two handlers whose checks depend on what is configured.             *)
LEMMA OthersSound ==
    SoundChecks("root", Api!RootChecks) /\ SoundChecks("savePassword", Api!PasswordChecks)
<1>1. SoundChecks("root", Api!RootChecks)
  <2>1. Quiet(<<"upstreamUi">> \o Api!Auth) /\ Quiet(<<>>)
    BY Reading, Beginnings, QuietBoth
  <2> QED
    BY <2>1, PlainHandler DEF Api!RootChecks
<1>2. SoundChecks("savePassword", Api!PasswordChecks)
  <2> DEFINE c == Api!PasswordChecks
  <2>1. CASE configured
    <3>1. /\ c \in Seq(CheckNames) /\ Len(c) = 8 /\ c[1] = "type" /\ c[2] = "address"
          /\ c[3] = "configured" /\ c[4] = "basic" /\ c[5] = "csrf"
      BY <2>1 DEF CheckNames, Api!PasswordChecks, Api!Auth
    <3> HIDE DEF c
    <3>2. /\ 5 \in 0..Len(c) /\ \A i \in 1..5 : c[i] # "do"
          /\ \A p \in Passwords : \E i \in 1..5 : c[i] = p
      BY <3>1 DEF Passwords
    <3>3. Opens(Passwords, c)
      BY <3>1, <3>2 DEF Opens
    <3> QED
      BY <3>3, PlainHandler DEF c
  <2>2. CASE ~configured
    <3>1. /\ c \in Seq(CheckNames) /\ Len(c) = 6
          /\ c[1] = "type" /\ c[2] = "unconfigured"
      BY <2>2 DEF CheckNames, Api!PasswordChecks
    <3> HIDE DEF c
    <3>2. /\ 2 \in 0..Len(c) /\ \A i \in 1..2 : c[i] # "do"
          /\ \A p \in {"unconfigured"} : \E i \in 1..2 : c[i] = p
      BY <3>1
    <3>3. Opens({"unconfigured"}, c)
      BY <3>1, <3>2 DEF Opens
    <3> QED
      BY <3>3 DEF SoundChecks, Opens, c
  <2> QED
    BY <2>1, <2>2
<1> QED
  BY <1>1, <1>2
(* Quit, restart and shutdown are asked one at a time: a thread that is to *)
(* run one of them holds the flag, and a host shutdown that the page       *)
(* reports as pending has its thread.  Of the last request it is known     *)
(* what its handler had asked when it changed something.                   *)
ApiInv ==
    /\ lifecycleWorkers = {} \/ \E k \in {"quit", "restart", "shutdown", "release"} : lifecycleWorkers = {k}
    /\ lifecycleWorkers # {} => lifecyclePending
    /\ hostShutdown = "pending" => "shutdown" \in lifecycleWorkers
    /\ Api!ChangesAreGuarded

(* Nothing is under way at first.                                          *)
LEMMA ApiStarts == Api!Init => ApiInv
BY DEF Api!Init, Api!NoRequest, ApiInv, Api!ChangesAreGuarded

(* Once a handler changes something it has passed all that its table puts  *)
(* before the change.                                                      *)
LEMMA PassedFirst ==
    ASSUME NEW P, NEW c, Opens(P, c), NEW stop \in 1..(Len(c) + 1),
           "do" \in {c[i] : i \in 1..(stop - 1)}
    PROVE  P \subseteq {c[i] : i \in 1..(stop - 1)}
<1>1. PICK n \in 0..Len(c) :
          /\ \A i \in 1..n : c[i] # "do"
          /\ \A p \in P : \E i \in 1..n : c[i] = p
  BY DEF Opens
<1>2. PICK k \in 1..(stop - 1) : c[k] = "do"
  OBVIOUS
<1>3. Len(c) \in Nat
  BY DEF Opens
<1>4. n < k
  BY <1>1, <1>2, <1>3
<1>5. \A i \in 1..n : i \in 1..(stop - 1)
  BY <1>2, <1>3, <1>4
<1> QED
  BY <1>1, <1>5

(* A request that is served keeps the invariant: one that claims the flag  *)
(* found it free.                                                          *)
LEMMA Served ==
    ASSUME ApiInv, NEW h, NEW c, SoundChecks(h, c), Api!Serve(h, c)
    PROVE  ApiInv'
<1>1. PICK stop \in 1..(Len(c) + 1) :
        /\ \A i \in 1..(stop - 1) : Api!MayPass(c[i])
        /\ LET passed == {c[i] : i \in 1..(stop - 1)}
               answers == IF stop <= Len(c) THEN Api!Refusals(c[stop]) ELSE Api!Answers(h) IN
           /\ webRequest' = IF "do" \in passed \/ answers # 1
                      THEN [handler |-> h, passed |-> passed, answers |-> answers]
                      ELSE Api!NoRequest
           /\ IF "do" \in passed THEN Api!Changes(h)
              ELSE UNCHANGED <<configured, managed, lifecyclePending, lifecycleWorkers, hostShutdown, updateStatus,
                               webProcess, saidQuit>>
  BY DEF Api!Serve
<1> DEFINE passed == {c[i] : i \in 1..(stop - 1)}
<1>2. CASE "do" \notin passed
  <2>1. "do" \notin webRequest'.passed
    BY <1>1, <1>2 DEF Api!NoRequest
  <2> QED
    BY <1>1, <1>2, <2>1 DEF ApiInv, Api!ChangesAreGuarded
<1>3. CASE "do" \in passed
  <2>1. webRequest'.handler = h /\ webRequest'.passed = passed
    BY <1>1, <1>3
  <2>2. Api!Changes(h)
    BY <1>1, <1>3
  <2>3. ~Quiet(c)
    <3>1. PICK k \in 1..(stop - 1) : c[k] = "do"
      BY <1>3
    <3>2. Len(c) \in Nat
      BY DEF SoundChecks
    <3> QED
      BY <3>1, <3>2 DEF Quiet
  <2>4. \A P : Opens(P, c) => P \subseteq passed
    BY <1>3, PassedFirst
  <2>5. /\ \/ Passwords \subseteq passed \/ Cookies \subseteq passed
           \/ {"unconfigured"} \subseteq passed
           \/ h \in {"getCSRFToken", "uploadCover", "login"}
        /\ h \in {"activateGpuProfile", "deckyAction", "storageAction"} => "managed" \in passed
        /\ h \in {"quit", "restart2", "shutdownHost"} => "idle" \in passed
    BY <2>3, <2>4 DEF SoundChecks
  <2>6. Api!ChangesAreGuarded'
    BY <2>1, <2>5 DEF Api!ChangesAreGuarded, Passwords, Cookies
  <2>7. h \in {"quit", "restart2", "shutdownHost"} => ~lifecyclePending
    <3>1. Api!MayPass("idle") => ~lifecyclePending
      BY DEF Api!MayPass, Api!Decided
    <3> QED
      BY <1>1, <2>5, <3>1
  <2>8. CASE h \in {"quit", "restart2", "shutdownHost"}
    <3>1. lifecycleWorkers = {} /\ hostShutdown # "pending"
      BY <2>7, <2>8 DEF ApiInv
    <3>2. CASE h = "quit"
      BY <2>2, <2>6, <3>1, <3>2 DEF Api!Changes, Api!Claim, ApiInv
    <3>3. CASE h = "restart2"
      BY <2>2, <2>6, <3>1, <3>3 DEF Api!Changes, Api!Claim, ApiInv
    <3>4. CASE h = "shutdownHost"
      BY <2>2, <2>6, <3>1, <3>4 DEF Api!Changes, Api!Claim, ApiInv
    <3> QED
      BY <2>8, <3>2, <3>3, <3>4
  <2>9. CASE h \notin {"quit", "restart2", "shutdownHost"}
    BY <2>2, <2>6, <2>9 DEF Api!Changes, ApiInv
  <2> QED
    BY <2>8, <2>9
<1> QED
  BY <1>2, <1>3

(* Every request, every thread it starts and every end of the process keep *)
(* the invariant.                                                          *)
LEMMA ApiKept ==
    ASSUME ApiInv, [Api!Next]_apiVars
    PROVE  ApiInv'
<1> SUFFICES ASSUME Api!Next PROVE ApiInv'
  BY DEF ApiInv, Api!ChangesAreGuarded, apiVars
<1>1. ASSUME Api!Request PROVE ApiInv'
  <2>1. \E h : \E c : SoundChecks(h, c) /\ Api!Serve(h, c)
    BY <1>1, UpstreamSound, SteamshineSound, OthersSound DEF Api!Request, SoundTable
  <2> QED
    BY <2>1, Served
<1>2. ASSUME Api!TakeNext PROVE ApiInv'
  BY <1>2 DEF Api!TakeNext, Api!NoRequest, ApiInv, Api!ChangesAreGuarded
<1>3. ASSUME NEW k \in {"quit", "restart"}, Api!QuitOrRestart(k) PROVE ApiInv'
  BY <1>3 DEF Api!QuitOrRestart, ApiInv, Api!ChangesAreGuarded
<1>4. ASSUME NEW a \in BOOLEAN, Api!HostAnswers(a) PROVE ApiInv'
  BY <1>4 DEF Api!HostAnswers, ApiInv, Api!ChangesAreGuarded
<1>5. ASSUME Api!ReleaseFlag PROVE ApiInv'
  BY <1>5 DEF Api!ReleaseFlag, ApiInv, Api!ChangesAreGuarded
<1>6. ASSUME Api!UpdateRuns \/ Api!ManagementEnds PROVE ApiInv'
  BY <1>6 DEF Api!UpdateRuns, Api!ManagementEnds, ApiInv, Api!ChangesAreGuarded
<1>7. ASSUME Api!ProcessEnds PROVE ApiInv'
  BY <1>7 DEF Api!ProcessEnds, Api!NoRequest, ApiInv, Api!ChangesAreGuarded
<1> QED
  BY <1>1, <1>2, <1>3, <1>4, <1>5, <1>6, <1>7 DEF Api!Next

(* One thread at most has the flag.                                        *)
LEMMA OneAtATime == ApiInv => Api!OneLifecycleAction
BY DEF ApiInv, Api!OneLifecycleAction

(* The places at which two versions differ, up to the end of the longer.   *)
LEMMA NewerThanNewer ==
    ASSUME NEW v \in Seq(Nat), NEW w \in Seq(Nat), NEW m \in Seq(Nat),
           Api!IsSupported(v, m), ~Api!Development(v), Api!IsSupported(w, v)
    PROVE  Api!IsSupported(w, m)
<1> DEFINE Longer(a, b) == IF Len(a) > Len(b) THEN Len(a) ELSE Len(b)
           Differ(a, b) == {i \in 1..Longer(a, b) : Api!Part(a, i) # Api!Part(b, i)}
<1>1. /\ Len(v) \in Nat /\ Len(w) \in Nat /\ Len(m) \in Nat
      /\ \A i \in Nat \ {0} : Api!Part(v, i) \in Nat /\ Api!Part(w, i) \in Nat /\ Api!Part(m, i) \in Nat
  BY DEF Api!Part
<1>2. \A i \in Nat \ {0} : /\ i > Len(v) => Api!Part(v, i) = 0
                           /\ i > Len(w) => Api!Part(w, i) = 0
                           /\ i > Len(m) => Api!Part(m, i) = 0
  BY <1>1 DEF Api!Part
<1> SUFFICES ASSUME ~Api!Development(w),
                    NEW i \in Differ(w, m), \A j \in Differ(w, m) : i <= j
             PROVE  Api!Part(w, i) > Api!Part(m, i)
  BY DEF Api!IsSupported
<1>3. \A a \in Differ(v, m) : (\A j \in Differ(v, m) : a <= j) => Api!Part(v, a) > Api!Part(m, a)
  BY DEF Api!IsSupported
<1>4. \A a \in Differ(w, v) : (\A j \in Differ(w, v) : a <= j) => Api!Part(w, a) > Api!Part(v, a)
  BY DEF Api!IsSupported
<1>5. \A j \in Nat \ {0} : /\ Api!Part(v, j) # Api!Part(m, j) <=> j \in Differ(v, m)
                           /\ Api!Part(w, j) # Api!Part(v, j) <=> j \in Differ(w, v)
                           /\ Api!Part(w, j) # Api!Part(m, j) <=> j \in Differ(w, m)
  <2> TAKE j \in Nat \ {0}
  <2>1. /\ j \notin 1..Longer(v, m) => Api!Part(v, j) = 0 /\ Api!Part(m, j) = 0
        /\ j \notin 1..Longer(w, v) => Api!Part(w, j) = 0 /\ Api!Part(v, j) = 0
        /\ j \notin 1..Longer(w, m) => Api!Part(w, j) = 0 /\ Api!Part(m, j) = 0
    <3>1. /\ j \notin 1..Longer(v, m) => j > Len(v) /\ j > Len(m)
          /\ j \notin 1..Longer(w, v) => j > Len(w) /\ j > Len(v)
          /\ j \notin 1..Longer(w, m) => j > Len(w) /\ j > Len(m)
      <4>1. ASSUME NEW a \in Seq(Nat), NEW b \in Seq(Nat), j \notin 1..Longer(a, b)
            PROVE  j > Len(a) /\ j > Len(b)
        <5>1. Len(a) \in Nat /\ Len(b) \in Nat
          OBVIOUS
        <5>2. CASE Len(a) > Len(b)
          BY <4>1, <5>1, <5>2
        <5>3. CASE ~(Len(a) > Len(b))
          BY <4>1, <5>1, <5>3
        <5> QED
          BY <5>2, <5>3
      <4> QED
        BY <4>1
    <3> QED
      BY <1>2, <3>1
  <2> HIDE DEF Longer
  <2> QED
    BY <2>1
<1>6. Differ(v, m) \subseteq Nat \ {0} /\ Differ(w, v) \subseteq Nat \ {0} /\ i \in Nat \ {0}
  BY <1>1
<1> HIDE DEF Differ
<1> DEFINE Change == Differ(v, m) \cup Differ(w, v)
<1>7. i \in Change
  BY <1>5, <1>6
<1>8. PICK a \in Change : \A j \in Change : a <= j
  BY <1>6, <1>7, LeastNatural
<1>9. a \in Nat \ {0} /\ a <= i
  BY <1>6, <1>7, <1>8
<1>10. /\ a \in Differ(v, m) => Api!Part(v, a) > Api!Part(m, a)
       /\ a \in Differ(w, v) => Api!Part(w, a) > Api!Part(v, a)
  BY <1>3, <1>4, <1>8
<1>11. Api!Part(w, a) > Api!Part(m, a)
  <2>1. /\ a \notin Differ(v, m) => Api!Part(v, a) = Api!Part(m, a)
        /\ a \notin Differ(w, v) => Api!Part(w, a) = Api!Part(v, a)
    BY <1>5, <1>9
  <2>2. Api!Part(v, a) \in Nat /\ Api!Part(w, a) \in Nat /\ Api!Part(m, a) \in Nat
    BY <1>1, <1>9
  <2> QED
    BY <1>8, <1>10, <2>1, <2>2
<1>12. a \in Differ(w, m)
  <2>1. Api!Part(w, a) # Api!Part(m, a)
    BY <1>1, <1>9, <1>11
  <2> QED
    BY <1>5, <1>9, <2>1
<1>13. a = i
  BY <1>6, <1>9, <1>12
<1> QED
  BY <1>11, <1>13

(* The driver versions of the run are sequences of numbers.                *)
LEMMA VersionsOrdered == Api!NewerIsSupported
<1>1. DriverVersions \subseteq Seq(Nat)
  BY DEF DriverVersions
<1> QED
  BY <1>1, NewerThanNewer DEF Api!NewerIsSupported

(* Whatever the requests, the passwords, the failing saves and restarts: a *)
(* web session that ended is not valid again, a request that changed       *)
(* something had been checked, and one of quit, restart and shutdown is    *)
(* under way at most.                                                      *)
THEOREM WebGuarded == SuiteSpec => []WebIsGuarded
<1>1. Start => WebInv /\ ApiInv
  BY WebStarts, ApiStarts DEF Start
<1>2. WebInv /\ ApiInv /\ [Steps]_allVars => (WebInv /\ ApiInv)'
  <2> SUFFICES ASSUME WebInv, ApiInv, [Steps]_allVars PROVE WebInv' /\ ApiInv'
    OBVIOUS
  <2>1. [Web!Next]_webVars /\ [Api!Next]_apiVars
    BY ComponentSteps
  <2> QED
    BY <2>1, WebKept, ApiKept
<1>3. WebInv /\ ApiInv => WebIsGuarded
  <2> SUFFICES ASSUME WebInv, ApiInv PROVE WebIsGuarded
    OBVIOUS
  <2>1. Web!EndedStaysEnded
    BY WebEnded
  <2>2. Api!OneLifecycleAction /\ Api!ChangesAreGuarded
    BY OneAtATime DEF ApiInv
  <2> QED
    BY <2>1, <2>2, VersionsOrdered DEF WebIsGuarded
<1> QED
  BY <1>1, <1>2, <1>3, PTL DEF SuiteSpec
-----------------------------------------------------------------------------
(* What the settings pages save. *)
ProfileRecord == [active : BOOLEAN, learned : SettingValues \cup {0}, there : BOOLEAN]

(* A client has one active profile at most, and it is a stored one. *)
SoundProfiles(f) ==
    /\ f \in [Players \X Networks -> ProfileRecord]
    /\ \A p \in Players \X Networks : f[p].active => f[p].there
    /\ \A p, q \in Players \X Networks :
          p[1] = q[1] /\ f[p].active /\ f[q].active => p = q

(* The file, what runs and what was acknowledged agree on the settings     *)
(* that have an API of their own; the profile file is as sound as the      *)
(* profiles in memory.                                                     *)
SettingsInv ==
    /\ DOMAIN file = OwnedKeys \cup PlainKeys
    /\ DOMAIN live = OwnedKeys /\ DOMAIN acked = OwnedKeys
    /\ \A k \in OwnedKeys : file[k] = acked[k] /\ live[k] = acked[k]
    /\ SoundProfiles(profiles) /\ SoundProfiles(kept)

(* At first there is nothing to agree on.                                  *)
LEMMA SettingsStart == Settings!Init => SettingsInv
BY DEF Settings!Init, Settings!Keys, Settings!ProfileKeys, Settings!Absent, SettingsInv,
   SoundProfiles, ProfileRecord

(* Sound profiles that are stored are sound in memory and in the file.     *)
LEMMA ProfileKept ==
    ASSUME SettingsInv, NEW new, Settings!Kept(new), SoundProfiles(new)
    PROVE  SettingsInv'
BY DEF SettingsInv, Settings!Kept

(* Every save of a page, an API or a profile, every crash and start keep   *)
(* the invariant.                                                          *)
LEMMA SettingsKept ==
    ASSUME SettingsInv, [Settings!Next]_settingsVars
    PROVE  SettingsInv'
<1> USE SettingsAssumption DEF Settings!Keys, Settings!ProfileKeys, Settings!OthersKept
<1>0. CASE UNCHANGED settingsVars
  BY <1>0 DEF SettingsInv, settingsVars
<1>1. ASSUME Settings!LoadPage PROVE SettingsInv'
  BY <1>1 DEF Settings!LoadPage, SettingsInv
<1>2. ASSUME Settings!SaveConfig PROVE SettingsInv'
  BY <1>2 DEF Settings!SaveConfig, SettingsInv
<1>3. ASSUME Settings!SaveCurated PROVE SettingsInv'
  BY <1>3 DEF Settings!SaveCurated, SettingsInv
<1>4. ASSUME Settings!CrashInWrite PROVE SettingsInv'
  BY <1>4 DEF Settings!CrashInWrite, SettingsInv
<1>5. ASSUME Settings!Restart PROVE SettingsInv'
  BY <1>5 DEF Settings!Restart, SettingsInv
<1>6. ASSUME NEW k \in OwnedKeys, NEW v \in SettingValues, Settings!WriteOwned(k, v)
      PROVE  SettingsInv'
  BY <1>6 DEF Settings!WriteOwned, SettingsInv
<1>7. ASSUME NEW n \in {1, 2}, Settings!SaveApp(n) PROVE SettingsInv'
  BY <1>7 DEF Settings!SaveApp, Settings!Written, SettingsInv
<1>8. ASSUME Settings!DeleteApp PROVE SettingsInv'
  BY <1>8 DEF Settings!DeleteApp, Settings!Written, SettingsInv
<1>9. ASSUME NEW p \in Players \X Networks, NEW a \in BOOLEAN, NEW v \in SettingValues,
             Settings!SaveProfile(p, a, v)
      PROVE  SettingsInv'
  <2> DEFINE saved == [active |-> a, learned |-> v, there |-> TRUE]
             new == [q \in Players \X Networks |->
                       IF q = p THEN saved
                       ELSE IF a /\ q[1] = p[1]
                       THEN [profiles[q] EXCEPT !.active = FALSE] ELSE profiles[q]]
  <2>1. SoundProfiles(profiles)
    BY DEF SettingsInv
  <2>2. saved \in ProfileRecord
    BY DEF ProfileRecord
  <2>3. \A r \in ProfileRecord : /\ [r EXCEPT !.active = FALSE] \in ProfileRecord
                                 /\ ~[r EXCEPT !.active = FALSE].active
                                 /\ [r EXCEPT !.active = FALSE].there = r.there
    BY DEF ProfileRecord
  <2>4. new \in [Players \X Networks -> ProfileRecord]
    BY <2>1, <2>2, <2>3 DEF SoundProfiles
  <2>5. \A q \in Players \X Networks :
           /\ q # p /\ new[q].active => profiles[q].active /\ ~(a /\ q[1] = p[1])
           /\ q # p => new[q].there = profiles[q].there
    BY <2>1, <2>3 DEF SoundProfiles
  <2>6. new[p] = saved
    OBVIOUS
  <2> HIDE DEF new
  <2>7. SoundProfiles(new)
    BY <2>1, <2>4, <2>5, <2>6 DEF SoundProfiles
  <2>8. Settings!Kept(new)
    BY <1>9 DEF Settings!SaveProfile, new
  <2> QED
    BY <2>7, <2>8, ProfileKept
<1>10. ASSUME NEW p \in Players \X Networks, Settings!ResetProfile(p) PROVE SettingsInv'
  <2> DEFINE new == [profiles EXCEPT ![p] = Settings!Absent]
  <2>1. SoundProfiles(new)
    BY DEF SettingsInv, SoundProfiles, ProfileRecord, Settings!Absent
  <2> QED
    BY <1>10, <2>1, ProfileKept DEF Settings!ResetProfile
<1>11. ASSUME NEW p \in Players \X Networks, NEW v \in SettingValues, Settings!UpdateLearned(p, v)
       PROVE  SettingsInv'
  <2> DEFINE new == [profiles EXCEPT ![p].learned = v]
  <2>1. SoundProfiles(profiles)
    BY DEF SettingsInv
  <2>2. \A r \in ProfileRecord : /\ [r EXCEPT !.learned = v] \in ProfileRecord
                                 /\ [r EXCEPT !.learned = v].active = r.active
                                 /\ [r EXCEPT !.learned = v].there = r.there
    BY DEF ProfileRecord
  <2>3. \A q \in Players \X Networks :
           /\ new[q] \in ProfileRecord
           /\ new[q].active = profiles[q].active /\ new[q].there = profiles[q].there
    BY <2>1, <2>2 DEF SoundProfiles
  <2>4. new \in [Players \X Networks -> ProfileRecord]
    BY <2>1, <2>3 DEF SoundProfiles
  <2> HIDE DEF new
  <2>5. SoundProfiles(new)
    BY <2>1, <2>3, <2>4 DEF SoundProfiles
  <2>6. Settings!Kept(new)
    BY <1>11 DEF Settings!UpdateLearned, new
  <2> QED
    BY <2>5, <2>6, ProfileKept
<1>12. ASSUME NEW c \in Players, Settings!EnsureRegistered(c) PROVE SettingsInv'
  <2> DEFINE first == [active |-> TRUE, learned |-> 0, there |-> TRUE]
             new == [profiles EXCEPT ![<<c, HomeNetwork>>] = first]
  <2>1. SoundProfiles(profiles)
    BY DEF SettingsInv
  <2>2. \A p \in Players \X Networks : p[1] = c => ~profiles[p].active
    BY <1>12, <2>1 DEF Settings!EnsureRegistered, Settings!Stored, SoundProfiles
  <2>3. first \in ProfileRecord
    BY DEF ProfileRecord
  <2>4. \A q \in Players \X Networks :
           new[q] = profiles[q] \/ (q[1] = c /\ q = <<c, HomeNetwork>> /\ new[q] = first)
    BY <2>1 DEF SoundProfiles
  <2>5. new \in [Players \X Networks -> ProfileRecord]
    BY <2>1, <2>3, <2>4 DEF SoundProfiles
  <2> HIDE DEF new
  <2>6. SoundProfiles(new)
    BY <2>1, <2>2, <2>4, <2>5 DEF SoundProfiles
  <2>7. Settings!Kept(new)
    BY <1>12 DEF Settings!EnsureRegistered, new
  <2> QED
    BY <2>6, <2>7, ProfileKept
<1>13. ASSUME NEW n, Settings!ActivateProfile(n) PROVE SettingsInv'
  BY <1>13 DEF Settings!ActivateProfile, Settings!storeVars, SettingsInv
<1>14. ASSUME Settings!Authorize PROVE SettingsInv'
  BY <1>14 DEF Settings!Authorize
<1> QED
  BY <1>0, <1>1, <1>2, <1>3, <1>4, <1>5, <1>6, <1>7, <1>8, <1>9, <1>10, <1>11, <1>12, <1>13,
     <1>14 DEF Settings!Next

-----------------------------------------------------------------------------
(* The performance profiles. *)

(* A card whose power limits are known, and what a profile asks of it.     *)
FullCaps == [authorized |-> TRUE, power |-> TRUE, od |-> card.od]
(* What the hardware holds once this was written to a fresh card.          *)
WantedBy(t) ==
    Performance!Wrote(Performance!Defaults, Performance!Arguments(t, FullCaps), 4)
(* The same for a profile by its name, as it is stored now.                *)
Wanted(name) == WantedBy(Performance!Resolved(name, FullCaps))

(* The fields of the hardware, with a power limit the card allows.         *)
FieldsInRange(f) == DOMAIN f = 1..4 /\ f[1] \in LowestPower..HighestPower

(* The power limit is one the card allows; what is selected is what was    *)
(* acknowledged; an acknowledged profile that had the power limits known   *)
(* and was not edited since is still the one that wrote the fields; and a  *)
(* start that put it back wrote them again.                                *)
PowerInv ==
    /\ FieldsInRange(gpuFields)
    /\ DOMAIN gpuCaps = {"authorized", "power", "od"} /\ gpuCaps.od = card.od
    /\ DOMAIN gpuLibrary = CustomProfiles
    /\ told = [name |-> told.name, wants |-> told.wants, full |-> told.full]
    /\ gpuChosen = told.name
    /\ told.full => /\ told.name \in Performance!Builtins \cup CustomProfiles
                    /\ told.wants = Wanted(told.name)
    /\ restored /\ told.full => gpuFields = told.wants

(* The hardware starts with its defaults.                                  *)
LEMMA PowerStarts == Performance!Init => PowerInv
BY PowerAssumption DEF Performance!Init, Performance!Detected, Performance!Defaults,
   Performance!Nothing, PowerInv, FieldsInRange

(* Two readings that know the power limits ask for the same. *)
LEMMA SameArguments ==
    ASSUME NEW c, c.power, c.od = card.od
    PROVE  /\ \A t : Performance!Arguments(t, c) = Performance!Arguments(t, FullCaps)
           /\ \A n : Performance!Resolved(n, c) = Performance!Resolved(n, FullCaps)
<1>1. c.power /\ FullCaps.power /\ FullCaps.od = c.od
  BY DEF FullCaps
<1> HIDE DEF FullCaps
<1>2. \A t : Performance!Arguments(t, c) = Performance!Arguments(t, FullCaps)
  BY <1>1 DEF Performance!Arguments
<1>3. \A n : Performance!Resolved(n, c) = Performance!Resolved(n, FullCaps)
  BY <1>1 DEF Performance!Resolved, Performance!Builtin
<1> QED
  BY <1>2, <1>3

(* However far the helper gets, the power limit is one the card allows;    *)
(* an answer that is good means that every field was written.              *)
LEMMA FieldsApplied ==
    ASSUME NEW f, FieldsInRange(f), NEW t, NEW c, NEW o \in Performance!Outcomes(f, t, c)
    PROVE  /\ FieldsInRange(o.hw)
           /\ o.ok /\ c.power => o.hw = Performance!Wrote(f, Performance!Arguments(t, c), 4)
<1> DEFINE args == Performance!Arguments(t, c)
           inRange == t.power \in LowestPower..HighestPower
<1>1. args[1] = IF c.power THEN t.power ELSE Performance!Skip
  BY DEF Performance!Arguments
<1> HIDE DEF args
<1>2. CASE c.power /\ ~inRange
  <2>1. o = [hw |-> f, ok |-> FALSE]
    BY <1>2 DEF Performance!Outcomes, args
  <2> QED
    BY <2>1
<1>3. CASE ~(c.power /\ ~inRange)
  <2>1. ASSUME NEW k \in 0..4 PROVE FieldsInRange(Performance!Wrote(f, args, k))
    BY <1>1, <1>3 DEF FieldsInRange, Performance!Wrote
  <2>2. \E k \in 0..4 :
          /\ o.hw = Performance!Wrote(f, args, k)
          /\ o.ok /\ c.power => k = 4
    <3>1. Performance!LastField(args) \in {0, 2, 4}
      BY DEF Performance!LastField
    <3>2. \/ \E k \in 0..Performance!LastField(args) :
               o.hw = Performance!Wrote(f, args, k) /\ (o.ok /\ c.power => FALSE)
          \/ o.hw = Performance!Wrote(f, args, 4)
      <4> DEFINE required == c.power \/ t.power > 0 \/ card.gpu \/ card.cpu
                 last == Performance!LastField(args)
                 part == {[hw |-> Performance!Wrote(f, args, k), ok |-> ~required] : k \in 0..last}
                 whole == {[hw |-> Performance!Wrote(f, args, 4), ok |-> c.power \/ t.power = 0] :
                             k \in {last} \ 0..3}
      <4>1. o \in part \cup whole
        BY <1>3 DEF Performance!Outcomes, args
      <4>2. CASE o \in part
        <5>1. PICK k \in 0..last : o = [hw |-> Performance!Wrote(f, args, k), ok |-> ~required]
          BY <4>2
        <5>2. o.hw = Performance!Wrote(f, args, k) /\ o.ok = ~required
          BY <5>1
        <5>3. o.ok /\ c.power => FALSE
          BY <5>2
        <5> QED
          BY <5>2, <5>3
      <4>3. CASE o \in whole
        BY <4>3
      <4> QED
        BY <4>1, <4>2, <4>3
    <3> QED
      BY <3>1, <3>2
  <2> QED
    BY <2>1, <2>2 DEF args
<1> QED
  BY <1>2, <1>3

(* A start writes the profile that is chosen again. *)
LEMMA Reapplied ==
    ASSUME PowerInv, NEW n, NEW fresh \in BOOLEAN, Performance!Reapply(n, fresh)
    PROVE  /\ FieldsInRange(gpuFields')
           /\ DOMAIN gpuCaps' = {"authorized", "power", "od"} /\ gpuCaps'.od = card.od
           /\ restored' => fresh /\ gpuFields' = Wanted(n)
<1> DEFINE from == IF fresh THEN Performance!Defaults ELSE gpuFields
<1>1. FieldsInRange(from)
  BY PowerAssumption DEF PowerInv, FieldsInRange, Performance!Defaults
<1> HIDE DEF from
<1>2. PICK c \in Performance!Detected(helperGranted) :
        /\ gpuCaps' = c
        /\ \/ gpuFields' = from /\ restored' = FALSE
           \/ \E o \in Performance!Outcomes(from, Performance!Resolved(n, c), c) :
                 gpuFields' = o.hw /\ restored' = (fresh /\ o.ok /\ c.power)
  BY DEF Performance!Reapply, from
<1>3. DOMAIN c = {"authorized", "power", "od"} /\ c.od = card.od
  BY <1>2 DEF Performance!Detected
<1>4. CASE gpuFields' = from /\ restored' = FALSE
  BY <1>1, <1>2, <1>3, <1>4
<1>5. CASE ~(gpuFields' = from /\ restored' = FALSE)
  <2>1. PICK o \in Performance!Outcomes(from, Performance!Resolved(n, c), c) :
          gpuFields' = o.hw /\ restored' = (fresh /\ o.ok /\ c.power)
    BY <1>2, <1>5
  <2>2. /\ FieldsInRange(o.hw)
        /\ o.ok /\ c.power =>
             o.hw = Performance!Wrote(from, Performance!Arguments(Performance!Resolved(n, c), c), 4)
    BY <1>1, <2>1, FieldsApplied
  <2>3. ASSUME restored' PROVE fresh /\ gpuFields' = Wanted(n)
    <3>1. fresh /\ o.ok /\ c.power
      BY <2>1, <2>3
    <3>2. Performance!Arguments(Performance!Resolved(n, c), c)
            = Performance!Arguments(Performance!Resolved(n, FullCaps), FullCaps)
      BY <1>3, <3>1, SameArguments
    <3> QED
      BY <2>1, <2>2, <3>1, <3>2 DEF Wanted, WantedBy, from
  <2> QED
    BY <1>2, <1>3, <2>1, <2>2, <2>3
<1> QED
  BY <1>4, <1>5

(* Every edit of a profile, every activation, crash and start keep the     *)
(* invariant.                                                              *)
LEMMA PowerKept ==
    ASSUME PowerInv, [Performance!Next]_settingsVars
    PROVE  PowerInv'
<1> USE DEF Performance!OthersKept, Performance!storeVars, Performance!gpuVars
<1>0. ASSUME UNCHANGED <<card, gpuCaps, gpuFields, gpuLibrary, gpuChosen, told, restored>>
      PROVE  PowerInv'
  BY <1>0 DEF PowerInv, FieldsInRange, Wanted, WantedBy, FullCaps, Performance!Resolved,
     Performance!Arguments
<1>1. ASSUME \/ Performance!LoadPage \/ Performance!SaveConfig \/ Performance!SaveCurated
             \/ Performance!DeleteApp \/ Performance!Authorize
             \/ \E n : Performance!SaveApp(n)
             \/ \E k, v : Performance!WriteOwned(k, v)
             \/ \E new : Performance!Kept(new)
      PROVE  PowerInv'
  BY <1>0, <1>1 DEF Performance!LoadPage, Performance!SaveConfig, Performance!SaveCurated,
     Performance!DeleteApp, Performance!Authorize, Performance!SaveApp, Performance!Written,
     Performance!WriteOwned, Performance!Kept
<1>2. ASSUME Performance!CrashInWrite PROVE PowerInv'
  <2>1. Performance!Reapply("none", FALSE) /\ UNCHANGED card
    BY <1>2 DEF Performance!CrashInWrite
  <2>2. /\ FieldsInRange(gpuFields') /\ ~restored'
        /\ DOMAIN gpuCaps' = {"authorized", "power", "od"} /\ gpuCaps'.od = card.od
    BY <2>1, Reapplied
  <2> QED
    BY <1>2, <2>2 DEF Performance!CrashInWrite, Performance!Nothing, PowerInv, FieldsInRange
<1>3. ASSUME Performance!Restart PROVE PowerInv'
  <2>1. PICK fresh \in BOOLEAN : Performance!Reapply(gpuChosen, fresh)
    BY <1>3 DEF Performance!Restart
  <2>2. /\ FieldsInRange(gpuFields') /\ (restored' => gpuFields' = Wanted(gpuChosen))
        /\ DOMAIN gpuCaps' = {"authorized", "power", "od"} /\ gpuCaps'.od = card.od
    BY <2>1, Reapplied
  <2>3. UNCHANGED <<card, gpuLibrary, gpuChosen, told>>
    BY <1>3 DEF Performance!Restart
  <2>4. \A n : Wanted(n)' = Wanted(n)
    BY <2>3 DEF Wanted, WantedBy, FullCaps, Performance!Resolved, Performance!Arguments
  <2> QED
    BY <2>2, <2>3, <2>4 DEF PowerInv, FieldsInRange
<1>4. ASSUME NEW n \in CustomProfiles, NEW new, Performance!PersistCustomProfiles(n, new)
      PROVE  PowerInv'
  <2>1. /\ gpuLibrary' = [gpuLibrary EXCEPT ![n] = new]
        /\ UNCHANGED <<card, gpuCaps, gpuFields, gpuChosen, restored>>
        /\ told' = IF told.name = n THEN [told EXCEPT !.full = FALSE] ELSE told
    BY <1>4 DEF Performance!PersistCustomProfiles
  <2>2. CASE told.name = n
    <3>1. told' = [told EXCEPT !.full = FALSE]
      BY <2>1, <2>2
    <3>2. told'.name = told.name /\ ~told'.full
          /\ told' = [name |-> told'.name, wants |-> told'.wants, full |-> told'.full]
      BY <3>1 DEF PowerInv
    <3> QED
      BY <2>1, <3>2 DEF PowerInv, FieldsInRange
  <2>3. CASE told.name # n
    <3>1. told' = told
      BY <2>1, <2>3
    <3>2. told.full => Wanted(told.name)' = Wanted(told.name)
      BY <2>1, <2>3, <3>1 DEF PowerInv, Wanted, WantedBy, FullCaps, Performance!Resolved,
         Performance!Arguments
    <3> QED
      BY <2>1, <3>1, <3>2 DEF PowerInv, FieldsInRange
  <2> QED
    BY <2>2, <2>3
<1>5. ASSUME NEW n \in CustomProfiles \cup Performance!Builtins, Performance!ActivateProfile(n)
      PROVE  PowerInv'
  <2>1. /\ UNCHANGED <<card, gpuLibrary>> /\ restored' = FALSE
        /\ gpuCaps' \in Performance!Refreshed
    BY <1>5 DEF Performance!ActivateProfile
  <2>2. DOMAIN gpuCaps' = {"authorized", "power", "od"} /\ gpuCaps'.od = card.od
    BY <2>1 DEF Performance!Refreshed, PowerInv
  <2> DEFINE t == Performance!Resolved(n, gpuCaps')
  <2>3. PICK o \in Performance!Outcomes(gpuFields, t, gpuCaps'), saved \in BOOLEAN :
          /\ gpuFields' = o.hw
          /\ IF o.ok /\ saved
             THEN /\ gpuChosen' = n
                  /\ told' = [name |-> n, full |-> gpuCaps'.power,
                              wants |-> Performance!Wrote(Performance!Defaults,
                                            Performance!Arguments(t, gpuCaps'), 4)]
             ELSE UNCHANGED <<gpuChosen, told>>
    BY <1>5 DEF Performance!ActivateProfile
  <2>4. FieldsInRange(gpuFields')
    BY <2>3, FieldsApplied DEF PowerInv
  <2>5. \A m : Wanted(m)' = Wanted(m)
    BY <2>1 DEF Wanted, WantedBy, FullCaps, Performance!Resolved, Performance!Arguments
  <2>6. CASE o.ok /\ saved
    <3>1. /\ gpuChosen' = n /\ told'.name = n /\ told'.full = gpuCaps'.power
          /\ told'.wants = Performance!Wrote(Performance!Defaults,
                              Performance!Arguments(t, gpuCaps'), 4)
          /\ told' = [name |-> told'.name, wants |-> told'.wants, full |-> told'.full]
      BY <2>3, <2>6
    <3>2. ASSUME told'.full PROVE told'.wants = Wanted(n)
      <4>1. Performance!Arguments(t, gpuCaps')
              = Performance!Arguments(Performance!Resolved(n, FullCaps), FullCaps)
        BY <2>2, <3>1, <3>2, SameArguments
      <4> QED
        BY <3>1, <4>1 DEF Wanted, WantedBy
    <3> QED
      BY <2>1, <2>2, <2>4, <2>5, <3>1, <3>2 DEF PowerInv, FieldsInRange
  <2>7. CASE ~(o.ok /\ saved)
    BY <2>1, <2>2, <2>3, <2>4, <2>5, <2>7 DEF PowerInv, FieldsInRange
  <2> QED
    BY <2>6, <2>7
<1>6. CASE Performance!Next
  BY <1>1, <1>2, <1>3, <1>4, <1>5, <1>6
  DEF Performance!Next, Performance!SaveProfile, Performance!ResetProfile,
      Performance!UpdateLearned, Performance!EnsureRegistered,
      Performance!DeleteCustomProfile, Performance!SaveCustomProfile
<1>7. CASE UNCHANGED settingsVars
  BY <1>0, <1>7 DEF settingsVars
<1> QED
  BY <1>6, <1>7

(* Whatever is saved, in which order, and whatever crash comes between:    *)
(* the settings with an API of their own are what was acknowledged, a      *)
(* client has one active profile at most, and the power limit is allowed   *)
(* and, after a start that says so, the acknowledged one.                  *)
THEOREM SettingsSurvive == SuiteSpec => []SettingsAreKept
<1> DEFINE Inv == /\ focus = "settings" => SettingsInv
                  /\ focus = "performance" => PowerInv
<1>1. Start => Inv
  BY SettingsStart, PowerStarts DEF Start
<1>2. Inv /\ [Steps]_allVars => Inv'
  <2> SUFFICES ASSUME Inv, [Steps]_allVars PROVE Inv'
    OBVIOUS
  <2>1. focus' = focus
    BY ComponentSteps
  <2>2. ASSUME focus = "settings" PROVE SettingsInv'
    <3>1. [Settings!Next]_settingsVars
      BY <2>2, ComponentSteps
    <3> QED
      BY <2>2, <3>1, SettingsKept
  <2>3. ASSUME focus = "performance" PROVE PowerInv'
    <3>1. [Performance!Next]_settingsVars
      BY <2>3, ComponentSteps
    <3> QED
      BY <2>3, <3>1, PowerKept
  <2> QED
    BY <2>1, <2>2, <2>3
<1>3. Inv => SettingsAreKept
  BY DEF SettingsAreKept, SettingsInv, SoundProfiles, PowerInv, FieldsInRange,
     Settings!OwnedSettingsKept, Settings!OneActiveProfile, Settings!ProfileKeys,
     Performance!PerformanceIsKept
<1> QED
  BY <1>1, <1>2, <1>3, PTL DEF SuiteSpec
=============================================================================
