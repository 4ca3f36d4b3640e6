----------------------- MODULE VirtualSession_proofs -----------------------
(***************************************************************************)
(* The safety properties of VirtualSession, for every set of               *)
(* configurations and of session keys, and any number of streams.          *)
(*                                                                         *)
(* Sound is the inductive invariant, stated of a manager record and of the *)
(* stock compositor.  Every manager operation is a function from such      *)
(* pairs to sets of outcomes, so the lemmas follow prepare() inside out:   *)
(* each helper keeps Sound, or establishes it from what its caller left.   *)
(***************************************************************************)
EXTENDS VirtualSession, TLAPS

(* No compositor and no lease without the process group that names it;     *)
(* nothing held at rest; a source behind every usable state.               *)
Usable == {"WaitingForCapture", "Ready", "Streaming"}

Sound(s, st) ==
    /\ s \in Managers
    /\ s.alive => Owned(s) /\ s.pg
    /\ s.lease => Owned(s) /\ s.pg /\ ~st
    /\ s.current \in {"Idle", "Disabled"} => ~s.alive /\ ~s.lease /\ s.origin = "none"
    /\ s.current \in Usable => s.origin # "none" /\ s.pg

(* After the handoff took the lease, before the owned session uses it.     *)
Held(s) ==
    /\ s \in Managers
    /\ s.alive => Owned(s) /\ s.pg
    /\ s.current \in {"Idle", "Disabled"} => ~s.alive /\ s.origin = "none"
    /\ s.current \in Usable => s.origin # "none" /\ s.pg

SoundResults == {r \in [ok : BOOLEAN, m : Managers, stock : BOOLEAN] : Sound(r.m, r.stock)}

IndInv == TypeOK /\ Sound(m, stock)

-----------------------------------------------------------------------------
LEMMA RestType == ASSUME TypeOK PROVE Rest \in {"Idle", "Disabled"}
  BY DEF Rest

(* recover_failed_session_locked leaves nothing running: what ran was the  *)
(* owned compositor, and its process group is stopped.                     *)
LEMMA RecoveredSound ==
  ASSUME TypeOK, NEW s, Held(s), NEW restore \in BOOLEAN
  PROVE  /\ Held(Recovered(s, restore))
         /\ Recovered(s, restore).current \in {"Idle", "Disabled"}
         /\ ~Recovered(s, restore).alive
         /\ Recovered(s, restore).origin = "none"
         /\ Recovered(s, restore).lease => s.lease /\ ~restore
  BY RestType DEF Recovered, Held, Managers, Owned, States, Origins, Usable

LEMMA StoppedSound ==
  ASSUME TypeOK, NEW s, Held(s), NEW st \in BOOLEAN
  PROVE  Sound(Stopped(s), st)
<1> DEFINE t == [s EXCEPT !.tracking = @ /\ ~(Owned(s) /\ s.pg)]
<1>1. Held(t)
  BY DEF Held, Managers, Owned, Usable
<1> HIDE DEF t
<1>2. Sound(Recovered(t, TRUE), st)
  BY <1>1, RecoveredSound DEF Sound, Held
<1> QED
  BY <1>2 DEF Stopped, t

(* The failure guard gives the lease back.  What still runs is a session   *)
(* this launch did not start.                                              *)
LEMMA RefusedSound ==
  ASSUME NEW s, Held(s), NEW st \in BOOLEAN
  PROVE  Sound(Refused(s), st)
  BY DEF Sound, Held, Refused, Restored, Managers, Owned, States, Usable

(* A result whose manager is sound. *)
LEMMA ResultSound ==
  ASSUME NEW ok \in BOOLEAN, NEW s, NEW st \in BOOLEAN, Sound(s, st)
  PROVE  Result(ok, s, st) \in SoundResults
  BY DEF Result, SoundResults, Sound

(* A new owned session comes up, or fails on the way. *)
LEMMA StartOwnedSound ==
  ASSUME NEW s, Held(s), s.current \in {"Idle", "Disabled"}, NEW st \in BOOLEAN,
         s.lease => ~st, NEW q, q.key \in Keys
  PROVE  StartOwned(s, st, q) \subseteq SoundResults
<1> DEFINE fresh == [s EXCEPT !.origin = "owned_private", !.key = q.key, !.tracking = FALSE]
           up == [fresh EXCEPT !.pg = TRUE, !.alive = TRUE, !.current = "WaitingForCapture"]
<1>1. Sound(up, st)
  BY DEF Sound, Held, Managers, Owned, States, Origins, Usable
<1>2. Sound(Refused(fresh), st)
  BY DEF Sound, Held, Refused, Restored, Managers, Owned, States, Origins, Usable
<1>3. Sound(Refused(s), st)
  BY RefusedSound
<1> HIDE DEF up, fresh
<1>4. /\ Result(TRUE, up, st) \in SoundResults
      /\ Result(FALSE, Refused(fresh), st) \in SoundResults
      /\ Result(FALSE, Refused(s), st) \in SoundResults
  BY <1>1, <1>2, <1>3, ResultSound
<1> QED
  BY <1>4 DEF StartOwned, up, fresh

LEMMA AttachSound ==
  ASSUME NEW s, Held(s), s.current \in {"Idle", "Disabled"}, NEW st \in BOOLEAN,
         NEW q, q.key \in Keys
  PROVE  AttachExisting(s, st, q) \subseteq SoundResults
<1> DEFINE up == [s EXCEPT !.origin = "attached_existing", !.key = q.key,
                           !.pg = TRUE, !.bound = TRUE, !.tracking = FALSE,
                           !.current = "WaitingForCapture"]
<1>1. Sound(Restored(up), st)
  BY DEF Sound, Held, Restored, Managers, Owned, States, Origins, Usable
<1>2. Sound(Refused(s), st)
  BY RefusedSound
<1> HIDE DEF up
<1>3. /\ Result(TRUE, Restored(up), st) \in SoundResults
      /\ Result(FALSE, Refused(s), st) \in SoundResults
  BY <1>1, <1>2, ResultSound
<1> QED
  BY <1>3 DEF AttachExisting, up

(* prepare() after the handoff.  A retained session is reused only where   *)
(* it is owned and has its process group, so it may keep the lease.        *)
LEMMA ResumeSound ==
  ASSUME TypeOK, NEW s, Held(s), NEW st \in BOOLEAN, s.lease => ~st,
         NEW q, q.key \in Keys, NEW route, NEW e, NEW client \in BOOLEAN,
         NEW handedOff,
         route = "retained_owned_private" => RetainedBy(s, q)
  PROVE  Resume(s, st, route, q, e, client, handedOff) \subseteq SoundResults
<1> DEFINE free == IF \/ s.current = "Ready" /\ s.origin # "none"
                      \/ s.current = "Failed"
                   THEN Recovered(s, ~client) ELSE s
<1>1. Held(free) /\ (free.lease => ~st)
  BY RecoveredSound
<1>2. CASE \/ route = "reject"
           \/ route # "attached_existing" /\ Backend(e) = "none"
  BY <1>2, RefusedSound, ResultSound DEF Resume
<1>3. CASE route = "retained_owned_private"
  <2>1. Sound([s EXCEPT !.tracking = FALSE], st)
    BY <1>3 DEF RetainedBy, Sound, Held, Managers, Owned, Usable
  <2> QED
    BY <1>2, <1>3, <2>1, ResultSound DEF Resume
<1>4. CASE route # "retained_owned_private" /\ free.current \notin {"Idle", "Disabled"}
  <2>1. Sound(Restored(free), st)
    BY <1>1, <1>4 DEF Restored, Sound, Held, Managers, Owned, Usable
  <2> QED
    BY <1>2, <1>4, <2>1, ResultSound DEF Resume
<1>5. CASE /\ route # "retained_owned_private"
           /\ free.current \in {"Idle", "Disabled"}
  <2>1. /\ AttachExisting(free, st, q) \subseteq SoundResults
        /\ StartOwned(free, st, q) \subseteq SoundResults
    BY <1>1, <1>5, AttachSound, StartOwnedSound
  <2> HIDE DEF free
  <2> QED
    BY <1>2, <1>5, <2>1 DEF Resume, free
<1> QED
  BY <1>3, <1>4, <1>5

(* The handoff: whatever it stopped, a failure gives the lease back. *)
LEMMA HandOffSound ==
  ASSUME TypeOK, NEW st \in BOOLEAN, NEW s, Sound(s, st), NEW q, q.key \in Keys, NEW e
  PROVE  HandOff(s, st, q, e) \subseteq SoundResults
<1> DEFINE own  == IF s.origin = "attached_existing" THEN Recovered(s, TRUE) ELSE s
           held == [own EXCEPT !.lease = TRUE]
           route == IF RetainedBy(s, q) THEN "retained_owned_private"
                    ELSE "new_owned_private"
<1>1. Held(s)
  BY DEF Sound, Held
<1>2. Held(own)
  BY <1>1, RecoveredSound
<1>3. Held(held)
  BY <1>2 DEF Held, Managers, Owned, Usable
<1>4. RetainedBy(s, q) => RetainedBy(held, q)
  BY <1>1 DEF RetainedBy, Owned, Held, Managers
<1>5. Resume(held, FALSE, route, q, e, TRUE, TRUE) \subseteq SoundResults
  <2>1. route = "retained_owned_private" => RetainedBy(held, q)
    BY <1>4
  <2> HIDE DEF held, route
  <2> QED
    BY <1>3, <2>1, ResumeSound
<1>6. \A left \in {st, FALSE} : Result(FALSE, Refused(held), left) \in SoundResults
  <2> HIDE DEF held
  <2> QED
    BY <1>3, RefusedSound, ResultSound
<1>7. Result(FALSE, Refused(own), st) \in SoundResults
  <2> HIDE DEF own
  <2> QED
    BY <1>2, RefusedSound, ResultSound
<1> HIDE DEF held, own, route
<1> QED
  BY <1>5, <1>6, <1>7 DEF HandOff, held, own, route

(* prepare(), for every request and whatever the host looks like. *)
LEMMA PrepareSound ==
  ASSUME TypeOK, NEW s0, NEW st \in BOOLEAN, Sound(s0, st), NEW q \in Asks, NEW e
  PROVE  Prepare(s0, st, q, e) \subseteq SoundResults
<1> DEFINE s == [s0 EXCEPT !.preflight = @ /\ ~q.prefer]
           route == SelectSessionRoute(RouteInput(s, st, q, e))
           gone == [(IF s.origin # "none" THEN Recovered(s, TRUE) ELSE s)
                       EXCEPT !.key = q.key, !.current = "Disabled"]
<1>1. Sound(s, st) /\ Held(s) /\ q.key \in Keys
  BY DEF Sound, Held, Managers, Owned, Usable, Asks
<1>2. CASE ~q.valid
  <2>1. Sound([s EXCEPT !.key = q.key, !.current = "Failed"], st)
    <3> HIDE DEF s
    <3> QED
      BY <1>1 DEF Sound, Managers, Owned, Usable, States
  <2> QED
    BY <1>2, <2>1, ResultSound DEF Prepare
<1>3. CASE q.valid /\ route = "physical_desktop"
  <2>1. /\ Recovered(s, TRUE) \in Managers
        /\ Recovered(s, TRUE).origin = "none"
        /\ ~Recovered(s, TRUE).alive
        /\ ~Recovered(s, TRUE).lease
    <3> HIDE DEF s
    <3> QED
      BY <1>1, RecoveredSound DEF Held
  <2>2. /\ s \in Managers
        /\ s.origin = "none" => ~s.alive /\ ~s.lease
    <3> HIDE DEF s
    <3> QED
      BY <1>1 DEF Sound, Owned
  <2>3. Sound(gone, st)
    <3> HIDE DEF s
    <3> DEFINE left == IF s.origin # "none" THEN Recovered(s, TRUE) ELSE s
    <3>1. left \in Managers /\ left.origin = "none" /\ ~left.alive /\ ~left.lease
      BY <2>1, <2>2
    <3> HIDE DEF left
    <3>2. Sound([left EXCEPT !.key = q.key, !.current = "Disabled"], st)
      BY <1>1, <3>1 DEF Sound, Managers, Owned, Usable, States
    <3> QED
      BY <3>2 DEF left
  <2> HIDE DEF gone
  <2>4. Result(TRUE, gone, st) \in SoundResults
    BY <2>3, ResultSound
  <2> QED
    BY <1>3, <2>4 DEF Prepare, gone
<1>4. CASE q.valid /\ route # "physical_desktop" /\ HandoffOwned(q.prefer, s.preflight)
  <2>1. HandOff(s, st, q, e) \subseteq SoundResults
    BY <1>1, HandOffSound
  <2> QED
    BY <1>4, <2>1 DEF Prepare
<1>5. CASE q.valid /\ route # "physical_desktop" /\ ~HandoffOwned(q.prefer, s.preflight)
  <2>1. route = "retained_owned_private" => RetainedBy(s, q)
    BY DEF SelectSessionRoute, OwnedRoute, RouteInput
  <2>2. s.lease => ~st
    BY <1>1 DEF Sound
  <2>3. Resume(s, st, route, q, e, FALSE, s.lease) \subseteq SoundResults
    <3> HIDE DEF s, route
    <3> QED
      BY <1>1, <2>1, <2>2, ResumeSound
  <2> QED
    BY <1>5, <2>3 DEF Prepare
<1> QED
  BY <1>2, <1>3, <1>4, <1>5

LEMMA OutcomesSound ==
  ASSUME IndInv, NEW q \in Asks PROVE Outcomes(q) \subseteq SoundResults
<1>1. ASSUME NEW e \in Hosts PROVE Prepare(m, stock, q, e) \subseteq SoundResults
  BY PrepareSound DEF IndInv, TypeOK
<1> QED
  BY <1>1 DEF Outcomes

LEMMA AskType ==
  ASSUME NEW q \in Requests
  PROVE  /\ Ask(q) \in Asks
         /\ Fallback(q) \in Asks
         /\ \A f \in BOOLEAN : [Ask(q) EXCEPT !.force = f] \in Asks
  BY DEF Requests, Asks, Ask, Fallback

LEMMA SoundStopped == ASSUME IndInv PROVE Sound(Stopped(m), stock)
  BY StoppedSound DEF IndInv, TypeOK, Sound, Held

-----------------------------------------------------------------------------
LEMMA InitInv == Init => IndInv
<1> SUFFICES ASSUME Init PROVE IndInv
  OBVIOUS
<1>1. Sound(m, stock)
  BY DEF Init, Sound, Managers, Owned, States, Origins, Usable
<1>2. request \in Requests
  BY DEF Init
<1>3. config \in Configs /\ stock \in BOOLEAN /\ http \in HttpLocations /\ streams \in 0..MaxStreams
  BY StreamsAssumption DEF Init, HttpLocations
<1>4. app \in BOOLEAN /\ pending \in BOOLEAN /\ lost \in BOOLEAN /\ teardown \in BOOLEAN
  BY DEF Init
<1> QED
  BY <1>1, <1>2, <1>3, <1>4 DEF IndInv, TypeOK, Sound

(* Every step of every thread keeps it. *)
LEMMA StepInv == IndInv /\ [Next]_vars => IndInv'
<1> SUFFICES ASSUME IndInv, [Next]_vars PROVE IndInv'
  OBVIOUS
<1> USE StreamsAssumption DEF HttpTo
<1>0. TypeOK
  BY DEF IndInv
(* The steps that leave the manager and the stock compositor alone. *)
<1>1. ASSUME UNCHANGED <<config, m, stock>>, http' \in HttpLocations,
             request' \in Requests, app' \in BOOLEAN, pending' \in BOOLEAN,
             streams' \in 0..MaxStreams, lost' \in BOOLEAN, teardown' \in BOOLEAN
      PROVE  IndInv'
  BY <1>1 DEF IndInv, TypeOK, Sound
(* The steps that change them together. *)
<1>2. ASSUME Sound(m', stock'), stock' \in BOOLEAN, config' = config,
             http' \in HttpLocations, request' \in Requests, app' \in BOOLEAN,
             pending' \in BOOLEAN, streams' \in 0..MaxStreams, lost' \in BOOLEAN,
             teardown' \in BOOLEAN
      PROVE  IndInv'
  BY <1>0, <1>2 DEF IndInv, TypeOK, Sound
<1> USE <1>0 DEF TypeOK, HttpLocations
<1>3. CASE Preflight
  <2>1. CASE config.enabled /\ config.mode # "off"
    <3>0. PICK force \in BOOLEAN :
            \E r \in Outcomes([Ask(request) EXCEPT !.force = force]) :
               /\ m' = IF r.ok THEN [r.m EXCEPT !.preflight = Owned(r.m)] ELSE r.m
               /\ stock' = r.stock
      BY <1>3, <2>1 DEF Preflight
    <3>1. PICK r \in Outcomes([Ask(request) EXCEPT !.force = force]) :
            /\ m' = IF r.ok THEN [r.m EXCEPT !.preflight = Owned(r.m)] ELSE r.m
            /\ stock' = r.stock
      BY <3>0
    <3>2. r \in SoundResults
      BY OutcomesSound, AskType
    <3>3. Sound(m', stock') /\ stock' \in BOOLEAN
      BY <3>1, <3>2 DEF SoundResults, Sound, Managers, Owned, Usable
    <3> QED
      BY <1>2, <1>3, <3>3 DEF Preflight
  <2>2. CASE ~(config.enabled /\ config.mode # "off")
    BY <1>1, <1>3, <2>2 DEF Preflight
  <2> QED
    BY <2>1, <2>2
<1>4. ASSUME NEW q \in Requests, Launch(q) PROVE IndInv'
  <2>1. PICK r \in Outcomes(Ask(q)) :
          /\ m' = r.m
          /\ stock' = r.stock
          /\ request' = IF r.ok THEN q ELSE request
          /\ http' = IF r.ok THEN "prepared" ELSE "idle"
    BY <1>4 DEF Launch
  <2>2. r \in SoundResults
    BY OutcomesSound, AskType
  <2> QED
    BY <1>2, <1>4, <2>1, <2>2 DEF Launch, SoundResults
<1>5. CASE LaunchFallback
  <2>1. PICK r \in Outcomes(Fallback(request)) :
          /\ m' = IF r.ok THEN r.m ELSE Stopped(r.m)
          /\ stock' = r.stock
          /\ http' = IF r.ok THEN "reprobe" ELSE "idle"
    BY <1>5 DEF LaunchFallback
  <2>2. r \in SoundResults
    BY OutcomesSound, AskType
  <2>3. Held(r.m) /\ r.stock \in BOOLEAN
    BY <2>2 DEF SoundResults, Sound, Held
  <2>4. Sound(Stopped(r.m), r.stock)
    BY <2>3, StoppedSound
  <2> QED
    BY <1>2, <1>5, <2>1, <2>2, <2>4 DEF LaunchFallback, SoundResults
<1>6. CASE LaunchProbe
  <2>1. CASE UNCHANGED m
    BY <1>1, <1>6, <2>1 DEF LaunchProbe
  <2>2. CASE m' = Stopped(m)
    BY <1>2, <1>6, <2>2, SoundStopped DEF LaunchProbe
  <2> QED
    BY <1>6, <2>1, <2>2 DEF LaunchProbe
<1>7. CASE LaunchExecute
  <2>1. /\ app' \in BOOLEAN /\ http' \in HttpLocations
        /\ UNCHANGED <<config, stock, request, pending, streams, lost, teardown>>
    BY <1>7 DEF LaunchExecute
  <2>2. UNCHANGED m \/ m' = Stopped(m)
    BY <1>7 DEF LaunchExecute
  <2> QED
    BY <1>1, <1>2, <2>1, <2>2, SoundStopped
<1>8. CASE CancelStop
  BY <1>2, <1>8, SoundStopped DEF CancelStop
<1>9. CASE Shutdown
  BY <1>2, <1>9, SoundStopped DEF Shutdown
<1>10. CASE TeardownStop
  BY <1>2, <1>10, SoundStopped DEF TeardownStop
<1>11. CASE LaunchRaise \/ ResumeRequest \/ Cancel \/ CancelTerminate
  BY <1>1, <1>11 DEF LaunchRaise, ResumeRequest, Cancel, CancelTerminate
<1>12. CASE StreamStart \/ LaunchTimeout \/ AppExit
  <2>1. CASE StreamStart
    <3>1. streams' \in 0..MaxStreams
      BY <2>1 DEF StreamStart
    <3> QED
      BY <1>1, <2>1, <3>1 DEF StreamStart
  <2>2. CASE LaunchTimeout
    BY <1>1, <2>2 DEF LaunchTimeout
  <2>3. CASE AppExit
    BY <1>1, <2>3 DEF AppExit
  <2> QED
    BY <1>12, <2>1, <2>2, <2>3
<1>13. CASE MarkStreaming
  <2>1. Sound(m', stock')
    BY <1>13 DEF MarkStreaming, IndInv, Sound, Managers, Owned, States, Usable
  <2> QED
    BY <1>2, <1>13, <2>1 DEF MarkStreaming
<1>14. CASE StreamJoin
  <2>1. streams' \in 0..MaxStreams
    BY <1>14 DEF StreamJoin
  <2>2. lost' \in BOOLEAN
    BY <1>14 DEF StreamJoin
  <2>3. UNCHANGED <<config, stock, http, request, app, pending>>
    BY <1>14 DEF StreamJoin
  <2>4. CASE UNCHANGED <<m, teardown>>
    BY <1>1, <2>1, <2>2, <2>3, <2>4
  <2>5. CASE /\ teardown' = StopsOnDisconnect(m)
             /\ m' = [m EXCEPT !.requested = FALSE, !.tracking = FALSE,
                        !.current = IF @ = "Streaming" /\ ~teardown'
                                    THEN "Ready" ELSE @]
    <3>1. teardown' \in BOOLEAN
      BY <2>5 DEF StopsOnDisconnect, Owned
    <3>2. Sound(m', stock')
      <4> DEFINE c == IF m.current = "Streaming" /\ ~teardown' THEN "Ready" ELSE m.current
      <4>1. m' = [m EXCEPT !.requested = FALSE, !.tracking = FALSE, !.current = c]
        BY <2>5
      <4>2. /\ c \in States
            /\ c \in {"Idle", "Disabled"} => c = m.current
            /\ c \in Usable => m.current \in Usable
        BY DEF IndInv, Managers, States, Usable
      <4> HIDE DEF c
      <4> QED
        BY <2>3, <4>1, <4>2 DEF IndInv, Sound, Managers, Owned
    <3> QED
      BY <1>2, <2>1, <2>2, <2>3, <3>1, <3>2
  <2> QED
    BY <1>14, <2>4, <2>5 DEF StreamJoin
<1>15. CASE CaptureReady \/ CaptureReinitializing \/ CaptureLost
  <2>1. CASE CaptureReady
    <3>1. Sound(m', stock')
      BY <2>1 DEF CaptureReady, IndInv, Sound, Managers, Owned, States, Usable
    <3> QED
      BY <1>2, <2>1, <3>1 DEF CaptureReady
  <2>2. CASE CaptureReinitializing
    <3>1. Sound(m', stock')
      BY <2>2 DEF CaptureReinitializing, IndInv, Sound, Managers, Owned, States, Usable
    <3> QED
      BY <1>2, <2>2, <3>1 DEF CaptureReinitializing
  <2>3. CASE CaptureLost
    <3>1. Sound(m', stock')
      BY <2>3 DEF CaptureLost, IndInv, Sound, Managers, Owned, States, Usable
    <3>2. lost' \in BOOLEAN
      BY <2>3 DEF CaptureLost
    <3> QED
      BY <1>2, <2>3, <3>1, <3>2 DEF CaptureLost
  <2> QED
    BY <1>15, <2>1, <2>2, <2>3
<1>16. CASE CompositorExit \/ StockStart \/ StockExit
  <2>1. CASE CompositorExit
    <3>1. Sound(m', stock')
      BY <2>1 DEF CompositorExit, IndInv, Sound, Managers, Owned, Usable
    <3> QED
      BY <1>2, <2>1, <3>1 DEF CompositorExit
  <2>2. CASE StockStart
    <3>1. Sound(m', stock')
      BY <2>2 DEF StockStart, IndInv, Sound, Managers, Owned, Usable
    <3> QED
      BY <1>2, <2>2, <3>1 DEF StockStart
  <2>3. CASE StockExit
    <3>1. Sound(m', stock')
      BY <2>3 DEF StockExit, IndInv, Sound, Managers, Owned, Usable
    <3> QED
      BY <1>2, <2>3, <3>1 DEF StockExit
  <2> QED
    BY <1>16, <2>1, <2>2, <2>3
<1>17. CASE UNCHANGED vars
  BY <1>1, <1>17 DEF vars
<1> QED
  BY <1>3, <1>4, <1>5, <1>6, <1>7, <1>8, <1>9, <1>10, <1>11, <1>12, <1>13, <1>14,
     <1>15, <1>16, <1>17 DEF Next, Http, Streams, Capture, Outside

THEOREM Invariance == Spec => []IndInv
  BY InitInv, StepInv, PTL DEF Spec

-----------------------------------------------------------------------------
(* Type correctness of the manager and the threads that drive it. *)
THEOREM TypeCorrect == Spec => []TypeOK
<1>1. IndInv => TypeOK
  BY DEF IndInv
<1> QED
  BY <1>1, Invariance, PTL

(* Whatever prepare(), the stops, the capture thread and the exits do in   *)
(* whichever order, a compositor that runs is named by the manager, and a  *)
(* held lease by the owned session it is for.                              *)
THEOREM NothingOrphaned == Spec => []NoOrphanCompositor
<1>1. IndInv => NoOrphanCompositor
  BY DEF IndInv, Sound, NoOrphanCompositor
<1> QED
  BY <1>1, Invariance, PTL

(* The reported state and the source it stands for agree between any two   *)
(* operations.                                                             *)
THEOREM StateIsTrue == Spec => []StateMatchesSource
<1>1. IndInv => StateMatchesSource
  BY DEF IndInv, Sound, Usable, StateMatchesSource
<1> QED
  BY <1>1, Invariance, PTL

-----------------------------------------------------------------------------
(* A stopped service leaves nothing behind: no compositor, no lease on the *)
(* display, no stream and no launch.                                       *)
ReleasedAtShutdown ==
    http = "off" =>
        /\ ~m.alive /\ ~m.lease
        /\ streams = 0 /\ ~pending /\ ~app /\ ~teardown

(* A service that has stopped stays so: no late capture event, exit or     *)
(* timer brings anything back.                                             *)
THEOREM ShutdownIsClean == Spec => []ReleasedAtShutdown
<1>1. Init => ReleasedAtShutdown
  BY DEF Init, ReleasedAtShutdown
<1>2. IndInv /\ ReleasedAtShutdown /\ [Next]_vars => ReleasedAtShutdown'
  <2> SUFFICES ASSUME IndInv, ReleasedAtShutdown, [Next]_vars, http' = "off"
               PROVE  ReleasedAtShutdown'
    BY DEF ReleasedAtShutdown
  <2>1. CASE Shutdown
    <3>1. Held(m)
      BY DEF IndInv, Sound, Held
    <3>2. Sound(Stopped(m), stock) /\ Stopped(m).current \in {"Idle", "Disabled"}
      BY SoundStopped, RestType DEF Stopped, Recovered, IndInv, TypeOK, Managers
    <3> QED
      BY <2>1, <3>2 DEF Shutdown, Sound, ReleasedAtShutdown
  <2>2. CASE http = "off"
    <3>1. /\ ~m.alive /\ ~m.lease
          /\ streams = 0 /\ ~pending /\ ~app /\ ~teardown
      BY <2>2 DEF ReleasedAtShutdown
    <3>2. m \in Managers
      BY DEF IndInv, TypeOK
    <3>3. ~Http /\ ~Streams /\ ~CompositorExit /\ ~AppExit
      BY <2>2, <3>1 DEF Http, Preflight, LaunchProbe, LaunchExecute, LaunchFallback,
         LaunchRaise, MarkStreaming, ResumeRequest, Cancel, CancelTerminate, CancelStop,
         Shutdown, Launch, HttpTo, Streams, StreamStart, LaunchTimeout, StreamJoin,
         TeardownStop, CompositorExit, AppExit
    <3>4. CASE Capture
      BY <3>1, <3>2, <3>4 DEF Capture, CaptureReady, CaptureReinitializing,
         CaptureLost, Managers, ReleasedAtShutdown
    <3>5. CASE StockStart \/ StockExit \/ UNCHANGED vars
      BY <3>1, <3>2, <3>5 DEF StockStart, StockExit, vars, Managers, ReleasedAtShutdown
    <3> QED
      BY <3>3, <3>4, <3>5 DEF Next, Outside
  <2>3. CASE http # "off" /\ ~Shutdown
    <3>1. http' # "off"
      BY <2>3 DEF Next, Http, Preflight, LaunchProbe, LaunchExecute, LaunchFallback,
         LaunchRaise, MarkStreaming, ResumeRequest, Cancel, CancelTerminate, CancelStop,
         Launch, HttpTo, Streams, StreamStart, LaunchTimeout, StreamJoin, TeardownStop,
         Capture, CaptureReady, CaptureReinitializing, CaptureLost, Outside,
         CompositorExit, AppExit, StockStart, StockExit, vars
    <3> QED
      BY <3>1
  <2> QED
    BY <2>1, <2>2, <2>3
<1> QED
  BY <1>1, <1>2, Invariance, PTL DEF Spec
=============================================================================
