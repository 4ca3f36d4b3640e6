------------------------ MODULE StockHandoff_proofs ------------------------
(***************************************************************************)
(* The safety properties of StockHandoff, for every set of PIDs, every     *)
(* number of births and boots, and with or without unlink() failures.      *)
(*                                                                         *)
(* IndInv ties the four parts of the protocol together: where a process    *)
(* is, who has the flock, what the lease file holds, and which identities  *)
(* are still possible.  The crux is StaleInv and GuardInv: what was read   *)
(* under the flock is still what the file holds, or the file is gone,      *)
(* because a release without the flock is always the owner's own.          *)
(***************************************************************************)
EXTENDS StockHandoff, TLAPS

Holding == {"stop", "stopped", "start", "held", "release"}
Locked  == {"publish", "verify", "recheck", "unlink", "link", "published",
            "refused", "rcheck"}

(* A recorded identity comes from the past: no later process can get it. *)
Known(l) == l \in Leases => l.boot <= boot /\ (l.boot = boot => l.start <= clock)

LocInv ==
    \A p \in Pids :
        /\ pc[p] # "off" => proc[p].kind = "steamshine"
        /\ active[p] <=> pc[p] \in Holding
        /\ pc[p] \in Locked => lock = p
        /\ proc[p].start <= clock
KnownInv == Known(lease) /\ Known(gseen) /\ \A p \in Pids : Known(seen[p])
LeaseInv == \A p \in Pids : pc[p] \in Holding \cup {"published"} => lease = Mine(p)
StaleInv ==
    \A p \in Pids :
        /\ pc[p] \in {"verify", "recheck", "unlink"} => seen[p] \in Leases
        /\ pc[p] \in {"recheck", "unlink"} => ~OwnerAlive(seen[p])
        /\ pc[p] = "unlink" => lease \in {seen[p], NoLease}
GuardInv ==
    /\ gpc \in {"read", "verify"} => lock = "guard"
    /\ gpc = "verify" => gseen \in Leases /\ lease \in {gseen, NoLease}
StockInv ==
    \A p \in Pids : pc[p] \in {"stopped", "start", "held"} =>
        stock # "running" /\ gpc # "exec"

IndInv ==
    /\ TypeOK
    /\ LocInv
    /\ KnownInv
    /\ LeaseInv
    /\ StaleInv
    /\ GuardInv
    /\ StockInv

-----------------------------------------------------------------------------
(* The lease a process writes for itself is well formed. *)
LEMMA MineType == ASSUME TypeOK, NEW p \in Pids PROVE Mine(p) \in Leases
  BY DEF TypeOK, Mine, Leases

(* Every step of the processes, the guard and the environment keeps the   *)
(* types.                                                                 *)
LEMMA TypeStep == TypeOK /\ [Next]_vars => TypeOK'
<1> SUFFICES ASSUME TypeOK, [Next]_vars PROVE TypeOK'
  OBVIOUS
<1> USE DEF TypeOK, Locations, GuardLocations, LeaseFile, Kinds, Goto, GuardIs,
            DropLock, StockGone, StockAsIs, StartJob, procVars, guardVars
<1>1. ASSUME NEW q \in Pids, AcquireBegin(q) PROVE TypeOK'
  BY <1>1 DEF AcquireBegin
<1>2. ASSUME NEW q \in Pids, AcquireLock(q) PROVE TypeOK'
  BY <1>2 DEF AcquireLock
<1>3. ASSUME NEW q \in Pids, PublishLink(q) PROVE TypeOK'
  BY <1>3, MineType DEF PublishLink
<1>4. ASSUME NEW q \in Pids, PublishVerify(q) PROVE TypeOK'
  BY <1>4 DEF PublishVerify
<1>5. ASSUME NEW q \in Pids, PublishRecheck(q) PROVE TypeOK'
  BY <1>5 DEF PublishRecheck
<1>6. ASSUME NEW q \in Pids, PublishUnlink(q) PROVE TypeOK'
  BY <1>6 DEF PublishUnlink
<1>7. ASSUME NEW q \in Pids, PublishRelink(q) PROVE TypeOK'
  BY <1>7, MineType DEF PublishRelink
<1>8. ASSUME NEW q \in Pids, AcquireEnd(q) PROVE TypeOK'
  BY <1>8 DEF AcquireEnd
<1>9. ASSUME NEW q \in Pids, StopStock(q) PROVE TypeOK'
  BY <1>9 DEF StopStock
<1>10. ASSUME NEW q \in Pids, Continue(q) PROVE TypeOK'
  <2>1. pc' \in [Pids -> Locations] /\ owned' \in [Pids -> BOOLEAN]
    <3>1. CASE owned[q] /\ Goto(q, "stopped", "held") /\ UNCHANGED owned
      BY <3>1
    <3>2. CASE Goto(q, "stopped", "release") /\ UNCHANGED owned
      BY <3>2
    <3>3. CASE /\ Goto(q, "stopped", "start")
               /\ owned' = [owned EXCEPT ![q] = FALSE]
      BY <3>3
    <3> QED
      BY <1>10, <3>1, <3>2, <3>3 DEF Continue
  <2> QED
    BY <1>10, <2>1 DEF Continue
<1>11. ASSUME NEW q \in Pids, StartOwned(q) PROVE TypeOK'
  <2>1. pc' \in [Pids -> Locations] /\ owned' \in [Pids -> BOOLEAN]
    <3>1. CASE /\ Goto(q, "start", "held")
               /\ owned' = [owned EXCEPT ![q] = TRUE]
      BY <3>1
    <3>2. CASE Goto(q, "start", "release") /\ UNCHANGED owned
      BY <3>2
    <3> QED
      BY <1>11, <3>1, <3>2 DEF StartOwned
  <2> QED
    BY <1>11, <2>1 DEF StartOwned
<1>12. ASSUME NEW q \in Pids, Relaunch(q) PROVE TypeOK'
  BY <1>12 DEF Relaunch
<1>13. ASSUME NEW q \in Pids, StopSession(q) PROVE TypeOK'
  BY <1>13 DEF StopSession
<1>14. ASSUME NEW q \in Pids, Release(q) PROVE TypeOK'
  BY <1>14 DEF Release
<1>15. ASSUME NEW q \in Pids, RequestStart(q) PROVE TypeOK'
  <2>1. pc' \in [Pids -> Locations]
    BY <1>15 DEF RequestStart
  <2>2. stock' \in {"inactive", "guard", "running"}
    BY <1>15 DEF RequestStart
  <2> QED
    BY <1>15, <2>1, <2>2 DEF RequestStart
<1>16. ASSUME NEW q \in Pids, AwaitRestored(q) PROVE TypeOK'
  BY <1>16 DEF AwaitRestored
<1>17. ASSUME NEW q \in Pids, RestartBegin(q) PROVE TypeOK'
  BY <1>17 DEF RestartBegin
<1>18. ASSUME NEW q \in Pids, RestartLock(q) PROVE TypeOK'
  BY <1>18 DEF RestartLock
<1>19. ASSUME NEW q \in Pids, RestartReset(q) PROVE TypeOK'
  BY <1>19 DEF RestartReset
<1>20. CASE GuardPoll
  BY <1>20 DEF GuardPoll
<1>21. CASE GuardLock
  BY <1>21 DEF GuardLock
<1>22. CASE GuardLockTimeout
  BY <1>22 DEF GuardLockTimeout
<1>23. CASE GuardRead
  BY <1>23 DEF GuardRead
<1>24. CASE GuardVerify
  BY <1>24 DEF GuardVerify
<1>25. CASE GuardExec
  BY <1>25 DEF GuardExec
<1>26. CASE Relogin
  BY <1>26 DEF Relogin
<1>27. CASE VendorExit
  BY <1>27 DEF VendorExit
<1>28. CASE Cable
  BY <1>28 DEF Cable
<1>29. CASE Reboot
  BY <1>29 DEF Reboot
<1>30. ASSUME NEW q \in Pids, Start(q) PROVE TypeOK'
  BY <1>30 DEF Start
<1>31. ASSUME NEW q \in Pids, Die(q) PROVE TypeOK'
  BY <1>31 DEF Die
<1>32. ASSUME NEW q \in Pids, OwnedExit(q) PROVE TypeOK'
  BY <1>32 DEF OwnedExit
<1>33. ASSUME NEW q \in Pids, ReusePid(q) PROVE TypeOK'
  BY <1>33 DEF ReusePid
<1>34. CASE UNCHANGED vars
  BY <1>34 DEF vars
<1> QED
  BY <1>1, <1>2, <1>3, <1>4, <1>5, <1>6, <1>7, <1>8, <1>9, <1>10, <1>11,
     <1>12, <1>13, <1>14, <1>15, <1>16, <1>17, <1>18, <1>19, <1>20, <1>21, <1>22,
     <1>23, <1>24, <1>25, <1>26, <1>27, <1>28, <1>29, <1>30, <1>31, <1>32, <1>33, <1>34
     DEF Next, Acquire, Handoff, Restore, GuardStep, Environment

-----------------------------------------------------------------------------
(* Before any process has started there is no lease, no lock and no guard. *)
LEMMA IndInit == Init => IndInv
  BY PidsAssumption
     DEF Init, IndInv, TypeOK, LocInv, KnownInv, LeaseInv, StaleInv, GuardInv,
         StockInv, Holding, Locked, Known, Leases, LeaseFile, NoLease,
         Malformed, Locations, GuardLocations, Kinds

(* The lease of a running process is never the one a stale-owner recovery   *)
(* is about to remove.                                                      *)
LEMMA LiveIsNotStale ==
  ASSUME IndInv, NEW p \in Pids, lease = Mine(p), proc[p].kind # "none"
  PROVE  /\ OwnerAlive(lease)
         /\ \A q \in Pids : pc[q] # "unlink"
         /\ gpc = "verify" => OwnerAlive(gseen)
<1>1. lease \in Leases /\ OwnerAlive(lease)
  BY MineType DEF IndInv, OwnerAlive, Mine
<1>2. lease # NoLease
  BY <1>1 DEF Leases, NoLease
<1> QED
  BY <1>1, <1>2 DEF IndInv, StaleInv, GuardInv

(* Only the process the file names is past its own publication. *)
LEMMA OneHolder ==
  ASSUME IndInv, NEW p \in Pids, NEW q \in Pids, lease = Mine(q),
         pc[p] \in Holding \cup {"published"}
  PROVE  p = q
  BY DEF IndInv, LeaseInv, Mine

(* An identity of the past that names no running process never names one   *)
(* again.                                                                  *)
LEMMA DeadStaysDead ==
  ASSUME IndInv, NEW l \in Leases, Known(l), ~OwnerAlive(l), NEW q \in Pids,
         clock' = clock + 1, boot' = boot,
         proc' = [proc EXCEPT ![q] = [kind |-> proc'[q].kind, start |-> clock + 1]]
  PROVE  ~OwnerAlive(l)'
  BY DEF IndInv, TypeOK, Known, OwnerAlive, Leases

(* The induction step, one case per action. *)
LEMMA IndStep == IndInv /\ [Next]_vars => IndInv'
<1> DEFINE Parts == LocInv /\ KnownInv /\ LeaseInv /\ StaleInv /\ GuardInv /\ StockInv
<1> SUFFICES ASSUME IndInv, [Next]_vars PROVE Parts'
  BY TypeStep DEF IndInv
<1> USE PidsAssumption
    DEF IndInv, TypeOK, Holding, Locked, Known, Mine, OwnerAlive, LocInv,
        KnownInv, LeaseInv, StaleInv, GuardInv, StockInv, Leases, LeaseFile,
        NoLease, Malformed, Goto, GuardIs, StockGone, StockAsIs, StartJob,
        DropLock, procVars, guardVars
<1>1. ASSUME NEW q \in Pids, AcquireBegin(q) PROVE Parts'
  BY <1>1 DEF AcquireBegin
<1>2. ASSUME NEW q \in Pids, AcquireLock(q) PROVE Parts'
  BY <1>2 DEF AcquireLock
<1>3. ASSUME NEW q \in Pids, PublishLink(q) PROVE Parts'
  BY <1>3 DEF PublishLink
<1>4. ASSUME NEW q \in Pids, PublishVerify(q) PROVE Parts'
  BY <1>4 DEF PublishVerify
<1>5. ASSUME NEW q \in Pids, PublishRecheck(q) PROVE Parts'
  BY <1>5 DEF PublishRecheck
<1>6. ASSUME NEW q \in Pids, PublishUnlink(q) PROVE Parts'
  <2>1. \A p \in Pids : pc[p] \notin Holding \cup {"published"}
    BY <1>6, LiveIsNotStale DEF PublishUnlink
  <2> QED
    BY <1>6, <2>1 DEF PublishUnlink
<1>7. ASSUME NEW q \in Pids, PublishRelink(q) PROVE Parts'
  BY <1>7 DEF PublishRelink
<1>8. ASSUME NEW q \in Pids, AcquireEnd(q) PROVE Parts'
  BY <1>8 DEF AcquireEnd
<1>9. ASSUME NEW q \in Pids, StopStock(q) PROVE Parts'
  BY <1>9 DEF StopStock
<1>10. ASSUME NEW q \in Pids, Continue(q) PROVE Parts'
  BY <1>10 DEF Continue
<1>11. ASSUME NEW q \in Pids, StartOwned(q) PROVE Parts'
  BY <1>11 DEF StartOwned
<1>12. ASSUME NEW q \in Pids, Relaunch(q) PROVE Parts'
  BY <1>12 DEF Relaunch
<1>13. ASSUME NEW q \in Pids, StopSession(q) PROVE Parts'
  BY <1>13 DEF StopSession
<1>14. ASSUME NEW q \in Pids, Release(q) PROVE Parts'
  <2>1. lease = Mine(q) /\ q # "none"
    BY <1>14 DEF Release
  <2>2. \A p \in Pids \ {q} : pc[p] \notin Holding \cup {"published"}
    BY <2>1, OneHolder
  <2> QED
    BY <1>14, <2>1, <2>2 DEF Release
<1>15. ASSUME NEW q \in Pids, RequestStart(q) PROVE Parts'
  BY <1>15 DEF RequestStart
<1>16. ASSUME NEW q \in Pids, AwaitRestored(q) PROVE Parts'
  BY <1>16 DEF AwaitRestored
<1>17. ASSUME NEW q \in Pids, RestartBegin(q) PROVE Parts'
  BY <1>17 DEF RestartBegin
<1>18. ASSUME NEW q \in Pids, RestartLock(q) PROVE Parts'
  BY <1>18 DEF RestartLock
<1>19. ASSUME NEW q \in Pids, RestartReset(q) PROVE Parts'
  BY <1>19 DEF RestartReset
<1>20. CASE GuardPoll
  BY <1>20 DEF GuardPoll
<1>21. CASE GuardLock
  BY <1>21 DEF GuardLock
<1>22. CASE GuardLockTimeout
  BY <1>22 DEF GuardLockTimeout
<1>23. CASE GuardRead
  BY <1>23 DEF GuardRead
<1>24. CASE GuardVerify
  <2>1. OwnerAlive(gseen) \/ \A p \in Pids : pc[p] \notin Holding \cup {"published"}
    BY <1>24, LiveIsNotStale DEF GuardVerify
  <2> QED
    BY <1>24, <2>1 DEF GuardVerify
<1>25. CASE GuardExec
  BY <1>25 DEF GuardExec
<1>26. CASE Relogin
  BY <1>26 DEF Relogin
<1>27. CASE VendorExit
  BY <1>27 DEF VendorExit
<1>28. CASE Cable
  BY <1>28 DEF Cable
<1>29. CASE Reboot
  BY <1>29 DEF Reboot
<1>30. ASSUME NEW q \in Pids, Start(q) PROVE Parts'
  <2>1. \A l \in Leases : Known(l) /\ ~OwnerAlive(l) => ~OwnerAlive(l)'
    BY <1>30, DeadStaysDead DEF Start
  <2> QED
    BY <1>30, <2>1 DEF Start
<1>31. ASSUME NEW q \in Pids, Die(q) PROVE Parts'
  BY <1>31 DEF Die
<1>32. ASSUME NEW q \in Pids, OwnedExit(q) PROVE Parts'
  BY <1>32 DEF OwnedExit
<1>33. ASSUME NEW q \in Pids, ReusePid(q) PROVE Parts'
  <2>1. \A l \in Leases : Known(l) /\ ~OwnerAlive(l) => ~OwnerAlive(l)'
    BY <1>33, DeadStaysDead DEF ReusePid
  <2> QED
    BY <1>33, <2>1 DEF ReusePid
<1>34. CASE UNCHANGED vars
  BY <1>34 DEF vars
<1> QED
  BY <1>1, <1>2, <1>3, <1>4, <1>5, <1>6, <1>7, <1>8, <1>9, <1>10, <1>11,
     <1>12, <1>13, <1>14, <1>15, <1>16, <1>17, <1>18, <1>19, <1>20, <1>21, <1>22,
     <1>23, <1>24, <1>25, <1>26, <1>27, <1>28, <1>29, <1>30, <1>31, <1>32, <1>33, <1>34
     DEF Next, Acquire, Handoff, Restore, GuardStep, Environment

(* In every reachable state a lease, the lock, the guard and the vendor    *)
(* compositor are related as IndInv says.                                  *)
THEOREM Invariance == Spec => []IndInv
  BY IndInit, IndStep, PTL DEF Spec

-----------------------------------------------------------------------------
(* Type correctness of the handoff's shared and local state. *)
THEOREM TypeCorrect == Spec => []TypeOK
  BY Invariance, PTL DEF IndInv

(* A process that has recorded the lease is the one the lease file names.  *)
THEOREM LeaseOwnership == Spec => []LeaseIsMine
<1>1. IndInv => LeaseIsMine
  BY DEF IndInv, LocInv, LeaseInv, LeaseIsMine
<1> QED
  BY <1>1, Invariance, PTL

(* From a completed stop until the release the vendor compositor is gone.  *)
THEOREM StockExclusion == Spec => []OwnedExcludesStock
<1>1. IndInv => OwnedExcludesStock
  BY DEF IndInv, StockInv, OwnedExcludesStock
<1> QED
  BY <1>1, Invariance, PTL

(* Nothing but its owner's release, restart or death takes the lease of a   *)
(* running process away.                                                    *)
THEOREM ReleaseByOwner == Spec => OnlyOwnerReleases
<1> DEFINE Kept(p) == lease = Mine(p) /\ proc[p].kind # "none" /\ lease' # lease =>
                          pc[p] \in {"release", "rcheck"} \/ proc'[p] # proc[p]
<1>1. ASSUME IndInv, [Next]_vars, NEW p \in Pids, lease = Mine(p),
             proc[p].kind # "none", lease' # lease
      PROVE  pc[p] \in {"release", "rcheck"} \/ proc'[p] # proc[p]
  <2>1. lease \in Leases /\ lease # NoLease
    BY <1>1, MineType DEF IndInv, Leases, NoLease
  <2>2. PICK q \in Pids : \/ PublishLink(q) \/ PublishUnlink(q) \/ PublishRelink(q)
                         \/ Release(q) \/ RestartReset(q) \/ GuardRead
                         \/ GuardVerify \/ Reboot
    BY <1>1 DEF Next, Acquire, Handoff, Restore, GuardStep, Environment, vars,
        AcquireBegin, AcquireLock, PublishVerify, PublishRecheck, AcquireEnd,
        StopStock, Continue, StartOwned, Relaunch, StopSession, RequestStart,
        AwaitRestored, RestartBegin, RestartLock, GuardPoll, GuardLock,
        GuardLockTimeout, GuardExec, Relogin, VendorExit, Cable, Start, Die,
        OwnedExit, ReusePid
  <2>3. CASE PublishUnlink(q) \/ GuardVerify
    BY <1>1, <2>3, LiveIsNotStale DEF PublishUnlink, GuardVerify, Goto, GuardIs
  <2>4. CASE Release(q)
    <3>1. pc[q] = "release"
      BY <2>4 DEF Release, Goto
    <3> QED
      BY <1>1, <3>1, OneHolder DEF Holding
  <2>5. CASE RestartReset(q)
    BY <1>1, <2>5 DEF RestartReset, Goto, Mine
  <2>6. CASE Reboot
    BY <1>1, <2>6 DEF Reboot
  <2>7. CASE PublishLink(q) \/ PublishRelink(q) \/ GuardRead
    BY <1>1, <2>1, <2>7 DEF PublishLink, PublishRelink, GuardRead
  <2> QED
    BY <2>2, <2>3, <2>4, <2>5, <2>6, <2>7
<1>2. IndInv /\ [Next]_vars => [\A p \in Pids : Kept(p)]_vars
  BY <1>1
<1> QED
  BY <1>2, Invariance, PTL DEF Spec, OnlyOwnerReleases

(* Where unlink() does not fail, no lease is left behind by a process that  *)
(* goes on running without it.                                              *)
THEOREM NothingLeaks == ASSUME ~UnlinkFaults PROVE Spec => []NoLeakedLease
<1>1. Init => NoLeakedLease
  BY DEF Init, NoLeakedLease
<1>2. ASSUME IndInv, NoLeakedLease, [Next]_vars PROVE NoLeakedLease'
  <2> SUFFICES ASSUME NEW p \in Pids, (lease = Mine(p) /\ proc[p].kind # "none")'
               PROVE  active'[p] \/ pc'[p] = "published"
    BY DEF NoLeakedLease
  <2>1. CASE \E q \in Pids : PublishLink(q) \/ PublishRelink(q)
    BY <1>2, <2>1 DEF PublishLink, PublishRelink, Goto, Mine, IndInv, TypeOK,
        procVars, NoLeakedLease, LocInv
  <2>2. CASE \E q \in Pids : Release(q) \/ PublishUnlink(q)
    BY <2>2 DEF Release, PublishUnlink, Mine, NoLease
  <2>3. CASE \E q \in Pids : Start(q) \/ ReusePid(q)
    BY <1>2, <2>3 DEF Start, ReusePid, Goto, Mine, IndInv, TypeOK, KnownInv,
        Known, Leases, NoLeakedLease
  <2>4. CASE Reboot
    BY <1>2, <2>4 DEF Reboot
  <2>5. CASE \E q \in Pids : Die(q) \/ RestartReset(q)
    BY <1>2, <2>5 DEF Die, RestartReset, Goto, Mine, IndInv, TypeOK, LocInv,
        procVars, NoLeakedLease, NoLease
  <2>6. CASE GuardRead \/ GuardVerify
    BY <1>2, <2>6 DEF GuardRead, GuardVerify, Mine, NoLease, procVars,
        NoLeakedLease
  <2>7. CASE \E q \in Pids : AcquireEnd(q)
    BY <1>2, <2>7 DEF AcquireEnd, Goto, Mine, IndInv, TypeOK, LocInv, Holding,
        procVars, NoLeakedLease
  <2>8. CASE \E q \in Pids :
               \/ AcquireBegin(q) \/ AcquireLock(q) \/ PublishVerify(q)
               \/ PublishRecheck(q) \/ Handoff(q) \/ RequestStart(q)
               \/ AwaitRestored(q) \/ RestartBegin(q) \/ RestartLock(q)
               \/ OwnedExit(q)
    BY <1>2, <2>8 DEF AcquireBegin, AcquireLock, PublishVerify, PublishRecheck,
        Handoff, StopStock, Continue, StartOwned, Relaunch, StopSession,
        RequestStart, AwaitRestored, RestartBegin, RestartLock, OwnedExit,
        Goto, Mine, IndInv, TypeOK, LocInv, Holding, procVars, NoLeakedLease
  <2>9. CASE \/ GuardPoll \/ GuardLock \/ GuardLockTimeout \/ GuardExec
             \/ Relogin \/ VendorExit \/ Cable \/ UNCHANGED vars
    BY <1>2, <2>9 DEF GuardPoll, GuardLock, GuardLockTimeout, GuardExec, Relogin,
        VendorExit, Cable, vars, Mine, procVars, NoLeakedLease
  <2> QED
    BY <1>2, <2>1, <2>2, <2>3, <2>4, <2>5, <2>6, <2>7, <2>8, <2>9
       DEF Next, Acquire, Restore, GuardStep, Environment
<1> QED
  BY <1>1, <1>2, Invariance, PTL DEF Spec
-----------------------------------------------------------------------------
(* What a step does to the reservation: nothing, or one of the steps of    *)
(* DisplayOwner.                                                           *)
Reserved == {p \in Pids : active[p]}
InUse    == {p \in Pids : Using(p)}
Vendor   == stock = "running"

(* Whoever uses the display has reserved it, and nobody else has. *)
LEMMA UserIsHolder ==
    ASSUME IndInv, NEW p \in Pids, active[p]
    PROVE  Reserved = {p} /\ InUse \subseteq {p}
<1>1. \A q \in Pids : active[q] => q = p
  BY MineType DEF IndInv, LocInv, LeaseInv, Mine, Holding
<1>2. \A q \in Pids : Using(q) => active[q]
  BY DEF IndInv, LocInv, Using, Holding
<1> QED  BY <1>1, <1>2 DEF Reserved, InUse

(* A step that leaves all three alone is a stutter of DisplayOwner. *)
LEMMA OwnerStutter ==
    ASSUME UNCHANGED Reserved, UNCHANGED InUse, UNCHANGED Vendor
    PROVE  UNCHANGED Owner!ownerVars
  BY DEF Reserved, InUse, Vendor, Owner!ownerVars

(* One process moves, the reservations and the vendor stay: who uses the   *)
(* display changes only if that process starts or stops using it.          *)
LEMMA MoveKeepsUse ==
    ASSUME TypeOK, NEW p \in Pids, NEW to \in Locations,
           pc' = [pc EXCEPT ![p] = to],
           Using(p) <=> to \in {"stopped", "start", "held"}
    PROVE  UNCHANGED InUse
  BY DEF TypeOK, Using, InUse

(* Every step of the processes, the guard and the environment is a step of *)
(* DisplayOwner or leaves it alone.                                        *)
LEMMA OwnerStep == IndInv /\ [Next]_vars => [Owner!Next]_(Owner!ownerVars)
<1> SUFFICES ASSUME IndInv, [Next]_vars
             PROVE  Owner!Next \/ UNCHANGED Owner!ownerVars
  OBVIOUS
<1>t. TypeOK
  BY DEF IndInv
<1>1. CASE UNCHANGED vars
  BY <1>1, OwnerStutter DEF vars, Reserved, InUse, Vendor, Using
<1>2. ASSUME NEW p \in Pids,
             \/ AcquireBegin(p) \/ AcquireLock(p) \/ PublishLink(p) \/ PublishVerify(p)
             \/ PublishRecheck(p) \/ PublishUnlink(p) \/ PublishRelink(p)
             \/ RequestStart(p) \/ AwaitRestored(p) \/ RestartBegin(p) \/ RestartLock(p)
             \/ RestartReset(p)
      PROVE  UNCHANGED Owner!ownerVars
  <2>1. UNCHANGED active /\ UNCHANGED Vendor
    BY <1>2 DEF AcquireBegin, AcquireLock, PublishLink, PublishVerify, PublishRecheck,
       PublishUnlink, PublishRelink, RequestStart, AwaitRestored, RestartBegin, RestartLock,
       RestartReset, Vendor, StartJob
  <2>2. PICK to \in Locations : /\ pc' = [pc EXCEPT ![p] = to]
                                /\ ~Using(p) /\ to \notin {"stopped", "start", "held"}
    BY <1>2 DEF AcquireBegin, AcquireLock, PublishLink, PublishVerify, PublishRecheck,
       PublishUnlink, PublishRelink, RequestStart, AwaitRestored, RestartBegin, RestartLock,
       RestartReset, Goto, Using, Locations
  <2>3. UNCHANGED InUse
    BY <1>t, <2>2, MoveKeepsUse
  <2> QED
    BY <2>1, <2>3, OwnerStutter DEF Reserved
<1>3. ASSUME NEW p \in Pids, AcquireEnd(p)
      PROVE  Owner!Next \/ UNCHANGED Owner!ownerVars
  <2>1. CASE pc[p] = "published"
    <3>1. Reserved = {}
      BY <2>1, MineType DEF IndInv, LocInv, LeaseInv, Mine, Holding, Reserved
    <3>2. Reserved' = {p} /\ UNCHANGED Vendor
      BY <1>3, <1>t, <2>1, <3>1 DEF AcquireEnd, Goto, TypeOK, Reserved, Vendor
    <3>3. UNCHANGED InUse
      BY <1>3, <1>t, <2>1 DEF AcquireEnd, Goto, TypeOK, InUse, Using
    <3>4. Owner!Reserve(p)
      BY <3>1, <3>2, <3>3 DEF Owner!Reserve, Reserved, InUse, Vendor
    <3> QED
      BY <3>4 DEF Owner!Next
  <2>2. CASE pc[p] = "refused"
    <3>1. UNCHANGED active /\ UNCHANGED Vendor
      BY <1>3, <2>2 DEF AcquireEnd, Goto, Vendor
    <3>2. UNCHANGED InUse
      BY <1>3, <1>t, <2>2 DEF AcquireEnd, Goto, TypeOK, InUse, Using
    <3> QED
      BY <3>1, <3>2, OwnerStutter DEF Reserved
  <2> QED
    BY <1>3, <2>1, <2>2 DEF AcquireEnd, Goto
<1>4. ASSUME NEW p \in Pids, StopStock(p)
      PROVE  Owner!Next \/ UNCHANGED Owner!ownerVars
  <2>1. active[p] /\ ~Using(p) /\ UNCHANGED Reserved
    BY <1>4 DEF StopStock, Goto, IndInv, LocInv, Holding, Using, Reserved
  <2>2. Reserved = {p} /\ InUse = {}
    BY <2>1, UserIsHolder DEF InUse
  <2>3. CASE pc' = [pc EXCEPT ![p] = "stopped"] /\ StockGone
    <3>1. InUse' = {p} /\ ~Vendor'
      BY <1>t, <2>2, <2>3 DEF TypeOK, InUse, Using, StockGone, Vendor
    <3>2. Owner!TakeOver(p)
      BY <2>1, <2>2, <3>1 DEF Owner!TakeOver, Reserved, InUse, Vendor
    <3> QED
      BY <3>2 DEF Owner!Next
  <2>4. CASE pc' = [pc EXCEPT ![p] = "release"] /\ (StockGone \/ StockAsIs)
    <3>1. UNCHANGED InUse
      BY <1>t, <2>1, <2>4, MoveKeepsUse DEF Locations
    <3>2. ~Vendor' \/ UNCHANGED Vendor
      BY <2>4 DEF StockGone, StockAsIs, Vendor
    <3>3. Owner!VendorEnds \/ UNCHANGED Owner!ownerVars
      BY <2>1, <3>1, <3>2 DEF Owner!VendorEnds, Owner!ownerVars, Reserved, InUse, Vendor
    <3> QED
      BY <3>3 DEF Owner!Next
  <2> QED
    BY <1>4, <2>3, <2>4 DEF StopStock, Goto
<1>5. ASSUME NEW p \in Pids, Continue(p) \/ StartOwned(p) \/ Relaunch(p) \/ StopSession(p)
      PROVE  Owner!Next \/ UNCHANGED Owner!ownerVars
  <2>1. UNCHANGED Reserved /\ UNCHANGED Vendor
    BY <1>5 DEF Continue, StartOwned, Relaunch, StopSession, Reserved, Vendor
  <2>2. PICK to \in Locations : /\ pc' = [pc EXCEPT ![p] = to]
                                /\ to \in {"held", "start", "release", "stop", "idle"}
                                /\ Using(p) \/ pc[p] = to
    BY <1>5 DEF Continue, StartOwned, Relaunch, StopSession, Goto, Using, Locations
  <2>3. CASE Using(p) <=> to \in {"stopped", "start", "held"}
    BY <1>t, <2>1, <2>2, <2>3, MoveKeepsUse, OwnerStutter
  <2>4. CASE Using(p) /\ to \notin {"stopped", "start", "held"}
    <3>1. active[p]
      BY <2>4 DEF IndInv, LocInv, Using, Holding
    <3>2. InUse = {p}
      BY <2>4, <3>1, UserIsHolder DEF InUse
    <3>3. InUse' = {}
      BY <1>t, <2>2, <2>4, <3>2 DEF TypeOK, InUse, Using
    <3>4. Owner!Leave(p)
      BY <2>1, <3>2, <3>3 DEF Owner!Leave, Reserved, InUse, Vendor
    <3> QED
      BY <3>4 DEF Owner!Next
  <2> QED
    BY <2>2, <2>3, <2>4 DEF Using
<1>6. ASSUME NEW p \in Pids, Release(p)
      PROVE  Owner!Next
  <2>1. active[p] /\ ~Using(p) /\ UNCHANGED Vendor
    BY <1>6 DEF Release, Goto, IndInv, LocInv, Holding, Using, Vendor
  <2>2. Reserved = {p} /\ InUse = {}
    BY <2>1, UserIsHolder DEF InUse
  <2>3. Reserved' = {} /\ InUse' = {}
    BY <1>6, <1>t, <2>2 DEF Release, Goto, TypeOK, Reserved, InUse, Using
  <2>4. Owner!Free(p)
    BY <2>1, <2>2, <2>3 DEF Owner!Free, Reserved, InUse, Vendor
  <2> QED
    BY <2>4 DEF Owner!Next
<1>7. ASSUME GuardStep
      PROVE  Owner!Next \/ UNCHANGED Owner!ownerVars
  <2>1. UNCHANGED Reserved /\ UNCHANGED InUse
    BY <1>7 DEF GuardStep, GuardPoll, GuardLock, GuardLockTimeout, GuardRead, GuardVerify,
       GuardExec, Reserved, InUse, Using
  <2>2. CASE GuardExec
    <3>1. InUse = {} /\ Vendor'
      BY <2>2 DEF GuardExec, GuardIs, IndInv, StockInv, InUse, Using, Vendor
    <3>2. Owner!VendorStarts
      BY <2>1, <3>1 DEF Owner!VendorStarts, Reserved, InUse, Vendor
    <3> QED
      BY <3>2 DEF Owner!Next
  <2>3. CASE ~GuardExec
    <3>1. UNCHANGED Vendor
      BY <1>7, <2>3 DEF GuardStep, GuardPoll, GuardLock, GuardLockTimeout, GuardRead,
         GuardVerify, Vendor
    <3> QED
      BY <2>1, <3>1, OwnerStutter
  <2> QED
    BY <2>2, <2>3
<1>8. ASSUME Relogin \/ VendorExit \/ Cable
      PROVE  Owner!Next \/ UNCHANGED Owner!ownerVars
  <2>1. UNCHANGED Reserved /\ UNCHANGED InUse /\ (~Vendor' \/ UNCHANGED Vendor)
    BY <1>8 DEF Relogin, VendorExit, Cable, Reserved, InUse, Using, Vendor
  <2>2. Owner!VendorEnds \/ UNCHANGED Owner!ownerVars
    BY <2>1 DEF Owner!VendorEnds, Owner!ownerVars, Reserved, InUse, Vendor
  <2> QED
    BY <2>2 DEF Owner!Next
<1>9. ASSUME Reboot
      PROVE  Owner!Next
  <2>1. Reserved' = {} /\ InUse' = {} /\ ~Vendor'
    BY <1>9 DEF Reboot, Reserved, InUse, Using, Vendor
  <2>2. Owner!Reboot
    BY <2>1 DEF Owner!Reboot, Reserved, InUse, Vendor
  <2> QED
    BY <2>2 DEF Owner!Next
<1>10. ASSUME NEW p \in Pids, Start(p) \/ OwnedExit(p) \/ ReusePid(p)
       PROVE  UNCHANGED Owner!ownerVars
  <2>1. UNCHANGED Vendor
    BY <1>10 DEF Start, OwnedExit, ReusePid, Vendor
  <2>2. UNCHANGED Reserved
    BY <1>10, <1>t DEF Start, OwnedExit, ReusePid, Goto, IndInv, LocInv, TypeOK, Holding,
       Reserved
  <2>3. UNCHANGED InUse
    BY <1>10, <1>t DEF Start, OwnedExit, ReusePid, Goto, TypeOK, InUse, Using
  <2> QED
    BY <2>1, <2>2, <2>3, OwnerStutter
<1>11. ASSUME NEW p \in Pids, Die(p)
       PROVE  Owner!Next \/ UNCHANGED Owner!ownerVars
  <2>1. UNCHANGED Vendor
    BY <1>11 DEF Die, Vendor
  <2>2. CASE active[p]
    <3>1. Reserved = {p} /\ InUse \subseteq {p}
      BY <2>2, UserIsHolder
    <3>2. Reserved' = {} /\ InUse' = {}
      BY <1>11, <1>t, <3>1 DEF Die, TypeOK, Reserved, InUse, Using
    <3>3. Owner!Free(p)
      BY <2>1, <3>1, <3>2 DEF Owner!Free, Reserved, InUse, Vendor
    <3> QED
      BY <3>3 DEF Owner!Next
  <2>3. CASE ~active[p]
    <3>1. UNCHANGED Reserved
      BY <1>11, <1>t, <2>3 DEF Die, TypeOK, Reserved
    <3>2. ~Using(p)
      BY <2>3 DEF IndInv, LocInv, Using, Holding
    <3>3. UNCHANGED InUse
      BY <1>11, <1>t, <3>2, MoveKeepsUse DEF Die, Locations
    <3> QED
      BY <2>1, <3>1, <3>3, OwnerStutter
  <2> QED
    BY <2>2, <2>3
<1> QED
  BY <1>1, <1>2, <1>3, <1>4, <1>5, <1>6, <1>7, <1>8, <1>9, <1>10, <1>11
     DEF Next, Acquire, Handoff, Restore, Environment

(* StockHandoff implements DisplayOwner: for any number of processes,      *)
(* crashes, reused PIDs and reboots, the lease file, the flock and the     *)
(* guard script of acquire_stock_handoff_lease() and its release give the  *)
(* display to one process at a time, and never to the vendor meanwhile.    *)
THEOREM Refinement == Spec => ImplementsDisplayOwner
<1>1. Init => Owner!Init
  BY DEF Init, Owner!Init, Using
<1> QED
  BY <1>1, OwnerStep, Invariance, PTL DEF Spec, ImplementsDisplayOwner, Owner!Spec
=============================================================================
