---------------------------- MODULE StockHandoff ----------------------------
(***************************************************************************)
(* The stock Game Mode handoff: SteamShine processes that take a lease     *)
(* file, stop the vendor's gamescope session, run a compositor of their    *)
(* own and give the session back, against the guard script that holds the  *)
(* vendor launcher while a live lease exists.                              *)
(*                                                                         *)
(*   src/src/steamos_virtual_session.cpp                                   *)
(*     acquire_stock_handoff_lease, restore_stock_session_locked, prepare, *)
(*     stop, cleanup_orphan_sessions, run_display_endpoint_bootstrap,      *)
(*     reset_self_owned_handoff_lease_for_restart                          *)
(*   src/scripts/steamshine-gamescope-session-guard.sh                     *)
(*                                                                         *)
(* A process is named by its PID; its identity is the triple of boot id,   *)
(* PID and start time that the lease records.  PIDs are reused, the start  *)
(* time counter restarts at a reboot, and any process may die at any step. *)
(***************************************************************************)
EXTENDS Naturals, FiniteSets

CONSTANTS
    Pids,         \* PIDs a SteamShine process, or a stranger, may get
    MaxStart,     \* bound: processes born in one boot
    MaxBoot,      \* bound: boots
    UnlinkFaults  \* whether unlink() of the lease may fail on release

ASSUME PidsAssumption == "guard" \notin Pids /\ "none" \notin Pids
ASSUME BoundsAssumption == MaxStart \in Nat /\ MaxBoot \in Nat
ASSUME FaultsAssumption == UnlinkFaults \in BOOLEAN

VARIABLES
    boot,       \* the current boot id
    clock,      \* start time of the youngest process of this boot
    connector,  \* a physical connector reports "connected"
    proc,       \* what runs under each PID, and since when
    lease,      \* stock-session-handoff.lease
    lock,       \* holder of the flock on stock-session-handoff.lock
    pc,         \* where each SteamShine process is
    seen,       \* the lease a process read under the lock
    active,     \* manager.stock_handoff_lease_active
    owned,      \* the compositor a process forked is alive
    stock,      \* gamescope-session.target: nothing, the guard or the vendor
    gpc,        \* where the guard script is
    gseen       \* the lease the guard read under the lock

procVars  == <<boot, clock, proc>>
guardVars == <<gpc, gseen>>
vars == <<boot, clock, connector, proc, lease, lock, pc, seen, active,
          owned, stock, gpc, gseen>>

-----------------------------------------------------------------------------
NoLease   == [tag |-> "none"]
Malformed == [tag |-> "malformed"]  \* unparsable, or not mode 0600
Leases    == [tag : {"lease"}, boot : Nat, pid : Pids, start : Nat]
LeaseFile == Leases \cup {NoLease, Malformed}

Kinds == {"none", "steamshine", "other"}
Locations == {"off", "idle", "lock", "publish", "verify", "recheck", "unlink",
              "link", "published", "refused", "stop", "stopped", "start",
              "held", "release", "restart", "await", "rlock", "rcheck"}
GuardLocations == {"poll", "lock", "read", "verify", "exec"}

TypeOK ==
    /\ boot \in Nat
    /\ clock \in Nat
    /\ connector \in BOOLEAN
    /\ proc \in [Pids -> [kind : Kinds, start : Nat]]
    /\ lease \in LeaseFile
    /\ lock \in Pids \cup {"none", "guard"}
    /\ pc \in [Pids -> Locations]
    /\ seen \in [Pids -> LeaseFile]
    /\ active \in [Pids -> BOOLEAN]
    /\ owned \in [Pids -> BOOLEAN]
    /\ stock \in {"inactive", "guard", "running"}
    /\ gpc \in GuardLocations
    /\ gseen \in LeaseFile

(* Mutant: a lease that records the PID alone. *)
MineByPid(p) == [tag |-> "lease", boot |-> boot, pid |-> p]

(* The contents p writes, and whether a recorded owner is that very process. *)
Mine(p) == [tag |-> "lease", boot |-> boot, pid |-> p, start |-> proc[p].start]
OwnerAlive(l) ==
    /\ l \in Leases
    /\ l.boot = boot
    /\ proc[l.pid].kind # "none"
    /\ proc[l.pid].start = l.start

Init ==
    /\ boot = 0
    /\ clock = 0
    /\ connector \in BOOLEAN
    /\ proc = [p \in Pids |-> [kind |-> "none", start |-> 0]]
    /\ lease \in {NoLease, Malformed}
    /\ lock = "none"
    /\ pc = [p \in Pids |-> "off"]
    /\ seen = [p \in Pids |-> NoLease]
    /\ active = [p \in Pids |-> FALSE]
    /\ owned = [p \in Pids |-> FALSE]
    /\ stock = "inactive"
    /\ gpc = "poll"
    /\ gseen = NoLease

-----------------------------------------------------------------------------
(* Moving one process, and systemd acting on the stock unit: stopping it   *)
(* kills the guard, whose descriptor releases the flock.                   *)
Goto(p, from, to) == pc[p] = from /\ pc' = [pc EXCEPT ![p] = to]
DropLock(who)     == lock' = IF lock = who THEN "none" ELSE lock
StockGone ==
    /\ stock' = "inactive"
    /\ gpc' = "poll"
    /\ gseen' = NoLease
    /\ DropLock("guard")
StockAsIs == UNCHANGED <<stock, guardVars, lock>>
StartJob  == stock' = IF stock = "inactive" THEN "guard" ELSE stock

(* main(): cleanup_orphan_sessions stops whatever uses any directory that  *)
(* carries the SteamShine marker, whichever process made it.               *)
Start(p) ==
    /\ proc[p].kind = "none"
    /\ clock < MaxStart
    /\ clock' = clock + 1
    /\ proc' = [proc EXCEPT ![p] = [kind |-> "steamshine", start |-> clock + 1]]
    /\ Goto(p, "off", "idle")
    /\ owned' = [q \in Pids |-> FALSE]
    /\ active' = [active EXCEPT ![p] = FALSE]
    /\ UNCHANGED <<boot, connector, lease, lock, seen, stock, guardVars>>

-----------------------------------------------------------------------------
(* acquire_stock_handoff_lease.  The complete temporary file exists before *)
(* the lock is requested; a failure up to that point touches nothing       *)
(* shared and is no step here.                                             *)
AcquireBegin(p) ==
    /\ Goto(p, "idle", "lock")
    /\ ~active[p]
    /\ UNCHANGED <<procVars, connector, lease, lock, seen, active, owned,
                   stock, guardVars>>

AcquireLock(p) ==
    /\ Goto(p, "lock", "publish")
    /\ lock = "none"
    /\ lock' = p
    /\ UNCHANGED <<procVars, connector, lease, seen, active, owned, stock,
                   guardVars>>

(* link() never overwrites; on EEXIST the existing file is read, and one   *)
(* that cannot be trusted refuses the launch.                              *)
PublishLink(p) ==
    /\ \/ /\ lease = NoLease
          /\ lease' = Mine(p)
          /\ Goto(p, "publish", "published")
          /\ UNCHANGED seen
       \/ /\ lease = Malformed
          /\ Goto(p, "publish", "refused")
          /\ UNCHANGED <<lease, seen>>
       \/ /\ lease \in Leases
          /\ seen' = [seen EXCEPT ![p] = lease]
          /\ Goto(p, "publish", "verify")
          /\ UNCHANGED lease
    /\ UNCHANGED <<procVars, connector, lock, active, owned, stock, guardVars>>

(* Mutant: any existing lease counts as stale. *)
PublishVerifyUnchecked(p) ==
    /\ Goto(p, "verify", "recheck")
    /\ UNCHANGED <<procVars, connector, lease, lock, seen, active, owned,
                   stock, guardVars>>

(* lease_held_by_live_owner; lease_owner_unverifiable when a process has   *)
(* the PID but its identity cannot be read; otherwise the lease is stale.  *)
PublishVerify(p) ==
    /\ \/ /\ Goto(p, "verify", "refused")
          /\ OwnerAlive(seen[p])
       \/ /\ Goto(p, "verify", "refused")
          /\ ~OwnerAlive(seen[p])
          /\ seen[p].boot = boot
          /\ proc[seen[p].pid].kind = "other"
       \/ /\ Goto(p, "verify", "recheck")
          /\ ~OwnerAlive(seen[p])
    /\ UNCHANGED <<procVars, connector, lease, lock, seen, active, owned,
                   stock, guardVars>>

(* lstat() must still show the inode that was read. *)
PublishRecheck(p) ==
    /\ Goto(p, "recheck", IF lease = seen[p] THEN "unlink" ELSE "refused")
    /\ UNCHANGED <<procVars, connector, lease, lock, seen, active, owned,
                   stock, guardVars>>

PublishUnlink(p) ==
    /\ Goto(p, "unlink", IF lease = NoLease THEN "refused" ELSE "link")
    /\ lease' = NoLease
    /\ UNCHANGED <<procVars, connector, lock, seen, active, owned, stock,
                   guardVars>>

PublishRelink(p) ==
    /\ Goto(p, "link", IF lease = NoLease THEN "published" ELSE "refused")
    /\ lease' = IF lease = NoLease THEN Mine(p) ELSE lease
    /\ UNCHANGED <<procVars, connector, lock, seen, active, owned, stock,
                   guardVars>>

(* The lock is dropped, then prepare() records what it got. *)
AcquireEnd(p) ==
    /\ \/ /\ Goto(p, "published", "stop")
          /\ active' = [active EXCEPT ![p] = TRUE]
       \/ /\ Goto(p, "refused", "idle")
          /\ UNCHANGED active
    /\ seen' = [seen EXCEPT ![p] = NoLease]
    /\ DropLock(p)
    /\ UNCHANGED <<procVars, connector, lease, owned, stock, guardVars>>

-----------------------------------------------------------------------------
(* prepare(): systemctl --user stop, then the stock source must be gone.   *)
(* A stop that fails, times out or leaves the source behind releases.      *)
StopStock(p) ==
    /\ \/ /\ Goto(p, "stop", "stopped")
          /\ StockGone
       \/ /\ Goto(p, "stop", "release")
          /\ StockGone \/ StockAsIs
    /\ UNCHANGED <<procVars, connector, lease, seen, active, owned>>

(* What prepare() does once the stock session is gone: reuse a retained    *)
(* compositor, refuse because a session is already active or the request   *)
(* cannot be met (its failure guard then releases the lease), or drop the  *)
(* old compositor and start a new one.                                     *)
Continue(p) ==
    /\ \/ /\ owned[p]
          /\ Goto(p, "stopped", "held")
          /\ UNCHANGED owned
       \/ /\ Goto(p, "stopped", "release")
          /\ UNCHANGED owned
       \/ /\ Goto(p, "stopped", "start")
          /\ owned' = [owned EXCEPT ![p] = FALSE]
    /\ UNCHANGED <<procVars, connector, lease, lock, seen, active, stock,
                   guardVars>>

StartOwned(p) ==
    /\ \/ /\ Goto(p, "start", "held")
          /\ owned' = [owned EXCEPT ![p] = TRUE]
       \/ /\ Goto(p, "start", "release")
          /\ UNCHANGED owned
    /\ UNCHANGED <<procVars, connector, lease, lock, seen, active, stock,
                   guardVars>>

(* The next client launch while the lease is held does not acquire again. *)
Relaunch(p) ==
    /\ Goto(p, "held", "stop")
    /\ UNCHANGED <<procVars, connector, lease, lock, seen, active, owned,
                   stock, guardVars>>

(* stop(): kill the owned process group, then restore. *)
StopSession(p) ==
    /\ \/ Goto(p, "held", "release")
       \/ Goto(p, "idle", "idle") /\ owned[p]
    /\ owned' = [owned EXCEPT ![p] = FALSE]
    /\ UNCHANGED <<procVars, connector, lease, lock, seen, active, stock,
                   guardVars>>

(* Mutant: the manager forgets the lease and leaves the file. *)
ReleaseKeepsFile(p) ==
    /\ Goto(p, "release", "restart")
    /\ active' = [active EXCEPT ![p] = FALSE]
    /\ UNCHANGED <<procVars, connector, lease, lock, seen, owned, stock, guardVars>>

(* restore_stock_session_locked: unlink without the lock, forget the lease, *)
(* request the start job, and wait for the stock source to be verified (or  *)
(* for the timeout; the outcome is only reported).                          *)
Release(p) ==
    /\ Goto(p, "release", "restart")
    /\ \/ lease' = NoLease
       \/ UnlinkFaults /\ UNCHANGED lease
    /\ active' = [active EXCEPT ![p] = FALSE]
    /\ UNCHANGED <<procVars, connector, lock, seen, owned, stock, guardVars>>

RequestStart(p) ==
    /\ \/ /\ Goto(p, "restart", IF connector THEN "await" ELSE "idle")
          /\ StartJob
       \/ /\ Goto(p, "restart", "idle")
          /\ UNCHANGED stock
    /\ UNCHANGED <<procVars, connector, lease, lock, seen, active, owned,
                   guardVars>>

AwaitRestored(p) ==
    /\ Goto(p, "await", "idle")
    /\ UNCHANGED <<procVars, connector, lease, lock, seen, active, owned,
                   stock, guardVars>>

(* reset_self_owned_handoff_lease_for_restart, which runs after main() has *)
(* stopped the session, then execv: the PID and the start time survive,    *)
(* the manager's memory does not.                                          *)
RestartBegin(p) ==
    /\ Goto(p, "idle", "rlock")
    /\ lease # NoLease
    /\ ~owned[p]
    /\ UNCHANGED <<procVars, connector, lease, lock, seen, active, owned,
                   stock, guardVars>>

RestartLock(p) ==
    /\ Goto(p, "rlock", "rcheck")
    /\ lock = "none"
    /\ lock' = p
    /\ UNCHANGED <<procVars, connector, lease, seen, active, owned, stock,
                   guardVars>>

RestartReset(p) ==
    /\ Goto(p, "rcheck", "idle")
    /\ DropLock(p)
    /\ \/ /\ lease = Mine(p)
          /\ lease' = NoLease
          /\ StartJob \/ UNCHANGED stock
       \/ lease # Mine(p) /\ UNCHANGED <<lease, stock>>
    /\ UNCHANGED <<procVars, connector, seen, active, owned, guardVars>>

-----------------------------------------------------------------------------
(* The guard script.  `until connected && ! live_handoff_lease`: a lease   *)
(* is looked at only while a connector is there.                           *)
GuardIs(from, to) == stock = "guard" /\ gpc = from /\ gpc' = to

(* Mutant: the guard waits for a connector alone. *)
GuardPollConnector ==
    /\ connector
    /\ GuardIs("poll", "exec")
    /\ UNCHANGED <<procVars, connector, lease, lock, pc, seen, active,
                   owned, stock, gseen>>

GuardPoll ==
    /\ connector
    /\ GuardIs("poll", IF lease = NoLease THEN "exec" ELSE "lock")
    /\ UNCHANGED <<procVars, connector, lease, lock, pc, seen, active,
                   owned, stock, gseen>>

(* flock -w 5; a timeout counts as a live lease. *)
GuardLock ==
    /\ GuardIs("lock", "read")
    /\ lock = "none"
    /\ lock' = "guard"
    /\ UNCHANGED <<procVars, connector, lease, pc, seen, active, owned, stock, gseen>>

(* Mutant: a lock that cannot be had in time makes the lease stale. *)
GuardLockTimeoutStale ==
    /\ GuardIs("lock", "exec")
    /\ lock # "none"
    /\ lease' = NoLease
    /\ UNCHANGED <<procVars, connector, lock, pc, seen, active, owned, stock,
                   gseen>>

GuardLockTimeout ==
    /\ GuardIs("lock", "poll")
    /\ lock # "none"
    /\ UNCHANGED <<procVars, connector, lease, lock, pc, seen, active,
                   owned, stock, gseen>>

GuardRead ==
    /\ \/ /\ lease \notin Leases
          /\ GuardIs("read", "exec")
          /\ lease' = NoLease
          /\ DropLock("guard")
          /\ UNCHANGED gseen
       \/ /\ lease \in Leases
          /\ GuardIs("read", "verify")
          /\ gseen' = lease
          /\ UNCHANGED <<lease, lock>>
    /\ UNCHANGED <<procVars, connector, pc, seen, active, owned,
                   stock>>

(* Mutant: any process under the recorded PID keeps the lease alive. *)
GuardVerifyByPid ==
    /\ \/ /\ GuardIs("verify", "poll")
          /\ proc[gseen.pid].kind # "none"
          /\ UNCHANGED lease
       \/ /\ GuardIs("verify", "exec")
          /\ proc[gseen.pid].kind = "none"
          /\ lease' = NoLease
    /\ gseen' = NoLease
    /\ DropLock("guard")
    /\ UNCHANGED <<procVars, connector, pc, seen, active, owned, stock>>

(* rm -f removes the path, whatever is there by now. *)
GuardVerify ==
    /\ \/ GuardIs("verify", "poll") /\ OwnerAlive(gseen) /\ UNCHANGED lease
       \/ GuardIs("verify", "exec") /\ ~OwnerAlive(gseen) /\ lease' = NoLease
    /\ gseen' = NoLease
    /\ DropLock("guard")
    /\ UNCHANGED <<procVars, connector, pc, seen, active, owned, stock>>

GuardExec ==
    /\ GuardIs("exec", "poll")
    /\ stock' = "running"
    /\ UNCHANGED <<procVars, connector, lease, lock, pc, seen, active,
                   owned, gseen>>

-----------------------------------------------------------------------------
(* The environment: SDDM logs in again (Relogin=true), the vendor session  *)
(* ends, cables move, processes die, PIDs are reused, the machine reboots. *)
Relogin ==
    /\ stock = "inactive"
    /\ stock' = "guard"
    /\ UNCHANGED <<procVars, connector, lease, lock, pc, seen, active,
                   owned, guardVars>>

VendorExit ==
    /\ stock = "running"
    /\ stock' = "inactive"
    /\ UNCHANGED <<procVars, connector, lease, lock, pc, seen, active,
                   owned, guardVars>>

Cable ==
    /\ connector' = ~connector
    /\ UNCHANGED <<procVars, lease, lock, pc, seen, active, owned,
                   stock, guardVars>>

(* The kernel drops the flock and the manager's memory; the compositor      *)
(* lives on until its bootstrap child misses the owner.                     *)
Die(p) ==
    /\ proc[p].kind # "none"
    /\ proc' = [proc EXCEPT ![p] = [kind |-> "none", start |-> 0]]
    /\ pc' = [pc EXCEPT ![p] = "off"]
    /\ active' = [active EXCEPT ![p] = FALSE]
    /\ seen' = [seen EXCEPT ![p] = NoLease]
    /\ DropLock(p)
    /\ UNCHANGED <<boot, clock, connector, lease, owned, stock, guardVars>>

OwnedExit(p) ==
    /\ owned[p]
    /\ owned' = [owned EXCEPT ![p] = FALSE]
    /\ UNCHANGED <<procVars, connector, lease, lock, pc, seen, active,
                   stock, guardVars>>

ReusePid(p) ==
    /\ proc[p].kind = "none"
    /\ clock < MaxStart
    /\ clock' = clock + 1
    /\ proc' = [proc EXCEPT ![p] = [kind |-> "other", start |-> clock + 1]]
    /\ UNCHANGED <<boot, connector, lease, lock, pc, seen, active, owned, stock, guardVars>>

Reboot ==
    /\ boot < MaxBoot
    /\ boot' = boot + 1
    /\ clock' = 0
    /\ proc' = [p \in Pids |-> [kind |-> "none", start |-> 0]]
    /\ lease' \in {lease, NoLease}     \* /run/user is usually a fresh tmpfs
    /\ lock' = "none"
    /\ pc' = [p \in Pids |-> "off"]
    /\ active' = [p \in Pids |-> FALSE]
    /\ owned' = [p \in Pids |-> FALSE]
    /\ stock' = "inactive"
    /\ gpc' = "poll"
    /\ seen' = [p \in Pids |-> NoLease]
    /\ gseen' = NoLease
    /\ UNCHANGED connector

-----------------------------------------------------------------------------
Acquire(p) ==
    \/ AcquireBegin(p) \/ AcquireLock(p) \/ PublishLink(p)
    \/ PublishVerify(p) \/ PublishRecheck(p) \/ PublishUnlink(p)
    \/ PublishRelink(p) \/ AcquireEnd(p)

Handoff(p) ==
    \/ StopStock(p) \/ Continue(p) \/ StartOwned(p) \/ Relaunch(p)
    \/ StopSession(p)

Restore(p) ==
    \/ Release(p) \/ RequestStart(p) \/ AwaitRestored(p)
    \/ RestartBegin(p) \/ RestartLock(p) \/ RestartReset(p)

GuardStep ==
    \/ GuardPoll \/ GuardLock \/ GuardLockTimeout \/ GuardRead \/ GuardVerify \/ GuardExec

Environment ==
    \/ Relogin \/ VendorExit \/ Cable \/ Reboot
    \/ \E p \in Pids : Start(p) \/ Die(p) \/ OwnedExit(p) \/ ReusePid(p)

Next ==
    \/ \E p \in Pids : Acquire(p) \/ Handoff(p) \/ Restore(p)
    \/ GuardStep
    \/ Environment

Spec == Init /\ [][Next]_vars

(* The guard keeps polling, SDDM keeps logging in, a call that was begun    *)
(* runs on (its waits are bounded by timeouts).  The flock is strongly fair *)
(* to the guard and its 5 s wait does not time out for ever: holders keep   *)
(* the lock for a few system calls.  Launches, stops, cables and crashes    *)
(* are not fair.                                                            *)
Ongoing(p) ==
    \/ AcquireLock(p) \/ PublishLink(p) \/ PublishVerify(p)
    \/ PublishRecheck(p) \/ PublishUnlink(p) \/ PublishRelink(p)
    \/ AcquireEnd(p) \/ StopStock(p) \/ Continue(p) \/ StartOwned(p)
    \/ Release(p) \/ RequestStart(p) \/ AwaitRestored(p)
    \/ RestartLock(p) \/ RestartReset(p)

Fairness ==
    /\ WF_vars(GuardStep)
    /\ SF_vars(GuardLock)
    /\ <>[][~GuardLockTimeout]_vars
    /\ WF_vars(Relogin)
    /\ \A p \in Pids : WF_vars(Ongoing(p))

FairSpec == Spec /\ Fairness

-----------------------------------------------------------------------------
(* A process that believes it holds the lease is the one the file names:   *)
(* neither the guard's rm -f, nor another instance's stale-owner recovery, *)
(* nor an unlocked release ever removes or replaces it.  Two processes     *)
(* therefore never both hold it.                                           *)
LeaseIsMine == \A p \in Pids : active[p] => lease = Mine(p)

(* Between a completed stop and the release, the vendor compositor does    *)
(* not run: a launcher that passed the guard before the lease appeared is  *)
(* killed by the stop, and one started later is held.                      *)
OwnedExcludesStock ==
    \A p \in Pids : pc[p] \in {"stopped", "start", "held"} => stock # "running"

(* Without unlink() failures a lease that names a running process is held  *)
(* by it or about to be: no lease outlives the session it was taken for    *)
(* and blocks both the launcher and the owner's own next launch.           *)
NoLeakedLease ==
    \A p \in Pids :
        lease = Mine(p) /\ proc[p].kind # "none" =>
            active[p] \/ pc[p] = "published"

(* Only its owner removes the lease of a running process: a step that      *)
(* changes it is the owner's release, its restart reset, or its death.     *)
OnlyOwnerReleases ==
    [][\A p \in Pids :
          lease = Mine(p) /\ proc[p].kind # "none" /\ lease' # lease =>
              pc[p] \in {"release", "rcheck"} \/ proc'[p] # proc[p]]_vars

(* The stock launcher resumes: once a connector stays and no running       *)
(* process is named by the lease any more (release, failed launch, crash,  *)
(* PID reuse, reboot, malformed file), the vendor session runs again, and  *)
(* again after each time it ends.                                          *)
StockResumes ==
    <>[](connector /\ ~OwnerAlive(lease)) => []<>(stock = "running")

(* The lease, the lock, the guard and the unit implement DisplayOwner: the *)
(* process that believes it holds the lease has reserved the display, and  *)
(* uses it between a completed stop and the release.                       *)
Using(p) == pc[p] \in {"stopped", "start", "held"}

Owner == INSTANCE DisplayOwner WITH
    Claimants <- Pids,
    holders <- {p \in Pids : active[p]},
    using <- {p \in Pids : Using(p)},
    vendor <- stock = "running"

ImplementsDisplayOwner == Owner!Spec

-----------------------------------------------------------------------------
(* What the repository says and this model contradicts (README,            *)
(* "Findings" and "Observations").                                         *)

(* config.h: cleanup of orphan sessions removes "only runtime directories  *)
(* owned by this instance", so a starting process leaves the compositor of *)
(* another running process alone.                                          *)
StartSparesLiveSessions ==
    [][\A p \in Pids :
          proc[p].kind = "steamshine" /\ proc'[p] = proc[p] /\ clock' > clock =>
              owned'[p] = owned[p]]_vars
=============================================================================
