--------------------------- MODULE SteamPlacement ---------------------------
(***************************************************************************)
(* Where Steam runs (platform/linux/steam_session.cpp) and what is done    *)
(* about it before a Steam command starts in the Gamescope session and     *)
(* when an owned session stops (steam_command_allowed() and                *)
(* gracefully_shutdown_owned_steam() of steamos_virtual_session.cpp).      *)
(* Steam is a singleton of the user: one that runs on the desktop would    *)
(* take the command.  The process table changes under every step.          *)
(***************************************************************************)
EXTENDS Naturals, FiniteSets

CONSTANTS Pids, Gamescope,  \* process ids (numbers); the compositor's
          MaxBorn           \* bound on processes started

VARIABLES
    proc,      \* pid -> the process, NoProcess when the pid is unused
    born,      \* processes started so far: the next start time
    settings,  \* a session runs, it is owned, an idle Steam may be moved
    step,      \* where the command or the stop is
    scanned,   \* the last start time the scan could see
    candidate, \* the Steam process to shut down
    helper,    \* the forked "steam -shutdown": "none", "running", "zombie"
    location,  \* manager.steam_location
    migration, \* manager.migration_state
    required,  \* manager.migration_required
    outcome    \* of the command or the stop

steamVars == <<proc, born, settings, step, scanned, candidate, helper, location,
               migration, required, outcome>>
taskVars == <<settings, step, scanned, candidate, helper, location, migration,
              required, outcome>>

-----------------------------------------------------------------------------
(* A process as /proc shows it: what it runs, when it started, whose child *)
(* it is, whose display its environment names, whether its control group   *)
(* is a scope of a Steam game, and what of it can be read.  The executable *)
(* of a program that was replaced on disk has no canonical path.           *)
NoProcess == [kind |-> "none", born |-> 0, parent |-> 0, env |-> "none",
              scope |-> FALSE, exe |-> FALSE, meta |-> FALSE]

Process(kind, parent, env, scope, exe, meta) ==
    [kind |-> kind, born |-> 1, parent |-> parent, env |-> env, scope |-> scope,
     exe |-> exe, meta |-> meta]

Views == {<<TRUE, TRUE>>, <<TRUE, FALSE>>, <<FALSE, FALSE>>}

ProcessesAt(pid) ==
    {NoProcess}
    \cup {Process("steam", parent, env, FALSE, v[1], v[2]) :
            parent \in {0, Gamescope}, env \in {"target", "desktop"}, v \in Views}
    \cup {Process("steamwebhelper", parent, "other", FALSE, TRUE, TRUE) :
            parent \in {0} \cup {q \in Pids : q < pid}}
    \cup {Process(kind, parent, "other", TRUE, TRUE, TRUE) :
            kind \in {"reaper", "game"}, parent \in {0} \cup Pids}
    \cup {Process("other", parent, "other", FALSE, TRUE, TRUE) :
            parent \in {0, Gamescope}}

Running == {p \in Pids : proc[p].kind # "none"}

(* executable_name is empty when the executable cannot be resolved. *)
Name(p) == IF proc[p].exe THEN proc[p].kind ELSE ""

(* is_steam_family_process() *)
SteamFamily == {"steam", "steamwebhelper", "reaper"}

-----------------------------------------------------------------------------
(* has_target_parent(): a walk from child to parent that ends at the       *)
(* compositor, of as many steps as there are records at most.              *)
Places == Pids \cup {0, Gamescope}

Walks(n) ==
    {w \in [0 .. n -> Places] :
        \A i \in 1 .. n : w[i - 1] \in Running /\ w[i] = proc[w[i - 1]].parent}

Leads(p, n) == \E w \in Walks(n) : w[0] = p /\ w[n] = Gamescope

HasTargetParentShort(p) == \E n \in 1 .. Cardinality(Running) - 1 : Leads(p, n)

HasTargetParent(p) == \E n \in 1 .. Cardinality(Running) : Leads(p, n)

(* belongs_to_target(): its environment names the endpoint, or it descends *)
(* from the compositor.                                                    *)
BelongsToTarget(p) == proc[p].env = "target" \/ HasTargetParent(p)

(* classify_instance_location() *)
ClassifyMixed ==
    LET family == {p \in Running : Name(p) \in SteamFamily}
    IN  IF \E p \in family : ~proc[p].meta THEN "unknown"
        ELSE IF \E p \in family : BelongsToTarget(p) THEN "inside"
        ELSE IF family # {} THEN "outside"
        ELSE "absent"

Classify ==
    LET family == {p \in Running : Name(p) \in SteamFamily}
    IN  IF \E p \in family : ~proc[p].meta THEN "unknown"
        ELSE IF \E p \in family : ~BelongsToTarget(p) THEN "outside"
        ELSE IF family # {} THEN "inside"
        ELSE "absent"

(* A process in a game's scope, other than the reaper of the game. *)
ActiveGame == \E p \in Running : proc[p].scope /\ Name(p) # "reaper"

(* assess_idle_desktop_migration(): the one Steam, readable, on the        *)
(* desktop's endpoint, and no game.                                        *)
MainSteam == {p \in Running : Name(p) = "steam"}

Idle ==
    IF \/ Cardinality(MainSteam) # 1
       \/ \E p \in MainSteam : ~proc[p].meta \/ proc[p].env # "desktop"
       \/ \E p \in Running : proc[p].scope /\ ~proc[p].meta
    THEN "unknown"
    ELSE IF ActiveGame THEN "active_game" ELSE "idle"

(* select_resident_environment(): the one Steam, in the session. *)
Resident ==
    IF /\ Cardinality(MainSteam) = 1
       /\ \A p \in MainSteam : proc[p].meta /\ BelongsToTarget(p)
    THEN MainSteam ELSE {}

-----------------------------------------------------------------------------
(* steam_migration_allowed(): only a session of its own, with a headless   *)
(* or a nested compositor, and only for Big Picture under auto_idle.       *)
Settings ==
    {s \in [active : BOOLEAN, owned : BOOLEAN, moves : BOOLEAN] :
        (s.owned => s.active) /\ (s.moves => s.owned)}

Nobody == [pid |-> 0, born |-> 0]
Identity(p) == [pid |-> p, born |-> proc[p].born]

Init ==
    /\ proc \in {t \in [Pids -> UNION {ProcessesAt(p) : p \in Pids}] :
                    \A p \in Pids : /\ t[p] \in ProcessesAt(p)
                                    /\ t[p].parent \in Pids => t[t[p].parent].kind # "none"}
    /\ born = 1
    /\ settings \in Settings
    /\ step = "idle" /\ scanned = 0 /\ candidate = Nobody /\ helper = "none"
    /\ location = "none" /\ migration = "none" /\ required = FALSE
    /\ outcome = "none"

(* A process ends; its children are orphans and its pid is free.  Steam    *)
(* ends by itself or because it was asked to.                              *)
Exit(p) ==
    /\ p \in Running
    /\ proc' = [q \in Pids |-> IF q = p THEN NoProcess
                               ELSE IF proc[q].parent = p THEN [proc[q] EXCEPT !.parent = 0]
                               ELSE proc[q]]
    /\ UNCHANGED <<born, taskVars>>

(* The user starts Steam on the desktop, a game, or something else. *)
Start(p, kind) ==
    /\ p \notin Running /\ born < MaxBorn /\ born' = born + 1
    /\ proc' = [proc EXCEPT ![p] =
            [Process(kind, 0, IF kind = "steam" THEN "desktop" ELSE "other",
                     kind = "game", TRUE, TRUE) EXCEPT !.born = born']]
    /\ UNCHANGED taskVars

-----------------------------------------------------------------------------
(* The ends of a command that may not start. *)
RefuseOutside ==
    /\ migration' = "blocked_unknown" /\ required' = settings.owned
    /\ step' = "done" /\ outcome' = "outside_target"

RefuseUnknown ==
    /\ migration' = "blocked_unknown" /\ required' = FALSE
    /\ step' = "done" /\ outcome' = "unverified"

(* steam_command_allowed(): nothing to do without a session; otherwise the *)
(* processes are scanned and Steam is placed.                              *)
CheckCommand ==
    /\ step = "idle"
    /\ IF ~settings.active
       THEN step' = "allowed" /\ scanned' = 0 /\ UNCHANGED <<location, migration, required, outcome>>
       ELSE /\ scanned' = born /\ location' = Classify
            /\ \/ /\ location' \in {"absent", "inside"} /\ step' = "allowed"
                  /\ UNCHANGED <<migration, required, outcome>>
               \/ /\ location' = "outside" /\ settings.moves
                  /\ migration' = "checking_idle" /\ step' = "inspect"
                  /\ UNCHANGED <<required, outcome>>
               \/ location' = "outside" /\ ~settings.moves /\ RefuseOutside
               \/ location' = "unknown" /\ RefuseUnknown
    /\ UNCHANGED <<proc, born, settings, candidate, helper>>

(* inspect_idle_desktop_migration(): a second scan. *)
Inspect ==
    /\ step = "inspect"
    /\ scanned' = born
    /\ IF Idle = "idle"
       THEN /\ candidate' = Identity(CHOOSE p \in MainSteam : TRUE)
            /\ step' = "verify" /\ UNCHANGED <<migration, outcome>>
       ELSE /\ migration' = IF Idle = "active_game" THEN "blocked_active_game"
                            ELSE "blocked_unknown"
            /\ outcome' = Idle /\ step' = "done" /\ UNCHANGED candidate
    /\ UNCHANGED <<proc, born, settings, helper, location, required>>

(* read_process_identity() of the candidate, and the shutdown is asked for *)
(* by a child that runs "steam -shutdown".  fork() may fail, which ends as *)
(* a timeout does.                                                         *)
Verify ==
    /\ step = "verify"
    /\ IF candidate.pid \in Running /\ proc[candidate.pid].born = candidate.born
       THEN migration' = "shutting_down" /\ step' = "fork" /\ UNCHANGED outcome
       ELSE migration' = "blocked_unknown" /\ step' = "done" /\ outcome' = "unverified"
    /\ UNCHANGED <<proc, born, settings, scanned, candidate, helper, location, required>>

Fork ==
    /\ step = "fork"
    /\ \/ helper' = "running" /\ step' = "wait" /\ UNCHANGED <<migration, outcome>>
       \/ /\ migration' = "shutdown_timeout" /\ step' = "done" /\ outcome' = "timeout"
          /\ UNCHANGED helper
    /\ UNCHANGED <<proc, born, settings, scanned, candidate, location, required>>

(* The child ends whenever it likes; only a poll that meets its end, with  *)
(* waitpid(WNOHANG), collects it.                                          *)
HelperEnds ==
    /\ helper = "running" /\ helper' = "zombie"
    /\ UNCHANGED <<proc, born, settings, step, scanned, candidate, location,
                   migration, required, outcome>>

(* classify_steam_shutdown_observation() *)
ObservationTimesOut ==
    IF candidate.pid \notin Running THEN {"migrated"}
    ELSE IF proc[candidate.pid].born # candidate.born THEN {"blocked_unknown"}
    ELSE {"shutting_down", "migrated"}

Observation ==
    IF candidate.pid \notin Running THEN {"migrated"}
    ELSE IF proc[candidate.pid].born # candidate.born THEN {"blocked_unknown"}
    ELSE {"shutting_down", "shutdown_timeout"}

Reaped == IF helper = "zombie" THEN "none" ELSE helper

(* One turn of the wait for the Steam process to go. *)
Poll ==
    /\ step = "wait"
    /\ helper' = Reaped
    /\ \E seen \in Observation :
        /\ migration' = seen
        /\ step' = CASE seen = "migrated" -> "allowed"
                     [] seen = "shutting_down" -> "wait"
                     [] OTHER -> "done"
        /\ location' = IF seen = "migrated" THEN "absent" ELSE location
        /\ required' = IF seen = "migrated" THEN FALSE ELSE required
        /\ outcome' = CASE seen = "blocked_unknown" -> "pid_reused"
                        [] seen = "shutdown_timeout" -> "timeout"
                        [] OTHER -> outcome
    /\ UNCHANGED <<proc, born, settings, scanned, candidate>>

(* The command runs: Steam starts in the session unless it is there.       *)
Launch ==
    /\ step = "allowed"
    /\ \/ born < MaxBorn /\ born' = born + 1
          /\ \E p \in Pids \ Running :
                proc' = [proc EXCEPT ![p] =
                    [Process("steam", Gamescope, "target", FALSE, TRUE, TRUE) EXCEPT !.born = born']]
       \/ MainSteam # {} /\ UNCHANGED <<proc, born>>
    /\ step' = "done" /\ outcome' = "launched"
    /\ UNCHANGED <<settings, scanned, candidate, helper, location, migration, required>>

-----------------------------------------------------------------------------
(* gracefully_shutdown_owned_steam(): the Steam of the session is asked to *)
(* go before its compositor does; without a verified one there is nothing  *)
(* to ask.  This wait collects its child, with a signal if need be.        *)
StopResident ==
    /\ step = "idle" /\ settings.active
    /\ IF Resident = {}
       THEN step' = "done" /\ outcome' = "stopped" /\ UNCHANGED candidate
       ELSE /\ candidate' = Identity(CHOOSE p \in Resident : TRUE)
            /\ step' = "stop verify" /\ UNCHANGED outcome
    /\ UNCHANGED <<proc, born, settings, scanned, helper, location, migration, required>>

StopVerify ==
    /\ step = "stop verify"
    /\ \/ /\ candidate.pid \in Running /\ proc[candidate.pid].born = candidate.born
          /\ helper' = "running" /\ step' = "stop wait" /\ UNCHANGED outcome
       \/ /\ step' = "done" /\ outcome' = "not stopped" /\ UNCHANGED helper
    /\ UNCHANGED <<proc, born, settings, scanned, candidate, location, migration, required>>

StopPoll ==
    /\ step = "stop wait"
    /\ \E seen \in Observation :
        IF seen = "shutting_down"
        THEN helper' = Reaped /\ UNCHANGED <<step, outcome>>
        ELSE /\ helper' = "none" /\ step' = "done"
             /\ outcome' = IF seen = "migrated" THEN "stopped" ELSE "not stopped"
    /\ UNCHANGED <<proc, born, settings, scanned, candidate, location, migration, required>>

(* The caller starts the application or reports the refusal. *)
Done ==
    /\ step = "done" /\ step' = "idle" /\ outcome' = "none" /\ candidate' = Nobody
    /\ helper' = IF helper = "none" THEN "none" ELSE "left"
    /\ UNCHANGED <<proc, born, settings, scanned, location, migration, required>>

Next ==
    \/ \E p \in Pids : Exit(p) \/ \E kind \in {"steam", "game", "other"} : Start(p, kind)
    \/ CheckCommand \/ Inspect \/ Verify \/ Fork \/ HelperEnds \/ Poll \/ Launch
    \/ StopResident \/ StopVerify \/ StopPoll \/ Done

Spec == Init /\ [][Next]_steamVars

-----------------------------------------------------------------------------
(* The ancestors of a process, by their definition: what is in every set   *)
(* that has its parent and the parents of its own members.                 *)
Ancestors(p) ==
    {a \in Places : \A s \in SUBSET Places :
        /\ proc[p].parent \in s
        /\ \A q \in s \cap Running : proc[q].parent \in s
        => a \in s}

(* A Steam command starts in the session only when no Steam that was there *)
(* at the scan runs outside of it: a mixed placement counts as outside,    *)
(* and after a migration the one Steam of the desktop is gone.             *)
OneSteam ==
    step = "allowed" /\ settings.active =>
        \A p \in MainSteam :
            proc[p].born <= scanned => proc[p].env = "target" \/ Gamescope \in Ancestors(p)

(* The walk over the parents finds the compositor whenever it is an        *)
(* ancestor, though it gives up after as many steps as there are records   *)
(* and the compositor may not be among them.                               *)
AncestryIsComplete ==
    \A p \in Running : HasTargetParent(p) <=> Gamescope \in Ancestors(p)

(* No Steam is overlooked: the same for a Steam whose executable was       *)
(* replaced on disk while it runs, whose name the scan cannot tell.        *)
NoHiddenSteam ==
    step = "allowed" /\ settings.active =>
        \A p \in Running : proc[p].kind = "steam" /\ proc[p].born <= scanned
            => proc[p].env = "target" \/ Gamescope \in Ancestors(p)

(* Steam is asked to shut down only while no game runs. *)
NoGameStopped == [][Fork /\ helper' = "running" => ~ActiveGame]_steamVars

(* Nothing of the Steam that was moved is left outside when the command    *)
(* starts, and the child that asked it to go is collected.                 *)
MigratedIsGone ==
    step = "allowed" /\ migration = "migrated" =>
        \A p \in Running : Name(p) \in SteamFamily /\ proc[p].born <= scanned => BelongsToTarget(p)
NoZombieHelper == helper # "left"
=============================================================================
