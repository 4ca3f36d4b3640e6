----------------------------- MODULE AppProcess -----------------------------
(***************************************************************************)
(* The process manager that runs the application a client launched: prep   *)
(* commands, the application's process group, and their teardown.  Its     *)
(* state is one global object that several threads call without a lock.    *)
(*                                                                         *)
(*   src/src/process.cpp      proc_t::execute, running, terminate, refresh *)
(*   src/src/nvhttp.cpp       launch, cancel, serverinfo                   *)
(*   src/src/confighttp.cpp   closeApp, saveApp, deleteApp                 *)
(***************************************************************************)
EXTENDS Integers, Sequences

CONSTANTS
    N,           \* number of prep commands of the application
    BigPicture,  \* those whose undo closes Steam Big Picture
    Origins,     \* origins the virtual session may report at a launch
    Threads,     \* callers: "https" (launch, cancel), "http" (serverinfo),
                 \* "web" (close and edit applications)
    Edits        \* applications are edited in the web interface

VARIABLES
    app,       \* _app_id: 1 stands for the launched application
    it,        \* _app_prep_it - _app_prep_begin
    placebo,   \* placebo
    handle,    \* _process and _process_group: "none", "live", "exited"
    deferred,  \* defer_session_steam_undo_
    origin,    \* origin of the virtual session at the last launch
    orphans,   \* an application runs that no handle refers to
    due,       \* undo commands owed: one per prep command that ran
    child,     \* the prep or undo command each thread waits for
    pc,        \* where each thread is
    then,      \* where it returns to, innermost first
    up         \* what its call of running() returned

object == <<app, it, placebo, handle, deferred, origin>>
vars == <<object, orphans, due, child, pc, then, up>>

Preps == 1..N

TypeOK ==
    /\ app \in {-1, 0, 1}
    /\ it \in 0..N
    /\ placebo \in BOOLEAN
    /\ handle \in {"none", "live", "exited"}
    /\ deferred \in BOOLEAN
    /\ origin \in {"none", "attached", "owned"}
    /\ orphans \in BOOLEAN
    /\ due \in [Preps -> -1..2]
    /\ child \in [Threads -> {"none", "run", "exit", "reaped"}]
    /\ pc \in [Threads -> {"idle", "poll", "reap", "kill", "undo", "undowait", "reset",
                            "setup", "prep", "dowait", "spawn", "retry", "off", "dead"}]
    /\ up \in [Threads -> BOOLEAN]

Init ==
    /\ app = 0
    /\ it = 0
    /\ placebo = FALSE
    /\ handle = "none"
    /\ deferred = FALSE
    /\ origin = "none"
    /\ orphans = FALSE
    /\ due = [i \in Preps |-> 0]
    /\ child = [t \in Threads |-> "none"]
    /\ pc = [t \in Threads |-> "idle"]
    /\ then = [t \in Threads |-> <<>>]
    /\ up = [t \in Threads |-> FALSE]

-----------------------------------------------------------------------------
(* Bound on the undo commands counted as owed. *)
Clip(n) == IF n > 2 THEN 2 ELSE IF n < -1 THEN -1 ELSE n

Goto(t, from, to) == pc[t] = from /\ pc' = [pc EXCEPT ![t] = to]

(* A call of terminate() that continues at `next`. *)
Terminate(t, from, next) ==
    /\ Goto(t, from, "kill")
    /\ then' = [then EXCEPT ![t] = <<next>> \o @]

Return(t, from) ==
    /\ Goto(t, from, Head(then[t]))
    /\ then' = [then EXCEPT ![t] = Tail(@)]

(* Requests: /serverinfo asks whether an application runs, /launch and     *)
(* /cancel ask first and go on with the answer, closing an application     *)
(* does not ask.                                                           *)
Request(t, call) ==
    /\ Goto(t, "idle", "poll")
    /\ then' = [then EXCEPT ![t] = <<call>>]
    /\ UNCHANGED <<object, orphans, due, child, up>>

Requests ==
    \/ \E call \in {"launch", "cancel"} : Request("https", call)
    \/ \E t \in Threads \ {"web"} : Request(t, "info")

Close ==
    /\ "web" \in Threads
    /\ Terminate("web", "idle", "idle")
    /\ UNCHANGED <<object, orphans, due, child, up>>

-----------------------------------------------------------------------------
(* running() *)
Running(t) ==
    /\ pc[t] = "poll"
    /\ \/ /\ placebo \/ handle = "live"
          /\ Goto(t, "poll", "reap")
          /\ up' = [up EXCEPT ![t] = app > 0]
          /\ UNCHANGED <<object, then>>
       \/ /\ ~placebo /\ handle = "exited"  \* auto_detach: a quick, clean exit
          /\ Goto(t, "poll", "reap")
          /\ placebo' = TRUE
          /\ up' = [up EXCEPT ![t] = app > 0]
          /\ UNCHANGED <<app, it, handle, deferred, origin, then>>
       \/ /\ ~placebo /\ handle = "exited"
          /\ Terminate(t, "poll", "reap")
          /\ up' = [up EXCEPT ![t] = FALSE]
          /\ UNCHANGED object
       \/ /\ ~placebo /\ handle = "none"
          /\ Goto(t, "poll", "reap")
          /\ up' = [up EXCEPT ![t] = FALSE]
          /\ UNCHANGED <<object, then>>
    /\ UNCHANGED <<orphans, due, child>>

(* Its guard reaps every child that has exited, whoever waits for it; the  *)
(* caller goes on with the answer.                                         *)
Reap(t) ==
    /\ pc[t] = "reap"
    /\ child' = [u \in Threads |-> IF child[u] = "exit" THEN "reaped" ELSE child[u]]
    /\ \/ /\ then[t] = <<"launch">> /\ ~up[t]
          /\ Goto(t, "reap", "kill")
          /\ then' = [then EXCEPT ![t] = <<"setup">>]
       \/ /\ then[t] = <<"cancel">> /\ up[t]
          /\ Goto(t, "reap", "kill")
          /\ then' = [then EXCEPT ![t] = <<"idle">>]
       \/ /\ \/ then[t] = <<"info">>
             \/ then[t] = <<"launch">> /\ up[t]
             \/ then[t] = <<"cancel">> /\ ~up[t]
          /\ Goto(t, "reap", "idle")
          /\ then' = [then EXCEPT ![t] = <<>>]
    /\ UNCHANGED <<object, orphans, due, up>>

-----------------------------------------------------------------------------
(* terminate(): the process group first, then the undo commands backwards. *)
(* An iterator that left the list (two threads undo at once) is undefined  *)
(* behaviour and not followed.                                             *)
Kill(t) ==
    /\ Goto(t, "kill", "undo")
    /\ placebo' = FALSE
    /\ handle' = "none"
    /\ UNCHANGED <<app, it, deferred, origin, orphans, due, child, then, up>>

Undo(t) ==
    /\ it \in Preps
    /\ due' = [due EXCEPT ![it] = Clip(@ - 1)]
    /\ IF deferred /\ it \in BigPicture
       THEN /\ pc[t] = "undo"
            /\ it' = it - 1
            /\ UNCHANGED <<pc, child>>
       ELSE /\ Goto(t, "undo", "undowait")
            /\ child' = [child EXCEPT ![t] = "run"]
            /\ UNCHANGED it
    /\ UNCHANGED <<app, placebo, handle, deferred, origin, orphans, then, up>>

UndoWait(t) ==
    /\ child[t] = "exit"
    /\ Goto(t, "undowait", "undo")
    /\ child' = [child EXCEPT ![t] = "none"]
    /\ it' = it - 1
    /\ UNCHANGED <<app, placebo, handle, deferred, origin, orphans, due, then, up>>

(* Waiting for a child that was reaped throws: a request is abandoned, the *)
(* process dies when the exception leaves execute()'s guard.               *)
UndoThrows(t) ==
    /\ pc[t] = "undowait" /\ child[t] = "reaped"
    /\ IF Head(then[t]) \in {"failed", "retry"}
       THEN pc' = [u \in Threads |-> "dead"]
       ELSE pc' = [pc EXCEPT ![t] = "idle"]
    /\ child' = [child EXCEPT ![t] = "none"]
    /\ then' = [then EXCEPT ![t] = <<>>]
    /\ UNCHANGED <<object, orphans, due, up>>

UndoEnd(t) ==
    /\ it = 0
    /\ Goto(t, "undo", "reset")
    /\ UNCHANGED <<object, orphans, due, child, then, up>>

Reset(t) ==
    /\ pc[t] = "reset"
    /\ app' = -1
    /\ deferred' = FALSE
    /\ IF Head(then[t]) = "failed"
       THEN Goto(t, "reset", "idle") /\ then' = [then EXCEPT ![t] = <<>>]
       ELSE Return(t, "reset")
    /\ UNCHANGED <<it, placebo, handle, origin, orphans, due, child, up>>

-----------------------------------------------------------------------------
(* execute(), after its own terminate(): an unknown application, a refused *)
(* Steam command, or a launch.                                             *)
SetupDefers ==  \* mutant: the undo is deferred in a physical session too
    /\ it' = 0
    /\ origin' \in Origins
    /\ deferred' = TRUE
    /\ Goto("https", "setup", "prep") /\ app' = 1
    /\ UNCHANGED <<placebo, handle, orphans, due, child, then, up>>

Setup ==
    \/ /\ Goto("https", "setup", "idle")
       /\ UNCHANGED <<object, orphans, due, child, then, up>>
    \/ /\ it' = 0
       /\ origin' \in Origins
       /\ deferred' = (origin' \in {"attached", "owned"})
       /\ \/ Goto("https", "setup", "prep") /\ app' = 1
          \/ Goto("https", "setup", "idle") /\ app' = -1
       /\ UNCHANGED <<placebo, handle, orphans, due, child, then, up>>

(* A prep command counts as run, and its undo as owed. *)
Passed ==
    /\ it \in 0..(N - 1)
    /\ it' = it + 1
    /\ due' = [due EXCEPT ![it + 1] = Clip(@ + 1)]

Prep ==
    /\ it \in 0..(N - 1)
    /\ \/ /\ pc["https"] = "prep"  \* no do command
          /\ Passed
          /\ UNCHANGED <<pc, child, then>>
       \/ /\ Goto("https", "prep", "dowait")
          /\ child' = [child EXCEPT !["https"] = "run"]
          /\ UNCHANGED <<it, due, then>>
       \/ /\ Terminate("https", "prep", "failed")
          /\ UNCHANGED <<it, due, child>>
    /\ UNCHANGED <<app, placebo, handle, deferred, origin, orphans, up>>

(* The command succeeded (or the physical Desktop is kept), failed, asks   *)
(* for the owned display, or was reaped by running().                      *)
DoWaitForgets ==  \* mutant: the fallback does not count the command
    /\ child' = [child EXCEPT !["https"] = "none"]
    /\ \/ /\ child["https"] = "exit"
          /\ Goto("https", "dowait", "prep")
          /\ Passed
          /\ UNCHANGED then
       \/ /\ child["https"] \in {"exit", "reaped"}
          /\ Terminate("https", "dowait", "failed")
          /\ UNCHANGED <<it, due>>
       \/ /\ child["https"] = "exit" /\ origin = "none"
          /\ Terminate("https", "dowait", "retry")
          /\ due' = [due EXCEPT ![it + 1] = Clip(@ + 1)]
          /\ UNCHANGED it
    /\ UNCHANGED <<app, placebo, handle, deferred, origin, orphans, up>>

DoWait ==
    /\ child' = [child EXCEPT !["https"] = "none"]
    /\ \/ /\ child["https"] = "exit"
          /\ Goto("https", "dowait", "prep")
          /\ Passed
          /\ UNCHANGED then
       \/ /\ child["https"] \in {"exit", "reaped"}
          /\ Terminate("https", "dowait", "failed")
          /\ UNCHANGED <<it, due>>
       \/ /\ child["https"] = "exit" /\ origin = "none"
          /\ Terminate("https", "dowait", "retry")
          /\ Passed
    /\ UNCHANGED <<app, placebo, handle, deferred, origin, orphans, up>>

PrepEnd ==
    /\ it = N
    /\ Goto("https", "prep", "spawn")
    /\ UNCHANGED <<object, orphans, due, child, then, up>>

(* Without a command the application is a placebo. *)
SpawnUnguarded ==  \* mutant: a failed spawn is not torn down
    /\ \/ /\ Goto("https", "spawn", "idle")
          /\ placebo' = TRUE
          /\ UNCHANGED <<app, handle, orphans, then>>
       \/ /\ Goto("https", "spawn", "idle")
          /\ handle' = "live"
          /\ orphans' = (orphans \/ handle = "live")
          /\ UNCHANGED <<app, placebo, then>>
       \/ /\ Goto("https", "spawn", "idle")
          /\ app' = -1
          /\ UNCHANGED <<placebo, handle, orphans, then>>
    /\ UNCHANGED <<it, deferred, origin, due, child, up>>

Spawn ==
    /\ \/ /\ Goto("https", "spawn", "idle")
          /\ placebo' = TRUE
          /\ UNCHANGED <<handle, orphans, then>>
       \/ /\ Goto("https", "spawn", "idle")
          /\ handle' = "live"
          /\ orphans' = (orphans \/ handle = "live")
          /\ UNCHANGED <<placebo, then>>
       \/ /\ Terminate("https", "spawn", "failed")
          /\ UNCHANGED <<placebo, handle, orphans>>
    /\ UNCHANGED <<app, it, deferred, origin, due, child, up>>

(* /launch repeats execute() when the owned display could be prepared. *)
Retry ==
    /\ \/ Goto("https", "retry", "idle") /\ UNCHANGED then
       \/ Terminate("https", "retry", "setup")
    /\ UNCHANGED <<object, orphans, due, child, up>>

-----------------------------------------------------------------------------
(* refresh(): a new object replaces the global one. *)
Edit ==
    /\ Edits /\ "web" \in Threads /\ pc["web"] = "idle"
    /\ app' = 0
    /\ it' = 0
    /\ placebo' = FALSE
    /\ handle' = "none"
    /\ deferred' = FALSE
    /\ orphans' = (orphans \/ handle = "live")
    /\ UNCHANGED <<origin, due, child, pc, then, up>>

(* deinit_t, once the threads are joined. *)
Shutdown ==
    /\ \A t \in Threads : pc[t] = "idle"
    /\ Terminate("https", "idle", "off")
    /\ UNCHANGED <<object, orphans, due, child, up>>

ChildExits(t) ==
    /\ child[t] = "run"
    /\ child' = [child EXCEPT ![t] = "exit"]
    /\ UNCHANGED <<object, orphans, due, pc, then, up>>

AppExits ==
    /\ handle = "live"
    /\ handle' = "exited"
    /\ UNCHANGED <<app, it, placebo, deferred, origin, orphans, due, child, pc, then, up>>

-----------------------------------------------------------------------------
Step(t) ==
    \/ Running(t) \/ Reap(t) \/ Kill(t) \/ Undo(t) \/ UndoWait(t) \/ UndoThrows(t)
    \/ UndoEnd(t) \/ Reset(t)

Next ==
    \/ Requests \/ Close \/ Edit \/ Shutdown \/ AppExits
    \/ \E t \in Threads : Step(t) \/ ChildExits(t)
    \/ Setup \/ Prep \/ DoWait \/ PrepEnd \/ Spawn \/ Retry

Spec == Init /\ [][Next]_vars

-----------------------------------------------------------------------------
Undoing == \E t \in Threads : pc[t] = "undowait"

(* Prep commands are undone exactly once each and in reverse order: what   *)
(* is owed is at any time a prefix of the list, the one the iterator marks *)
(* (the command being undone no longer counts).                            *)
UndoMatchesDo ==
    \A i \in Preps :
        due[i] = IF i < it \/ (i = it /\ ~Undoing) THEN 1 ELSE 0

(* Whenever the manager says no application runs, nothing of the last one  *)
(* is left: no process, no undo command that was not run.  execute()       *)
(* reaches this on every error path.                                       *)
IdleIsClean ==
    (\A t \in Threads : pc[t] = "idle") /\ app <= 0 =>
        /\ handle = "none" /\ ~placebo
        /\ \A i \in Preps : due[i] = 0

(* "Tracks launched child processes and terminates them during shutdown":  *)
(* after deinit_t no launched application runs and no undo is owed.        *)
TerminatedAtShutdown ==
    pc["https"] = "off" =>
        /\ ~orphans /\ handle = "none" /\ ~placebo
        /\ \A i \in Preps : due[i] = 0

PassesOver ==
    (\E t \in Threads : pc[t] = "undo") /\ pc' = pc /\ it' = it - 1 /\ due' # due

(* "Owned private and physical Desktop sessions retain their configured    *)
(* undo behavior": no undo command is passed over in a physical session,   *)
(* whoever terminates the application and whenever it is edited.           *)
PhysicalUndoRuns == [][PassesOver => origin # "none"]_vars

-----------------------------------------------------------------------------
(* What the repository says and this model contradicts (README,            *)
(* "Findings" and "Observations").                                         *)

(* The same for the owned private sessions the sentence starts with. *)
OwnedUndoRuns == [][PassesOver => origin # "owned"]_vars

(* "This must be synchronized carefully with calls to bp::wait()": a do    *)
(* command is judged by how it exited, never by a reaper that came first.  *)
DoResultSeen ==
    [][pc["https"] = "dowait" /\ pc'["https"] # "dowait" => child["https"] = "exit"]_vars
=============================================================================
