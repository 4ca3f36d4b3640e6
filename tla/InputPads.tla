------------------------------ MODULE InputPads ------------------------------
(***************************************************************************)
(* Virtual gamepads (input.cpp, virtualhid_input.cpp): the inputs retained *)
(* per client across a pause, the global slots, and the tasks that create, *)
(* rebind, reset, free and destroy them while sessions start, end and are  *)
(* terminated on other threads.                                            *)
(***************************************************************************)
EXTENDS Naturals, Sequences, SequencesExt, FiniteSets

CONSTANTS
    Sessions,     \* stream sessions, each started once
    ClientOf,     \* session -> paired client
    Slots,        \* 1..n: gamepadMask
    Pads,         \* controller numbers of a client
    MaxInputs,    \* bound: inputs allocated
    MaxTasks      \* bound: tasks waiting in the pool

VARIABLES
    retained,     \* client -> the input kept for it, or 0
    holder,       \* session -> the input it uses, 0 before start, Gone after
    pads,         \* input -> controller -> slot, or 0
    mask,         \* gamepadMask
    device,       \* slot -> the session its feedback goes to, or None
    pool,         \* the pool's tasks: <<kind, input, session or slot>>
    back,         \* pending Back-button timers: <<input, controller>>
    inputs        \* inputs allocated

padVars == <<retained, holder, pads, mask, device, pool, back, inputs>>

Gone == MaxInputs + 1
None == "none"
Clients == {ClientOf[s] : s \in Sessions}
Inputs == 1..MaxInputs

Init ==
    /\ retained = [c \in Clients |-> 0]
    /\ holder = [s \in Sessions |-> 0]
    /\ pads = [o \in Inputs |-> [i \in Pads |-> 0]]
    /\ mask = {} /\ device = [x \in Slots |-> None]
    /\ pool = <<>> /\ back = {} /\ inputs = 0

Room == Len(pool) < MaxTasks
Live(s) == holder[s] \in Inputs

(* alloc(): the client's retained input, whose pads the worker then binds  *)
(* to the new session's mailbox, or a new one.                             *)
Start(s) ==
    /\ holder[s] = 0 /\ Room
    /\ LET c == ClientOf[s]
       IN  IF retained[c] # 0
           THEN /\ holder' = [holder EXCEPT ![s] = retained[c]]
                /\ pool' = Append(pool, <<"rebind", retained[c], s>>)
                /\ UNCHANGED <<retained, inputs>>
           ELSE /\ inputs < MaxInputs /\ inputs' = inputs + 1
                /\ holder' = [holder EXCEPT ![s] = inputs + 1]
                /\ retained' = [retained EXCEPT ![c] = inputs + 1]
                /\ UNCHANGED pool
    /\ UNCHANGED <<pads, mask, device, back>>

(* reset() and the end of the session: the worker resets, the session's    *)
(* reference goes.                                                         *)
End(s) ==
    /\ Live(s) /\ Room
    /\ pool' = Append(pool, <<"reset", holder[s], None>>)
    /\ holder' = [holder EXCEPT ![s] = Gone]
    /\ UNCHANGED <<retained, pads, mask, device, back, inputs>>

(* terminate_gamepads(): all clients' inputs, or one client's. *)
Terminate(clients) ==
    LET dropped == {retained[c] : c \in clients} \ {0}
    IN  /\ dropped # {} /\ Room
        /\ retained' = [c \in Clients |->
                           IF c \in clients THEN 0 ELSE retained[c]]
        /\ pool' = Append(pool, <<"destroy", dropped, None>>)
        /\ UNCHANGED <<holder, pads, mask, device, back, inputs>>

(* The gamepads' destructors, once nothing refers to the input. *)
Referenced(o) ==
    \/ o \in {retained[c] : c \in Clients} \cup {holder[s] : s \in Sessions}
    \/ \E n \in DOMAIN pool : o \in (IF pool[n][1] = "destroy"
                                     THEN pool[n][2] ELSE {pool[n][2]})
    \/ \E b \in back : b[1] = o

Destruct(o) ==
    /\ o <= inputs /\ ~Referenced(o) /\ Room
    /\ \E i \in Pads : pads[o][i] # 0
    /\ pool' = Append(pool, <<"free", 0, {pads[o][i] : i \in Pads} \ {0}>>)
    /\ pads' = [pads EXCEPT ![o] = [i \in Pads |-> 0]]
    /\ UNCHANGED <<retained, holder, mask, device, back, inputs>>

-----------------------------------------------------------------------------
(* The pool's worker. *)
FreeSlots(xs) ==
    /\ mask' = mask \ xs
    /\ device' = [x \in Slots |-> IF x \in xs THEN None ELSE device[x]]

NextSlot(x) == x \in Slots \ mask /\ \A y \in Slots \ mask : x <= y

(* alloc_gamepad(): a controller's arrival or first packet; the platform   *)
(* may refuse, and the slot is then given back.                            *)
Arrive(s, i) ==
    /\ Live(s) /\ pads[holder[s]][i] = 0
    /\ \E x \in Slots :
          /\ NextSlot(x)
          /\ pads' = [pads EXCEPT ![holder[s]][i] = x]
          /\ mask' = mask \cup {x}
          /\ device' = [device EXCEPT ![x] = s]
    /\ UNCHANGED <<retained, holder, pool, back, inputs>>

(* A packet whose mask no longer names the controller. *)
Unplug(s, i) ==
    /\ Live(s) /\ pads[holder[s]][i] # 0
    /\ FreeSlots({pads[holder[s]][i]})
    /\ pads' = [pads EXCEPT ![holder[s]][i] = 0]
    /\ UNCHANGED <<retained, holder, pool, back, inputs>>

(* Back held down arms a timer that keeps the input alive. *)
HoldBack(s, i) ==
    /\ Live(s) /\ pads[holder[s]][i] # 0
    /\ back' = back \cup {<<holder[s], i>>}
    /\ UNCHANGED <<retained, holder, pads, mask, device, pool, inputs>>

(* The timer sends Home to the pad's slot, if it still has one. *)
BackFires ==
    \E b \in back :
        /\ back' = back \ {b}
        /\ UNCHANGED <<retained, holder, pads, mask, device, pool, inputs>>

ClearTimers(os) == back' = {b \in back : b[1] \notin os}

(* rebind_input(): a pad whose device is gone gives its slot back.         *)
Rebind ==
    /\ pool # <<>> /\ Head(pool)[1] = "rebind" /\ pool' = Tail(pool)
    /\ LET o == Head(pool)[2]
           lost == {i \in Pads : pads[o][i] # 0
                                 /\ device[pads[o][i]] = None}
           kept == {pads[o][i] : i \in Pads \ lost} \ {0}
       IN  /\ pads' = [pads EXCEPT ![o] =
                          [i \in Pads |-> IF i \in lost THEN 0 ELSE @[i]]]
           /\ mask' = mask \ {pads[o][i] : i \in lost}
           /\ device' = [x \in Slots |-> IF x \in kept THEN Head(pool)[3]
                                         ELSE device[x]]
    /\ UNCHANGED <<retained, holder, back, inputs>>

(* reset_gamepads(): timers are cancelled, the pads stay. *)
ResetPads ==
    /\ pool # <<>> /\ Head(pool)[1] = "reset" /\ pool' = Tail(pool)
    /\ ClearTimers({Head(pool)[2]})
    /\ UNCHANGED <<retained, holder, pads, mask, device, inputs>>

(* A bug: a destroyed pad keeps its number. *)
DestroyKeeps ==
    /\ pool # <<>> /\ Head(pool)[1] = "destroy" /\ pool' = Tail(pool)
    /\ LET os == Head(pool)[2]
       IN  /\ FreeSlots({pads[o][i] : o \in os, i \in Pads})
           /\ ClearTimers(os)
    /\ UNCHANGED <<retained, holder, pads, inputs>>

(* destroy_gamepads() *)
DestroyPads ==
    /\ pool # <<>> /\ Head(pool)[1] = "destroy" /\ pool' = Tail(pool)
    /\ LET os == Head(pool)[2]
       IN  /\ FreeSlots({pads[o][i] : o \in os, i \in Pads})
           /\ pads' = [o \in Inputs |->
                          IF o \in os THEN [i \in Pads |-> 0] ELSE pads[o]]
           /\ ClearTimers(os)
    /\ UNCHANGED <<retained, holder, inputs>>

(* The tasks of ~gamepad_t(). *)
FreePads ==
    /\ pool # <<>> /\ Head(pool)[1] = "free" /\ pool' = Tail(pool)
    /\ FreeSlots(Head(pool)[3])
    /\ UNCHANGED <<retained, holder, pads, back, inputs>>

Next ==
    \/ \E s \in Sessions : Start(s) \/ End(s)
    \/ \E s \in Sessions, i \in Pads : Arrive(s, i) \/ Unplug(s, i)
                                       \/ HoldBack(s, i)
    \/ \E c \in Clients : Terminate({c})
    \/ Terminate(Clients)
    \/ \E o \in Inputs : Destruct(o)
    \/ BackFires \/ Rebind \/ ResetPads \/ DestroyPads \/ FreePads

Spec == Init /\ [][Next]_padVars

-----------------------------------------------------------------------------
Freeing == UNION {IF pool[n][1] = "free" THEN pool[n][3] ELSE {} :
                  n \in DOMAIN pool}
SlotsOf(o) == {pads[o][i] : i \in Pads} \ {0}

(* No slot of gamepadMask leaks and none has two owners, however pauses,   *)
(* resumes, terminations and controllers coming and going interleave: a    *)
(* taken slot belongs to one controller of one input that is still         *)
(* referenced or about to be destructed, or to a queued free, and has a    *)
(* device; a free slot has neither owner nor device.                       *)
SlotsAccounted ==
    /\ mask = (UNION {SlotsOf(o) : o \in Inputs}) \cup Freeing
    /\ \A o, p \in Inputs, i, j \in Pads :
          pads[o][i] # 0 /\ pads[o][i] = pads[p][j] => o = p /\ i = j
    /\ \A o \in Inputs : SlotsOf(o) \cap Freeing = {}
    /\ \A x \in Slots : x \in mask <=> device[x] # None
=============================================================================
