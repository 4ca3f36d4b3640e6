------------------------------ MODULE Pairing -------------------------------
(***************************************************************************)
(* Pairing of clients (nvhttp.cpp): a client opens a pairing session, the  *)
(* operator approves it with a PIN and waits for the handshake, the client *)
(* goes through three more phases, and a proven PIN authorises its         *)
(* certificate.  Sessions expire, may be cancelled, and the operator's     *)
(* wait has its own deadline.  The list of clients is kept on disk.  A PIN *)
(* is "right" when it is the one the client shows: only then the hashes of *)
(* the last phase agree.                                                   *)
(***************************************************************************)
EXTENDS Naturals, FiniteSets

CONSTANTS
    Devices,       \* clients; each has its certificate
    Uids,          \* the uniqueid values they send
    MaxPending,    \* MAX_PENDING_PAIRING_SESSIONS
    Timeout,       \* PAIRING_SESSION_TIMEOUT
    PingTimeout,   \* config::stream.ping_timeout
    MaxClock,      \* bound on time
    MaxIds         \* bound on the sessions opened

VARIABLES
    pairings,      \* map_id_sess: uniqueid -> its session, or NoPairing
    result,        \* pairing id -> completion->result
    waiter,        \* pin(): "idle", or the id it waits for and how
    clients,       \* client_root: device -> "none", "enabled", "disabled"
    savedClients,  \* the state file
    pairClock,     \* steady_clock::now()
    opened,        \* pairing ids handed out
    approved,      \* ids the operator submitted a PIN for
    answered,      \* id -> what pin() returned to the operator
    pairedBy,      \* device -> the ids that authorised it
    granted        \* devices the operator let in and did not revoke since

pairVars == <<pairings, result, waiter, clients, savedClients, pairClock,
              opened, approved, answered, pairedBy, granted>>

NoPairing == [id |-> 0, device |-> "none", phase |-> "none", right |-> FALSE, expires |-> 0]
PairingIds == 1..MaxIds
Idle == [id |-> 0, deadline |-> 0, late |-> FALSE]

Init ==
    /\ pairings = [u \in Uids |-> NoPairing]
    /\ result = [i \in PairingIds |-> "none"]
    /\ waiter = Idle
    /\ clients = [d \in Devices |-> "none"] /\ savedClients = clients
    /\ pairClock = 0 /\ opened = 0 /\ approved = {}
    /\ answered = [i \in PairingIds |-> "none"]
    /\ pairedBy = [d \in Devices |-> {}] /\ granted = {}

(* expire_pair_sessions_unlocked(), first thing of every operation. *)
Expired(u) == pairings[u].id # 0 /\ pairings[u].expires <= pairClock
Live == [u \in Uids |-> IF Expired(u) THEN NoPairing ELSE pairings[u]]
Expiry == [i \in PairingIds |-> IF result[i] = "none" /\ \E u \in Uids : Expired(u) /\ pairings[u].id = i
                         THEN "failed" ELSE result[i]]

(* complete_pairing(): the first result stands. *)
Completed(i, value) ==
    [Expiry EXCEPT ![i] = IF @ = "none" THEN value ELSE @]

(* getservercert of a client: one session per uniqueid, a bounded number. *)
StartPairing(d, u) ==
    /\ opened < MaxIds
    /\ result' = Expiry
    /\ IF Live[u].id # 0 \/ Cardinality({v \in Uids : Live[v].id # 0}) >= MaxPending
       THEN pairings' = Live /\ UNCHANGED opened
       ELSE /\ opened' = opened + 1
            /\ pairings' = [Live EXCEPT ![u] =
                 [id |-> opened', device |-> d, phase |-> "opened",
                  right |-> FALSE, expires |-> pairClock + Timeout]]
    /\ UNCHANGED <<waiter, clients, savedClients, pairClock, approved,
                   answered, pairedBy, granted>>

Before(phase) ==
    CASE phase = "challenge" -> "cert"
      [] phase = "response" -> "challenge"
      [] phase = "secret" -> "response"

(* clientchallenge and serverchallengeresp; one out of order, or a request *)
(* that is neither, fails the session.                                     *)
Advance(u, phase) ==
    /\ Live[u].id # 0
    /\ IF Live[u].phase = Before(phase)
       THEN /\ pairings' = [Live EXCEPT ![u].phase = phase]
            /\ result' = Expiry
       ELSE /\ pairings' = [Live EXCEPT ![u] = NoPairing]
            /\ result' = Completed(Live[u].id, "failed")
    /\ UNCHANGED <<waiter, clients, savedClients, pairClock, opened, approved,
                   answered, pairedBy, granted>>

(* save_state() may fail, silently. *)
Save(list) == savedClients' \in {list, savedClients}

(* clientpairingsecret: the session ends; a proven PIN adds the client or  *)
(* enables it again.                                                       *)
ProveSecret(u) ==
    LET s == Live[u]
        pairs == s.phase = "response" /\ s.right
    IN  /\ s.id # 0
        /\ pairings' = [Live EXCEPT ![u] = NoPairing]
        /\ result' = Completed(s.id, IF pairs THEN "paired" ELSE "failed")
        /\ IF pairs
           THEN /\ clients' = [clients EXCEPT ![s.device] = "enabled"]
                /\ Save(clients')
                /\ pairedBy' = [pairedBy EXCEPT ![s.device] = @ \cup {s.id}]
                /\ granted' = IF s.id \in approved THEN granted \cup {s.device} ELSE granted
           ELSE UNCHANGED <<clients, savedClients, pairedBy, granted>>
        /\ UNCHANGED <<waiter, pairClock, opened, approved, answered>>

Smaller(a, b) == IF a < b THEN a ELSE b

(* A bug: the PIN is given to whichever session waits for one. *)
SubmitPinAny(i, right) ==
    /\ waiter = Idle /\ approved' = approved \cup {i} /\ result' = Expiry
    /\ \E u \in Uids :
          /\ Live[u].phase = "opened"
          /\ pairings' = [Live EXCEPT ![u].phase = "cert", ![u].right = right]
          /\ waiter' = [id |-> Live[u].id, late |-> FALSE,
                        deadline |-> Smaller(Live[u].expires, pairClock + PingTimeout)]
          /\ UNCHANGED answered
    /\ UNCHANGED <<clients, savedClients, pairClock, opened, pairedBy, granted>>

(* pin(): the request of the browser stays open while the client goes on;  *)
(* a session that is gone or past its first phase is refused at once.      *)
SubmitPin(i, right) ==
    /\ waiter = Idle /\ approved' = approved \cup {i} /\ result' = Expiry
    /\ LET at == {u \in Uids : Live[u].id = i /\ Live[u].phase = "opened"}
       IN  IF at = {}
           THEN /\ answered' = [answered EXCEPT ![i] = IF i \in approved THEN @ ELSE "refused"]
                /\ pairings' = Live /\ UNCHANGED waiter
           ELSE \E u \in at :
                /\ pairings' = [Live EXCEPT ![u].phase = "cert", ![u].right = right]
                /\ waiter' = [id |-> i, late |-> FALSE,
                              deadline |-> Smaller(Live[u].expires, pairClock + PingTimeout)]
                /\ UNCHANGED answered
    /\ UNCHANGED <<clients, savedClients, pairClock, opened, pairedBy, granted>>

Answer(i, value) ==
    /\ answered' = [answered EXCEPT ![i] = value]
    /\ waiter' = Idle

(* The wait ends with a result, *)
PinReturns ==
    /\ waiter # Idle /\ ~waiter.late /\ result[waiter.id] # "none"
    /\ Answer(waiter.id, IF result[waiter.id] = "paired" THEN "paired" ELSE "refused")
    /\ UNCHANGED <<pairings, result, clients, savedClients, pairClock, opened,
                   approved, pairedBy, granted>>

(* or at its deadline, *)
PinTimesOut ==
    /\ waiter # Idle /\ ~waiter.late /\ result[waiter.id] = "none"
    /\ pairClock >= waiter.deadline
    /\ waiter' = [waiter EXCEPT !.late = TRUE]
    /\ UNCHANGED <<pairings, result, clients, savedClients, pairClock, opened,
                   approved, answered, pairedBy, granted>>

(* and then the session is removed, if it is still there. *)
PinCleans ==
    /\ waiter.late
    /\ LET at == {u \in Uids : pairings[u].id = waiter.id}
       IN  /\ pairings' = [u \in Uids |-> IF u \in at THEN NoPairing ELSE pairings[u]]
           /\ result' = IF at = {} \/ result[waiter.id] # "none" THEN result
                        ELSE [result EXCEPT ![waiter.id] = "failed"]
    /\ Answer(waiter.id, "refused")
    /\ UNCHANGED <<clients, savedClients, pairClock, opened, approved,
                   pairedBy, granted>>

(* cancel_pairing(): only before the PIN is submitted. *)
CancelPairing(i) ==
    /\ waiter = Idle
    /\ \E u \in Uids :
          /\ Live[u].id = i /\ Live[u].phase = "opened"
          /\ pairings' = [Live EXCEPT ![u] = NoPairing]
          /\ result' = Completed(i, "failed")
    /\ UNCHANGED <<waiter, clients, savedClients, pairClock, opened, approved,
                   answered, pairedBy, granted>>

(* unpair_client(), set_client_enabled() and erase_all_clients(). *)
SetClients(list) ==
    /\ waiter = Idle /\ clients' = list /\ Save(list)
    /\ granted' = {d \in Devices : list[d] = "enabled"
                                   /\ (d \in granted \/ clients[d] = "disabled")}
    /\ UNCHANGED <<pairings, result, waiter, pairClock, opened, approved,
                   answered, pairedBy>>

Unpair(d) ==
    /\ clients[d] # "none"
    /\ SetClients([clients EXCEPT ![d] = "none"])

SetClientEnabled(d, on) ==
    /\ clients[d] = IF on THEN "disabled" ELSE "enabled"
    /\ SetClients([clients EXCEPT ![d] = IF on THEN "enabled" ELSE "disabled"])

EraseAll == SetClients([d \in Devices |-> "none"])

(* load_state(): what was saved; sessions and waits are gone. *)
RestartHost ==
    /\ clients' = savedClients
    /\ pairings' = [u \in Uids |-> NoPairing]
    /\ waiter' = Idle
    /\ granted' = IF savedClients = clients THEN granted
                  ELSE {d \in Devices : savedClients[d] = "enabled"}
    /\ UNCHANGED <<result, savedClients, pairClock, opened, approved,
                   answered, pairedBy>>

PairTick ==
    /\ pairClock < MaxClock /\ pairClock' = pairClock + 1
    /\ UNCHANGED <<pairings, result, waiter, clients, savedClients, opened,
                   approved, answered, pairedBy, granted>>

Next ==
    \/ \E d \in Devices, u \in Uids : StartPairing(d, u)
    \/ \E u \in Uids : ProveSecret(u) \/ Advance(u, "challenge") \/ Advance(u, "response")
    \/ \E i \in 1..opened : CancelPairing(i) \/ \E right \in BOOLEAN : SubmitPin(i, right)
    \/ PinReturns \/ PinTimesOut \/ PinCleans \/ EraseAll \/ RestartHost \/ PairTick
    \/ \E d \in Devices : Unpair(d) \/ \E on \in BOOLEAN : SetClientEnabled(d, on)

Spec == Init /\ [][Next]_pairVars

-----------------------------------------------------------------------------
(* A client is authorised only by a session the operator approved with its *)
(* own PIN, and after a revocation only by pairing or enabling it again,   *)
(* however sessions expire, are replaced under the same uniqueid or are    *)
(* cut by a restart (a state file that could not be written aside).        *)
OnlyApprovedClients ==
    /\ \A d \in Devices : clients[d] = "enabled" => d \in granted
    /\ \A d \in Devices : pairedBy[d] \subseteq approved

(* "true if Moonlight proves the PIN by completing the handshake, false    *)
(* otherwise": a session pin() reported as refused authorised nobody.      *)
RefusedIsNotPaired ==
    \A d \in Devices : \A i \in pairedBy[d] : answered[i] # "refused"
=============================================================================
