---------------------------- MODULE DisplayOwner ----------------------------
(***************************************************************************)
(* What the stock handoff promises, whatever files, locks and scripts it   *)
(* takes: the display is reserved by one process at a time, the one that   *)
(* reserved it takes it over from the vendor's compositor, and while it    *)
(* uses the display that compositor does not run.  StockHandoff implements *)
(* this specification (ImplementsDisplayOwner).                            *)
(***************************************************************************)
CONSTANT Claimants   \* the processes that may ask for the display

VARIABLES holders,   \* who has reserved the display
          using,     \* who has it to itself
          vendor     \* the vendor's compositor runs

ownerVars == <<holders, using, vendor>>

Init ==
    /\ holders = {}
    /\ using = {}
    /\ vendor = FALSE

(* A reservation is granted when nobody has one; the vendor runs on. *)
Reserve(p) ==
    /\ holders = {}
    /\ holders' = {p}
    /\ UNCHANGED <<using, vendor>>

(* The holder stops the vendor's compositor and has the display. *)
TakeOver(p) ==
    /\ holders = {p}
    /\ using' = {p}
    /\ vendor' = FALSE
    /\ UNCHANGED holders

(* It no longer uses the display, and keeps the reservation. *)
Leave(p) ==
    /\ using = {p}
    /\ using' = {}
    /\ UNCHANGED <<holders, vendor>>

(* The reservation ends, given back or lost with its holder. *)
Free(p) ==
    /\ holders = {p}
    /\ holders' = {}
    /\ using' = {}
    /\ UNCHANGED vendor

VendorStarts ==
    /\ using = {}
    /\ vendor' = TRUE
    /\ UNCHANGED <<holders, using>>

VendorEnds ==
    /\ vendor' = FALSE
    /\ UNCHANGED <<holders, using>>

Reboot ==
    /\ holders' = {}
    /\ using' = {}
    /\ vendor' = FALSE

Next ==
    \/ \E p \in Claimants : Reserve(p) \/ TakeOver(p) \/ Leave(p) \/ Free(p)
    \/ VendorStarts \/ VendorEnds \/ Reboot

Spec == Init /\ [][Next]_ownerVars
=============================================================================
