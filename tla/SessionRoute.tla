---------------------------- MODULE SessionRoute ----------------------------
(***************************************************************************)
(* The pure decisions of a launch: which capture source serves it, on      *)
(* which compositor backend, and whether the stock session is handed off.  *)
(* src/src/steamos_virtual_session_core.cpp                                *)
(***************************************************************************)
Modes    == {"off", "auto", "force"}
Policies == {"auto", "existing_gamescope", "owned_private"}
Routes   == {"physical_desktop", "attached_existing",
             "retained_owned_private", "new_owned_private", "reject"}

RouteInputs ==
    [feature   : BOOLEAN,    \* the virtual-display feature is enabled
     mode      : Modes,
     policy    : Policies,
     prefer    : BOOLEAN,    \* the application wants an owned session
     desktop   : BOOLEAN,    \* the application wants the physical desktop
     preflight : BOOLEAN,    \* the owned session is the startup probe's
     capturable : BOOLEAN,   \* a physical desktop can be captured
     kwin      : BOOLEAN,    \* a live KWin endpoint exists
     retained  : BOOLEAN,    \* a compatible owned session is retained
     supported : BOOLEAN,
     existing  : BOOLEAN]    \* a verified stock Gamescope is present

OwnedRoute(i) ==
    IF i.retained THEN "retained_owned_private"
    ELSE IF i.supported THEN "new_owned_private"
    ELSE "reject"

(* Mutant: a capturable desktop goes before a verified stock session. *)
RoutePhysicalFirst(i) ==
    IF i.prefer /\ ~i.preflight THEN OwnedRoute(i)
    ELSE IF ~i.feature \/ i.mode = "off" \/ i.capturable THEN "physical_desktop"
    ELSE IF i.existing THEN "attached_existing"
    ELSE OwnedRoute(i)

(* select_session_route: the first rule that applies. *)
SelectSessionRoute(i) ==
    IF i.prefer /\ ~i.preflight THEN OwnedRoute(i)
    ELSE IF ~i.feature \/ i.mode = "off" THEN "physical_desktop"
    ELSE IF i.existing /\ ~i.kwin THEN "attached_existing"
    ELSE IF i.mode = "force" \/ i.policy = "owned_private" THEN OwnedRoute(i)
    ELSE IF i.policy = "auto" /\ i.desktop /\ i.capturable
         THEN "physical_desktop"
    ELSE IF i.existing /\ (\/ i.policy = "existing_gamescope"
                           \/ ~i.kwin
                           \/ ~i.prefer)
         THEN "attached_existing"
    ELSE IF i.policy = "existing_gamescope" THEN "reject"
    ELSE IF i.capturable THEN "physical_desktop"
    ELSE OwnedRoute(i)

(* route_uses_gamescope_capture *)
UsesGamescopeCapture(route) == route # "physical_desktop"

(* select_stock_handoff_action *)
HandoffOwned(prefer, preflight) == prefer /\ ~preflight

(* physical_desktop_capturable: a connected output and a way to read it. *)
PhysicalDesktopCapturable(connected, scanout) == connected /\ scanout

(* select_owned_backend; "none" where a required mirror cannot be shown.   *)
(* hdrOk: HDR is not asked for, or the host can present it.                *)
Presentations == {"off", "auto", "mirror"}
SelectOwnedBackend(presentation, kwin, connected, hdrOk) ==
    CASE presentation = "off" -> "headless"
      [] presentation # "off" /\ kwin /\ connected /\ hdrOk -> "wayland_nested"
      [] OTHER -> IF presentation = "mirror" THEN "none" ELSE "headless"

-----------------------------------------------------------------------------
(* prepare(): a listed application is an owned request whatever the        *)
(* configuration says, and clears the preflight mark; no caller prefers    *)
(* the physical desktop, since every listed application prefers an owned   *)
(* session; host_supported is constant; a configured owned_private source  *)
(* hides the stock one, a forced fallback does not.                        *)
PrepareInputs ==
    {i \in RouteInputs :
        /\ i.supported
        /\ ~i.desktop
        /\ i.existing /\ i.policy = "owned_private" => i.mode = "force"
        /\ i.prefer => /\ i.feature /\ ~i.preflight
                       /\ i.mode = "force" /\ i.policy = "owned_private"}

(* The contract of docs/STEAMOS_CONNECTION_ROUTE_REDESIGN.md and           *)
(* docs/configuration.md.                                                  *)
AutomaticRoute(i) ==
    IF i.existing THEN "attached_existing"
    ELSE IF i.capturable THEN "physical_desktop"
    ELSE OwnedRoute(i)

OwnedOnly(i) == i.mode = "force" \/ i.policy = "owned_private"

DocumentedRoute(i) ==
    IF i.prefer THEN OwnedRoute(i)
    ELSE IF ~i.feature \/ i.mode = "off" THEN "physical_desktop"
    ELSE IF OwnedOnly(i) THEN OwnedRoute(i)
    ELSE IF i.policy = "existing_gamescope"
         THEN IF i.existing THEN "attached_existing" ELSE "reject"
    ELSE AutomaticRoute(i)

(* Outside the two owned-only settings, the route is the documented one: a *)
(* Moonlight application always gets an owned compositor, the feature's    *)
(* off switches keep physical capture, existing_gamescope fails closed,    *)
(* and automatic mode follows its strict priority.                         *)
RoutedAsDocumented(i) ==
    i.prefer \/ ~OwnedOnly(i) => SelectSessionRoute(i) = DocumentedRoute(i)

(* What the documents say and this model contradicts (README,              *)
(* "Observations"): "force and explicit owned_private select only retained *)
(* or new owned Gamescope"; the settings that ask for an owned session     *)
(* never get the stock one.                                                *)
OwnedOnlyIsOwned(i) ==
    i.feature /\ i.mode # "off" /\ OwnedOnly(i) =>
        SelectSessionRoute(i) # "attached_existing"
=============================================================================
