----------------------------- MODULE WebSettings -----------------------------
(***************************************************************************)
(* What the web interfaces save (confighttp.cpp, web_services.cpp,         *)
(* steamshine_gpuctl.cpp, steamshine_gamepad_shortcuts.cpp): the           *)
(* configuration file, which six handlers read, change and write back, the *)
(* application list, the stream profiles of the clients, which stream      *)
(* threads also read and teach, and the performance profiles, which a      *)
(* privileged helper writes to the hardware one field after the other.     *)
(***************************************************************************)
EXTENDS Naturals, Sequences, SequencesExt, FiniteSetsExt

CONSTANTS
    Owned,        \* keys with an API of their own (gpu, shortcuts, turbo, x52)
    Plain,        \* keys of the settings pages
    Values,       \* 1..n: values of a key
    Names,        \* application names, 1..n in sorting order
    Clients, Networks,
    DefaultNetwork, \* of a client registered by its first connection
    MaxApps,      \* bound: applications
    MaxProfiles,  \* 64 in the code
    Customs,      \* names of custom performance profiles
    CustomSettings, \* what they ask for: power, cpu and clock offset
    Lowest, Highest, \* the power limits of the GPU
    Cards         \* what the hardware supports: gpu, overdrive, cpu

VARIABLES
    file,         \* the configuration file: key -> value, 0 absent
    live,         \* config::sunshine: what runs with the owned keys
    page,         \* an upstream settings page loaded earlier, <<>> if none
    apps, served, \* the application file; the list proc works with
    profiles,     \* profiles_: <<client, network>> -> [active, learned]
    kept,         \* the profile file
    acked,        \* history: the owned values last acknowledged
    torn,         \* history: a crash cut a write of the file short
    card, granted, \* the hardware; the helper may be run
    caps,         \* g_capabilities
    hw,           \* <<power, level, cpu, clock>> as the hardware has them
    library,      \* the custom profiles that are stored
    chosen,       \* steamshine_gpu_active_profile
    told,         \* history: the activation that was acknowledged last
    restored      \* history: this start put the chosen profile back

storeVars == <<file, live, page, apps, served, profiles, kept, acked, torn>>
gpuVars == <<card, granted, caps, hw, library, chosen, told, restored>>
settingVars == <<storeVars, gpuVars>>

Keys == Owned \cup Plain
ProfileKeys == Clients \X Networks
Absent == [active |-> FALSE, learned |-> 0, there |-> FALSE]

-----------------------------------------------------------------------------
(* The performance profiles (steamshine_gpuctl.cpp). *)
None == [power |-> 0, cpu |-> 0, clock |-> 0]
Nothing == [name |-> "none", wants |-> <<>>, full |-> FALSE]
Defaults == <<Highest, 0, 0, 0>>
Skip == 99      \* "-": the helper leaves the field alone
Unoffered == 9  \* a governor the CPU does not offer

(* detect(): an unprivileged reading of a suspended GPU has no limits.     *)
Detected(may) ==
    {[authorized |-> may, power |-> card.gpu /\ readable, od |-> card.od] :
        readable \in BOOLEAN}

(* refresh_capabilities(): what a probe says, if there is one; else what   *)
(* was known.                                                              *)
Refreshed ==
    {[caps EXCEPT !.authorized = granted,
                  !.power = @ \/ (granted /\ probed /\ card.gpu)] : probed \in BOOLEAN}

(* builtin_profiles(), scaled to the limits that are known.                *)
Builtins == {"Silent", "OC"}
Builtin(name, c) ==
    [power |-> IF ~c.power THEN 0 ELSE IF name = "OC" THEN Highest ELSE Lowest,
     cpu |-> IF name = "OC" THEN 2 ELSE 1,
     clock |-> IF name = "OC" /\ c.od THEN 1 ELSE 0]

Known(name) == name \in Builtins \/ (name \in Customs /\ library[name] # None)
Resolved(name, c) == IF name \in Builtins THEN Builtin(name, c) ELSE library[name]

(* The arguments of the helper for a profile. *)
Arguments(t, c) ==
    <<IF c.power THEN t.power ELSE Skip,
      IF ~card.gpu THEN Skip ELSE IF t.clock # 0 THEN 1 ELSE 0,
      IF card.cpu THEN t.cpu ELSE Skip,
      IF c.od /\ t.clock # 0 THEN t.clock ELSE Skip>>

Wrote(from, args, k) ==
    [i \in 1..4 |-> IF i <= k /\ args[i] # Skip THEN args[i] ELSE from[i]]

(* run_runtime_helper(): the fields it may get through, none if it must    *)
(* not be run; it checks and writes one after the other and stops at the   *)
(* first that it refuses or that fails.                                    *)
LastField(args) ==
    CASE ~granted -> 0
      [] granted /\ args[3] = Unoffered -> 2
      [] OTHER -> 4

(* apply_profile(): what may become of the hardware, and the answer.       *)
Outcomes(from, t, c) ==
    LET args == Arguments(t, c)
        inRange == t.power \in Lowest..Highest
        last == LastField(args)
        required == c.power \/ t.power > 0 \/ card.gpu \/ card.cpu
    IN  IF c.power /\ ~inRange THEN {[hw |-> from, ok |-> FALSE]}
        ELSE {[hw |-> Wrote(from, args, k), ok |-> ~required] : k \in 0..last}
             \cup {[hw |-> Wrote(from, args, 4), ok |-> c.power \/ t.power = 0] :
                     k \in {last} \ 0..3}

(* main(): reapply_active_profile() after a start of the service, or of    *)
(* the host, which has reset the hardware.                                 *)
Reapply(name, fresh) ==
    \E c \in Detected(granted) :
        LET from == IF fresh THEN Defaults ELSE hw
        IN  /\ caps' = c
            /\ IF ~Known(name) THEN hw' = from /\ restored' = FALSE
               ELSE \E o \in Outcomes(from, Resolved(name, c), c) :
                      /\ hw' = o.hw
                      /\ restored' = (fresh /\ o.ok /\ c.power)

Init ==
    /\ file = [k \in Keys |-> 0] /\ live = [k \in Owned |-> 0] /\ page = <<>>
    /\ apps = <<>> /\ served = <<>>
    /\ profiles = [p \in ProfileKeys |-> Absent] /\ kept = profiles
    /\ acked = live /\ torn = FALSE
    /\ card \in Cards /\ granted \in BOOLEAN /\ caps \in Detected(granted)
    /\ hw = Defaults /\ library = [n \in Customs |-> None]
    /\ chosen = "none" /\ told = Nothing /\ restored = FALSE

OthersKept == UNCHANGED <<apps, served, profiles, kept, gpuVars>>

(* getConfig() *)
LoadPage ==
    /\ page' = <<file>>
    /\ UNCHANGED <<file, live, acked, torn>> /\ OthersKept

(* A bug: the page's own copy of an owned key is written back. *)
SaveConfigStale ==
    /\ page # <<>> /\ page' = <<>>
    /\ \E k \in Plain, v \in Values : file' = [page[1] EXCEPT ![k] = v]
    /\ UNCHANGED <<live, acked, torn>> /\ OthersKept

(* saveConfig(): the page's keys replace the file, the owned keys are      *)
(* taken from the file as it is now.                                       *)
SaveConfig ==
    /\ page # <<>> /\ page' = <<>>
    /\ \E k \in Plain, v \in Values :
          file' = [q \in Keys |-> IF q \in Owned THEN file[q]
                                  ELSE IF q = k THEN v ELSE page[1][q]]
    /\ UNCHANGED <<live, acked, torn>> /\ OthersKept

(* steamshine_save_config() and save_virtual_display() merge what they are *)
(* given; the file counts from the next start.                             *)
SaveCurated ==
    /\ \E k \in Plain, v \in Values : file' = [file EXCEPT ![k] = v]
    /\ UNCHANGED <<live, page, acked, torn>> /\ OthersKept

(* write_config_value() and persist_custom_profiles(): a temporary file    *)
(* renamed over the old one, then the value is published; or nothing.      *)
WriteOwned(k, v) ==
    /\ file' = [file EXCEPT ![k] = v] /\ live' = [live EXCEPT ![k] = v]
    /\ acked' = [acked EXCEPT ![k] = v]
    /\ UNCHANGED <<page, torn>> /\ OthersKept

(* write_file() truncates first: a crash there leaves the file empty.      *)
CrashInWrite ==
    /\ ~torn /\ torn' = TRUE
    /\ file' = [k \in Keys |-> 0] /\ live' = [k \in Owned |-> 0]
    /\ page' = <<>> /\ acked' = live'
    /\ profiles' = kept /\ served' = apps /\ UNCHANGED <<apps, kept>>
    /\ library' = [n \in Customs |-> None] /\ chosen' = "none" /\ told' = Nothing
    /\ Reapply("none", FALSE) /\ UNCHANGED <<card, granted>>

(* A start reads the configuration, the applications and the profiles;     *)
(* of two active profiles of a client the later one stays active.          *)
Restart ==
    /\ live' = [k \in Owned |-> file[k]] /\ page' = <<>>
    /\ served' = apps /\ profiles' = kept
    /\ \E fresh \in BOOLEAN : Reapply(chosen, fresh)
    /\ UNCHANGED <<file, apps, kept, acked, torn, card, granted, library, chosen, told>>

-----------------------------------------------------------------------------
Written(list) ==
    /\ apps' = list /\ served' = list      \* write_file, proc::refresh
    /\ UNCHANGED <<file, live, page, profiles, kept, acked, torn, gpuVars>>

(* saveApp() and steamshine_save_app(): appended, or the entry at the      *)
(* index replaced; sorted by name either way.                              *)
SaveApp(n) ==
    \/ /\ Len(apps) < MaxApps
       /\ Written(SortSeq(Append(apps, n), LAMBDA a, b : a < b))
    \/ \E i \in DOMAIN apps :
          Written(SortSeq([apps EXCEPT ![i] = n], LAMBDA a, b : a < b))

(* deleteApp() and steamshine_delete_app() *)
DeleteApp == \E i \in DOMAIN apps : Written(RemoveAt(apps, i))

-----------------------------------------------------------------------------
(* StreamProfileService, under its mutex. persist_locked() may fail; the   *)
(* callers then put the old profiles back.                                 *)
Kept(new) ==
    /\ profiles' = new /\ kept' = new
    /\ UNCHANGED <<file, live, page, apps, served, acked, torn, gpuVars>>

Stored == {p \in ProfileKeys : profiles[p].there}

(* A bug: the client's other profiles stay active. *)
SaveProfileBeside(p, active, learned) ==
    /\ profiles[p].there \/ Cardinality(Stored) < MaxProfiles
    /\ Kept([profiles EXCEPT ![p] = [active |-> active, learned |-> learned,
                                     there |-> TRUE]])

SaveProfile(p, active, learned) ==
    /\ profiles[p].there \/ Cardinality(Stored) < MaxProfiles
    /\ Kept([q \in ProfileKeys |->
               IF q = p
               THEN [active |-> active, learned |-> learned, there |-> TRUE]
               ELSE IF active /\ q[1] = p[1]
               THEN [profiles[q] EXCEPT !.active = FALSE] ELSE profiles[q]])

(* ensure_registered(): a client without any profile gets the default one. *)
EnsureRegistered(c) ==
    /\ \A p \in Stored : p[1] # c
    /\ Cardinality(Stored) < MaxProfiles
    /\ Kept([profiles EXCEPT ![<<c, DefaultNetwork>>] =
               [active |-> TRUE, learned |-> 0, there |-> TRUE]])

ResetProfile(p) ==
    /\ profiles[p].there
    /\ Kept([profiles EXCEPT ![p] = Absent])

(* update_learned_start(), from a stream that ends: only the active one.   *)
UpdateLearned(p, v) ==
    /\ profiles[p].active
    /\ Kept([profiles EXCEPT ![p].learned = v])

-----------------------------------------------------------------------------
(* custom_profiles_locked() refuses a store that cannot be parsed and      *)
(* persist_custom_profiles() replaces the file or leaves it: a save        *)
(* happens or does not.                                                    *)
PersistCustomProfiles(name, new) ==
    /\ library' = [library EXCEPT ![name] = new]
    /\ told' = IF told.name = name THEN [told EXCEPT !.full = FALSE] ELSE told
    /\ UNCHANGED <<storeVars, card, granted, caps, hw, chosen, restored>>

SaveCustomProfile(name, t) == PersistCustomProfiles(name, t)
DeleteCustomProfile(name) == library[name] # None /\ PersistCustomProfiles(name, None)

(* activate_profile(): the selection is stored when the profile was        *)
(* applied, and the answer is good when that could be saved too.           *)
ActivateProfile(name) ==
    /\ Known(name) /\ restored' = FALSE
    /\ caps' \in Refreshed
    /\ LET t == Resolved(name, caps')
       IN  \E o \in Outcomes(hw, t, caps'), saved \in BOOLEAN :
            /\ hw' = o.hw
            /\ IF o.ok /\ saved
               THEN /\ chosen' = name
                    /\ told' = [name |-> name, full |-> caps'.power,
                                wants |-> Wrote(Defaults, Arguments(t, caps'), 4)]
               ELSE UNCHANGED <<chosen, told>>
    /\ UNCHANGED <<storeVars, card, granted, library>>

(* The administrator authorizes the helper, or takes that back. *)
Authorize ==
    /\ Customs # {} /\ granted' = ~granted
    /\ UNCHANGED <<storeVars, card, caps, hw, library, chosen, told, restored>>

Next ==
    \/ LoadPage \/ SaveConfig \/ SaveCurated \/ CrashInWrite \/ Restart
    \/ \E k \in Owned, v \in Values : WriteOwned(k, v)
    \/ (\E n \in Names : SaveApp(n)) \/ DeleteApp
    \/ \E p \in ProfileKeys : \/ \E a \in BOOLEAN, v \in Values :
                                    SaveProfile(p, a, v)
                              \/ ResetProfile(p)
                              \/ \E v \in Values : UpdateLearned(p, v)
    \/ \E c \in Clients : EnsureRegistered(c)
    \/ \E n \in Customs : \/ DeleteCustomProfile(n)
                          \/ \E t \in CustomSettings : SaveCustomProfile(n, t)
    \/ \E n \in IF Customs = {} THEN {} ELSE Customs \cup Builtins : ActivateProfile(n)
    \/ Authorize

Spec == Init /\ [][Next]_settingVars

-----------------------------------------------------------------------------
(* A GPU profile, shortcut, turbo or HOTAS setting that was acknowledged   *)
(* is what runs and what the next start reads, whatever the settings pages *)
(* save meanwhile from an older copy of the file.                          *)
OwnedSettingsKept ==
    \A k \in Owned : file[k] = acked[k] /\ live[k] = acked[k]

(* However profiles are saved, registered, learned, reset and reloaded, a  *)
(* client has one active profile at most, so select_active() is not a      *)
(* matter of map order.                                                    *)
OneActiveProfile ==
    \A p, q \in ProfileKeys :
        p[1] = q[1] /\ profiles[p].active /\ profiles[q].active => p = q

(* The power limit stays within what the card allows, however profiles are *)
(* edited and whatever is known of the card; what is selected is what was  *)
(* acknowledged; and a start of the host that reports the profile as       *)
(* applied has every field as it was acknowledged, unless the profile was  *)
(* edited since.                                                           *)
PerformanceIsKept ==
    /\ hw[1] \in Lowest..Highest
    /\ chosen = told.name
    /\ restored /\ told.full => hw = told.wants

(* Under observation: a profile that replaces an overclocking one clears   *)
(* its offsets; one that is acknowledged was written.                      *)
OffsetsAreCleared ==
    [][told' # told /\ told'.full => hw'[4] = told'.wants[4]]_settingVars
AcknowledgedIsWritten ==
    [][told' # told /\ told'.name # "none" => hw'[1] = told'.wants[1] /\ granted]_settingVars
=============================================================================
