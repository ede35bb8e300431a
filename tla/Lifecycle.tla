----------------------------- MODULE Lifecycle -----------------------------
(***************************************************************************)
(* The config entry of HEMM and the coordinator instance made from it:     *)
(* setup, unload, reload, removal, the services that are registered with   *)
(* the first entry, the update listener that turns an edit of the entry    *)
(* into a reload, and the options flows that make those edits.             *)
(*                                                                         *)
(* async_setup_entry suspends while Home Assistant sets up the two         *)
(* platforms, async_unload_entry while it removes them; the rest of both   *)
(* runs in one go.  Home Assistant serialises setups and unloads of an     *)
(* entry by its setup lock (phase), calls the listener in a task of its    *)
(* own (reloads), and drops its state with the process (Restart).  Flows   *)
(* go on through all of this.                                              *)
(***************************************************************************)
EXTENDS Naturals, Sequences, FiniteSets, SequencesExt

CONSTANTS
    Flows,         \* options flows that can show a remove_device form
    Keys,          \* settings the coordinator reads from the entry
    SetupKeys,     \* those the setup form asks for too
    Values,        \* values of a setting
    Absent,        \* an optional setting that was left empty
    MaxEntries,    \* bound: entries created
    MaxInstances,  \* bound: coordinator instances
    MaxReloads,    \* bound: reload tasks waiting for the setup lock
    MaxAdded       \* bound: devices added

ASSUME SettingsAssumption == SetupKeys \subseteq Keys /\ Absent \notin Values
ASSUME BoundsAssumption   == /\ MaxEntries \in Nat /\ MaxInstances \in Nat
                             /\ MaxReloads \in Nat /\ MaxAdded \in Nat

VARIABLES
    id,         \* the entry: its id, 0 for none
    devices,    \* its data["devices"]
    setup_data, \* the rest of its data, from the setup form
    options,    \* its options
    state,      \* its state in Home Assistant
    phase,      \* what the holder of the setup lock is doing
    removing,   \* the unload under way ends with the removal of the entry
    reloads,    \* reload tasks that wait for the setup lock
    listener,   \* the update listener is registered
    domain,     \* hass.data["hemm"]: entry id and instance, in insertion order
    made,       \* coordinator instances made so far: the newest
    config,     \* the settings the newest was constructed with
    watch,      \* instances whose watchdog timer runs
    sensors,    \* the sensor entities: their instance and devices
    switches,   \* the override switches
    services,   \* the hemm.* services are registered
    flows,      \* the devices each open remove_device form lists
    added,      \* devices added so far
    wanted,     \* history: devices added and not removed
    asked,      \* history: the settings form sent last
    missed,     \* history: an edit met a setup that was under way
    stranded    \* history: instances whose setup raised or unload was refused

entry    == <<id, devices, setup_data, options, added, wanted, asked>>
instance == <<domain, made, config, watch, services, stranded>>
entities == <<sensors, switches>>
vars     == <<entry, state, phase, removing, reloads, listener, instance, entities,
              flows, missed>>

-----------------------------------------------------------------------------
Ids        == 1..MaxAdded
Instances  == 1..MaxInstances
Settings   == [Keys -> Values \cup {Absent}]
NoSettings == [k \in Keys |-> Absent]

\* entry.options.get(key, entry.data.get(key)): what is absent in the options
\* is taken from the setup form.  (Mutant: the options are not looked at.)
FromSetup(o, s) == s
Effective(o, s) == [k \in Keys |-> IF o[k] # Absent THEN o[k] ELSE s[k]]

States == {"none", "not_loaded", "loaded", "setup_error", "failed_unload"}
\* starting: setup is next; platforms: async_forward_entry_setups is awaited;
\* unloading: async_unload_platforms is awaited.
Phases == {"free", "starting", "platforms", "unloading"}

NoEntities == [of |-> 0, devices |-> {}]

\* Where a key is in hass.data[DOMAIN].
At(d, key) == {i \in DOMAIN d : d[i].key = key}

\* hass.data[DOMAIN][key] = inst: a key that is there keeps its place.
\* (Mutant: it is entered again.)
Enter(d, key, inst) == Append(d, [key |-> key, inst |-> inst])
Put(d, key, inst) ==
    IF At(d, key) # {}
    THEN [i \in DOMAIN d |-> IF d[i].key = key THEN [key |-> key, inst |-> inst] ELSE d[i]]
    ELSE Append(d, [key |-> key, inst |-> inst])
Pop(d, key) == IF At(d, key) = {} THEN d ELSE RemoveAt(d, CHOOSE i \in At(d, key) : TRUE)
Holding     == {domain[i].inst : i \in DOMAIN domain}

-----------------------------------------------------------------------------
Init ==
    /\ id = 0 /\ devices = {} /\ setup_data = NoSettings /\ options = NoSettings
    /\ state = "none" /\ phase = "free" /\ removing = FALSE
    /\ reloads = 0 /\ listener = FALSE
    /\ domain = <<>> /\ made = 0
    /\ config = NoSettings
    /\ watch = {} /\ services = FALSE
    /\ sensors = NoEntities /\ switches = NoEntities
    /\ flows = [f \in Flows |-> {}]
    /\ added = 0 /\ wanted = {} /\ asked = NoSettings /\ missed = FALSE /\ stranded = {}

(***************************************************************************)
(* The entry                                                               *)
(***************************************************************************)

\* The setup form: one entry at a time; optional fields may be left empty.  The
\* id is new: all that is left of earlier ones is their keys in hass.data.
Unused == {n \in 1..MaxEntries : At(domain, n) = {}}
CreateEntry ==
    /\ id = 0
    /\ id' \in Unused /\ \A n \in Unused : id' <= n
    /\ setup_data' \in {s \in Settings : \A k \in Keys \ SetupKeys : s[k] = Absent}
    /\ devices' = {} /\ options' = NoSettings /\ wanted' = {} /\ asked' = NoSettings
    /\ state' = "not_loaded" /\ phase' = "starting"
    /\ UNCHANGED <<removing, reloads, listener, instance, entities, flows, added, missed>>

\* Construct the coordinator, first refresh, start_watchdog, hass.data, hub.
BeginSetup ==
    /\ phase = "starting" /\ made < MaxInstances
    /\ made' = made + 1
    /\ config' = Effective(options, setup_data)
    /\ watch' = watch \cup {made'}
    /\ domain' = Put(domain, id, made')
    /\ phase' = "platforms" /\ missed' = FALSE
    /\ UNCHANGED <<entry, state, removing, reloads, listener, services, entities,
                   flows, stranded>>

\* The two platforms make their entities for the devices listed now.
SetupSensors ==
    /\ phase = "platforms" /\ sensors = NoEntities
    /\ sensors' = [of |-> made, devices |-> devices]
    /\ UNCHANGED <<entry, state, phase, removing, reloads, listener, instance, switches,
                   flows, missed>>
SetupSwitches ==
    /\ phase = "platforms" /\ switches = NoEntities
    /\ switches' = [of |-> made, devices |-> devices]
    /\ UNCHANGED <<entry, state, phase, removing, reloads, listener, instance, sensors,
                   flows, missed>>

\* Services come with the first entry, then the listener.
\* (Mutants: the listener is not added; services are not registered again.)
ListenerForgotten == UNCHANGED listener
AddListener       == listener' = TRUE
RegisterServices  == services' = (services \/ Len(domain) = 1)
FinishSetup ==
    /\ phase = "platforms" /\ sensors # NoEntities /\ switches # NoEntities
    /\ RegisterServices /\ AddListener
    /\ state' = "loaded" /\ phase' = "free"
    /\ UNCHANGED <<entry, removing, reloads, domain, made, config, watch, entities, flows,
                   missed, stranded>>

\* async_forward_entry_setups raises before a platform is set up (its import
\* fails): nothing of what was done is undone.
SetupRaises ==
    /\ phase = "platforms" /\ sensors = NoEntities /\ switches = NoEntities
    /\ state' = "setup_error" /\ phase' = "free"
    /\ stranded' = stranded \cup {made}
    /\ UNCHANGED <<entry, removing, reloads, listener, domain, made, config, watch,
                   services, entities, flows, missed>>

\* A reload task, the user's reload or the removal gets the setup lock.  An
\* entry that is not loaded is not unloaded; a failed unload is final.
BeginReload ==
    /\ phase = "free" /\ reloads > 0
    /\ reloads' = reloads - 1
    /\ phase' = CASE state = "loaded"      -> "unloading"
                  [] state = "setup_error" -> "starting"
                  [] OTHER                 -> "free"
    /\ state' = IF state = "setup_error" THEN "not_loaded" ELSE state
    /\ UNCHANGED <<entry, removing, listener, instance, entities, flows, missed>>

AskReload ==
    /\ state \in {"loaded", "setup_error"} /\ reloads < MaxReloads
    /\ reloads' = reloads + 1
    /\ UNCHANGED <<entry, state, phase, removing, listener, instance, entities, flows, missed>>

\* What goes with the entry: its entities leave the registry; its flows and the
\* reloads that wait find no entry any more.
Gone ==
    /\ id' = 0 /\ devices' = {} /\ wanted' = {}
    /\ setup_data' = NoSettings /\ options' = NoSettings /\ asked' = NoSettings
    /\ state' = "none" /\ phase' = "free" /\ reloads' = 0
    /\ sensors' = NoEntities /\ switches' = NoEntities
    /\ flows' = [f \in Flows |-> {}]
    /\ removing' = FALSE /\ listener' = FALSE
    /\ UNCHANGED added

BeginRemove ==
    /\ phase = "free" /\ id # 0
    /\ \/ /\ state = "loaded"
          /\ phase' = "unloading" /\ removing' = TRUE
          /\ UNCHANGED <<entry, state, reloads, listener, entities, flows>>
       \/ /\ state \in {"setup_error", "failed_unload"}
          /\ Gone
    /\ UNCHANGED <<instance, missed>>

\* The platforms are gone: hass.data.pop, stop_watchdog, and the services with
\* the last entry; Home Assistant then drops the listener.
\* (Mutants: the instance stays in hass.data; its watchdog goes on; the services
\* stay.)
LeaveInData        == UNCHANGED domain
PopInstance        == domain' = Pop(domain, id)
WatchdogForgotten  == UNCHANGED watch
StopWatchdog       == watch' = watch \ {domain[i].inst : i \in At(domain, id)}
ServicesForgotten  == UNCHANGED services
UnregisterServices == services' = (services /\ domain' # <<>>)
PlatformsUnloaded ==
    /\ phase = "unloading"
    /\ PopInstance /\ StopWatchdog /\ UnregisterServices
    /\ IF removing
       THEN Gone
       ELSE /\ state' = "not_loaded" /\ phase' = "starting"
            /\ sensors' = NoEntities /\ switches' = NoEntities
            /\ listener' = FALSE
            /\ UNCHANGED <<entry, removing, reloads, flows>>
    /\ UNCHANGED <<made, config, missed, stranded>>

\* A platform refuses: the instance stays with the entities that are left, and
\* a removal goes on all the same.
UnloadRefused ==
    /\ phase = "unloading"
    /\ stranded' = stranded \cup {made}
    /\ IF removing
       THEN Gone
       ELSE /\ state' = "failed_unload" /\ phase' = "free"
            /\ \/ UNCHANGED entities
               \/ sensors' = NoEntities /\ UNCHANGED switches
               \/ switches' = NoEntities /\ UNCHANGED sensors
            /\ UNCHANGED <<entry, removing, reloads, listener, flows>>
    /\ UNCHANGED <<domain, made, config, watch, services, missed>>

\* Home Assistant restarts: the entry is stored, everything else is gone.
Restart ==
    /\ state' = IF id = 0 THEN "none" ELSE "not_loaded"
    /\ phase' = IF id = 0 THEN "free" ELSE "starting"
    /\ removing' = FALSE /\ reloads' = 0 /\ listener' = FALSE
    /\ domain' = <<>> /\ watch' = {} /\ services' = FALSE
    /\ sensors' = NoEntities /\ switches' = NoEntities
    /\ flows' = [f \in Flows |-> {}]
    /\ missed' = FALSE /\ stranded' = {}
    /\ UNCHANGED <<entry, made, config>>

(***************************************************************************)
(* Options flows: any number of them, open at the same time and across      *)
(* reloads.  What the forms of settings and of a new device show of the     *)
(* entry is not used when they are sent; the remove_device form offers the  *)
(* devices of when it was shown.                                            *)
(***************************************************************************)

Edits == <<devices, options>>

\* async_update_entry: a change is stored, and the listener, when there is one,
\* reloads the entry.
Edited ==
    /\ id # 0
    /\ listener => reloads < MaxReloads
    /\ reloads' = IF Edits' # Edits /\ listener THEN reloads + 1 ELSE reloads
    /\ missed' = (missed \/ (Edits' # Edits /\ phase = "platforms"))
    /\ UNCHANGED <<id, setup_data, state, phase, removing, listener, instance, entities>>

\* configure_device: append to the list the entry has now.  (What the form asks
\* for is in module Devices.)
ConfigureDevice ==
    /\ added < MaxAdded
    /\ added' = added + 1
    /\ devices' = devices \cup {added'} /\ wanted' = wanted \cup {added'}
    /\ UNCHANGED <<options, asked, flows>>
    /\ Edited

\* With no devices there is nothing to remove and the flow ends.
ShowRemoveForm(f) ==
    /\ flows[f] = {}
    /\ flows' = [flows EXCEPT ![f] = devices]
    /\ UNCHANGED <<entry, state, phase, removing, reloads, listener, instance, entities,
                   missed>>

\* remove_device: picked devices leave the list the entry has now.
\* (Mutant: what was shown and not picked is stored.)
StoreUnpicked(f, picks)   == devices' = flows[f] \ picks
StoreRemaining(f, picks) == devices' = devices \ picks
RemoveDevice(f) ==
    /\ flows[f] # {}
    /\ \E picks \in SUBSET flows[f] :
         /\ StoreRemaining(f, picks)
         /\ wanted' = wanted \ picks
    /\ flows' = [flows EXCEPT ![f] = {}]
    /\ UNCHANGED <<options, asked, added>>
    /\ Edited

\* settings: the form replaces all options.
\* (Mutant: a field left empty keeps its old value.)
MergeOptions(o)   == options' = [k \in Keys |-> IF o[k] # Absent THEN o[k] ELSE options[k]]
ReplaceOptions(o) == options' = o
SubmitSettings ==
    /\ \E o \in Settings : ReplaceOptions(o) /\ asked' = o
    /\ UNCHANGED <<devices, added, wanted, flows>>
    /\ Edited

-----------------------------------------------------------------------------
Next == \/ CreateEntry \/ BeginSetup \/ SetupSensors \/ SetupSwitches \/ FinishSetup
        \/ SetupRaises \/ AskReload \/ BeginReload \/ BeginRemove \/ PlatformsUnloaded
        \/ UnloadRefused \/ Restart
        \/ ConfigureDevice \/ SubmitSettings
        \/ \E f \in Flows : ShowRemoveForm(f) \/ RemoveDevice(f)

Spec == Init /\ [][Next]_vars

-----------------------------------------------------------------------------
(***************************************************************************)
(* Properties                                                              *)
(***************************************************************************)

\* Every variable has its type.
TypeOK ==
    /\ id \in 0..MaxEntries
    /\ devices \in SUBSET Ids /\ wanted \in SUBSET Ids /\ added \in 0..MaxAdded
    /\ setup_data \in Settings /\ options \in Settings /\ asked \in Settings
    /\ state \in States /\ phase \in Phases
    /\ removing \in BOOLEAN /\ listener \in BOOLEAN /\ services \in BOOLEAN
    /\ missed \in BOOLEAN
    /\ reloads \in 0..MaxReloads
    /\ domain \in Seq([key : 1..MaxEntries, inst : Instances])
    /\ \A i, j \in DOMAIN domain : domain[i].key = domain[j].key => i = j
    /\ made \in 0..MaxInstances
    /\ config \in Settings
    /\ watch \in SUBSET Instances /\ stranded \in SUBSET Instances
    /\ sensors \in [of : 0..MaxInstances, devices : SUBSET Ids]
    /\ switches \in [of : 0..MaxInstances, devices : SUBSET Ids]
    /\ flows \in [Flows -> SUBSET Ids]

\* What flows added and did not remove is what the entry lists, also when
\* another flow edits the list between a form and its submission.
EditsKept == devices = wanted

\* Nothing is under way that will still change the instance, and no edit fell
\* into its setup.
Quiet == state = "loaded" /\ phase = "free" /\ reloads = 0 /\ ~missed

\* The settings the user sent last are those the instance works with; a field
\* left empty falls back to the setup form if that asked for it and is unset
\* ("unbounded") otherwise.
SettingsApplied ==
    Quiet => \A k \in Keys :
        config[k] = IF asked[k] = Absent /\ k \in SetupKeys
                    THEN setup_data[k] ELSE asked[k]

\* Sensors and switches are those of the newest instance and of exactly the
\* devices the entry lists.
EntitiesMatch ==
    Quiet => /\ sensors = [of |-> made, devices |-> devices]
             /\ switches = sensors

\* The services are there whenever an instance is loaded, and reach the one
\* whose entities are shown; without an instance there are none.  (A setup that
\* raises and a platform that refuses to go leave an instance behind: README.)
ServicesReachLoaded ==
    /\ services => domain # <<>>
    /\ state = "loaded" /\ stranded = {} => services /\ Head(domain).inst = made

\* A watchdog runs for the instances in hass.data, for nobody else: no timer of
\* an unloaded instance goes on calling safe defaults.
WatchdogsOwned ==
    /\ watch \subseteq Holding \cup stranded
    /\ state = "loaded" => made \in watch

-----------------------------------------------------------------------------
\* Fairness: Home Assistant finishes the setups and unloads it began and runs
\* the reload tasks.  Users do what they like, and nothing need fail.
Fairness ==
    /\ WF_vars(BeginSetup) /\ WF_vars(SetupSensors) /\ WF_vars(SetupSwitches)
    /\ WF_vars(FinishSetup) /\ WF_vars(BeginReload)
    /\ WF_vars(PlatformsUnloaded \/ UnloadRefused)

FairSpec == Spec /\ Fairness

\* The instance and its entities show what the entry stores.
Current == /\ config = Effective(options, setup_data)
           /\ sensors.devices = devices /\ switches.devices = devices

\* A loaded entry that was edited comes to show the edit, by a reload, unless the
\* reload fails, an edit falls into a setup, or the entry goes.
EditsReach ==
    (state = "loaded" /\ ~missed /\ ~Current) ~>
        \/ state = "loaded" /\ Current
        \/ missed \/ state \in {"none", "setup_error", "failed_unload"}
        \/ made = MaxInstances

=============================================================================
