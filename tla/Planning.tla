------------------------------ MODULE Planning ------------------------------
(***************************************************************************)
(* One solve after another over the devices of the entry: the start state  *)
(* that is read for it, the decisions its plan leads to and what becomes   *)
(* of them one after the other, and what the sensors show, while flows add *)
(* and remove devices and entities come and go.  That solves do not        *)
(* overlap is shown in module Coordinator; the attempts, retries and       *)
(* verification behind an outcome are in module Actuator.  This is one     *)
(* instance of the coordinator, and dry runs are left out.                 *)
(***************************************************************************)
EXTENDS Devices

CONSTANTS
    Types,      \* device types that are added
    Companions, \* bound: those of two devices together, with everything filled in
    Classes,    \* bound: their control classes
    Modes,      \* slot modes a plan may have; "" for none
    Statuses,   \* solver statuses
    MaxDevices  \* bound: devices added

ASSUME TypesAssumption    == Types \cup Companions \subseteq DeviceTypes
ASSUME ClassesAssumption  == Classes \subseteq ControlClasses
ASSUME ModesAssumption    == Modes \subseteq {"", "active", "off"}
ASSUME StatusesAssumption == Statuses \subseteq {"OPTIMAL", "FEASIBLE", "INFEASIBLE", "ERROR"}
ASSUME BoundAssumption    == MaxDevices \in Nat

VARIABLES
    devices,       \* the entry's devices: their fields by id
    added,         \* devices added so far
    solve,         \* the solve under way: locals of _do_solve
    last_result,   \* _last_result: its status and the first slot's mode by device
    device_plans,  \* data["device_plans"]: what the sensors show by device
    fresh,         \* history: the sensors were written after the last result
    outcome,       \* history: what became of the decisions of the last result
    cut            \* history: those of its devices that it never came to

vars == <<devices, added, solve, last_result, device_plans, fresh, outcome, cut>>

-----------------------------------------------------------------------------
Ids    == 1..MaxDevices
Usable == {"OPTIMAL", "FEASIBLE"}

NoPlans  == [i \in {} |-> ""]
NoResult == [status |-> "none", modes |-> NoPlans]
NoSolve  == [phase |-> "idle", devices |-> [i \in {} |-> <<>>], selected |-> {}, start |-> {},
             todo |-> {}]

\* How async_actuate takes a decision up: read-only mode or the override switch
\* keeps it from being started, or the pre-call check does, and the device is made
\* safe; or its script is started, which may fail later.
Outcomes   == {"skipped", "safe_default", "started"}
NoOutcomes == [i \in {} |-> "skipped"]

\* How a form can be filled, besides what it requires: as proposed, one field, all
\* but one, everything.
Fillings(fields) == {{}, fields} \cup {{f} : f \in fields} \cup {fields \ {f} : f \in fields}

-----------------------------------------------------------------------------
(***************************************************************************)
(* _decisions_from_result and _build_data                                  *)
(***************************************************************************)

\* The action a plan leads to for a device with manifest m: that of the first
\* slot's mode.  (Mutant: whatever the mode, the one the device has.)
AnyAction(m, mode) == IF m.control_class = "passive" THEN {} ELSE DOMAIN m.actions
ActionOf(m, mode)  == IF m.control_class = "passive" \/ mode = "" THEN {}
                      ELSE {mode} \cap DOMAIN m.actions

\* The devices with a decision.
Decisions(cfgs, modes) == {i \in DOMAIN modes : ActionOf(Manifest(cfgs[i]), modes[i]) # {}}

\* "planned" is the value of the plan's slot, whatever that is (a slot without a
\* reason included).
Idle  == [power |-> "0", confidence |-> 0, mode |-> "idle", reason |-> "idle"]
Error == [power |-> "0", confidence |-> 0, mode |-> "error", reason |-> "safety_default"]
\* (Mutant: a slot without a mode is shown as it is.)
SlotAsIs(status, mode) ==
    [power |-> "planned", confidence |-> IF status = "OPTIMAL" THEN 95 ELSE 70,
     mode |-> mode, reason |-> "planned"]
Slot(status, mode) ==
    [power |-> "planned", confidence |-> IF status = "OPTIMAL" THEN 95 ELSE 70,
     mode |-> IF mode = "" THEN "active" ELSE mode, reason |-> "planned"]

DevicePlan(r, i) ==
    CASE r.status \in Usable /\ i \in DOMAIN r.modes -> Slot(r.status, r.modes[i])
      [] r.status = "ERROR"                          -> Error
      [] OTHER                                       -> Idle
BuildData(r) == [i \in DOMAIN devices |-> DevicePlan(r, i)]

\* async_set_updated_data(_build_data()).
Publish(r) == device_plans' = BuildData(r) /\ fresh' = TRUE

\* What the four sensors of device i show.
PlanSensor(i) == IF i \in DOMAIN device_plans THEN device_plans[i].power ELSE Idle.power
ConfidenceSensor(i) ==
    IF i \in DOMAIN device_plans THEN device_plans[i].confidence ELSE Idle.confidence
ModeSensor(i) == IF i \in DOMAIN device_plans THEN device_plans[i].mode ELSE Idle.mode
ReasonSensor(i) ==
    IF i \in DOMAIN device_plans THEN device_plans[i].reason ELSE Idle.reason

-----------------------------------------------------------------------------
Init ==
    /\ devices = [i \in {} |-> <<>>] /\ added = 0
    /\ solve = NoSolve /\ last_result = NoResult
    /\ device_plans = [i \in {} |-> Idle] /\ fresh = TRUE
    /\ outcome = NoOutcomes /\ cut = {}

\* The two steps of the device flow.  An empty safe default script is sent back.
Add(type, tier, given, classes) ==
    \E class \in classes, rating \in Ratings(type) :
        devices' = [i \in DOMAIN devices \cup {added'} |->
                      IF i = added' THEN Chosen(Stored(type, tier, given), class, rating)
                      ELSE devices[i]]

\* What may be typed: a field that is not required, or has a proposal.
Choices(type, tier) ==
    (Optional(type, tier) \cup (Required(type, tier) \cap DOMAIN Proposal)) \ {"control_class"}
Full(cfg) == Asked(cfg.device_type, cfg.tier) \subseteq DOMAIN cfg
Pairable(cfg) == /\ cfg.device_type \in Companions /\ cfg.tier = "pro" /\ Full(cfg)
                 /\ cfg.control_class \in Classes

ConfigureDevice ==
    /\ added < MaxDevices
    /\ added' = added + 1
    /\ \/ /\ added = 0
          /\ \E type \in Types, chosen \in Tiers :
               LET tier == TierFor(type, chosen)
               IN  \E given \in Fillings(Choices(type, tier)) : Add(type, tier, given, ControlClasses)
       \/ /\ added > 0 /\ \A i \in DOMAIN devices : Pairable(devices[i])
          /\ \E type \in Companions : Add(type, "pro", Choices(type, "pro"), Classes)
    /\ UNCHANGED <<solve, last_result, device_plans, fresh, outcome, cut>>

RemoveDevice ==
    /\ \E i \in DOMAIN devices : devices' = [j \in DOMAIN devices \ {i} |-> devices[j]]
    /\ UNCHANGED <<added, solve, last_result, device_plans, fresh, outcome, cut>>

\* _do_solve up to the price job: the device list and its manifests are taken.
\* One device that cannot be built keeps all of them from being solved.
StartSolve ==
    /\ solve.phase = "idle" /\ DOMAIN devices # {}
    /\ \A i \in DOMAIN devices : ~Raises(devices[i])
    /\ \E selected \in SUBSET DOMAIN devices \ {{}} :
         solve' = [NoSolve EXCEPT !.phase = "prices", !.devices = devices, !.selected = selected]
    /\ UNCHANGED <<devices, added, last_result, device_plans, fresh, outcome, cut>>

\* <<id, field>> of the start state entities: those read, and those without which
\* there is no solve, both of all devices.  (Mutant: only of the selected ones.)
StateEntities(s)   == UNION {{<<i, f>> : f \in StateOf(s.devices[i])} : i \in DOMAIN s.devices}
NeededSelected(s)  == UNION {{<<i, f>> : f \in Needed(s.devices[i])} : i \in s.selected}
NeededEntities(s)  == UNION {{<<i, f>> : f \in Needed(s.devices[i])} : i \in DOMAIN s.devices}

\* There are no prices, or a needed entity is unreadable: the solve ends without a
\* result, and what is there is published.
Skip ==
    /\ solve.phase = "prices"
    /\ solve' = NoSolve
    /\ Publish(last_result)
    /\ UNCHANGED <<devices, added, last_result, outcome, cut>>

\* The entities are read: dark ones are unavailable now.
Submit ==
    /\ solve.phase = "prices"
    /\ \E dark \in SUBSET StateEntities(solve) :
         /\ NeededEntities(solve) \cap dark = {}
         /\ solve' = [solve EXCEPT !.phase = "solving", !.start = StateEntities(solve) \ dark]
    /\ UNCHANGED <<devices, added, last_result, device_plans, fresh, outcome, cut>>

\* The result is stored.  A usable one plans some of the devices it was asked for,
\* and its decisions come next; any other is published at once.
SolveReturns ==
    /\ solve.phase = "solving"
    /\ \E status \in Statuses :
         \/ /\ status \in Usable
            /\ \E planned \in SUBSET solve.selected : \E modes \in [planned -> Modes] :
                 /\ last_result' = [status |-> status, modes |-> modes]
                 /\ solve' = [NoSolve EXCEPT !.phase = "actuating",
                                             !.todo = Decisions(solve.devices, modes)]
            /\ fresh' = FALSE
            /\ UNCHANGED device_plans
         \/ /\ status \notin Usable
            /\ last_result' = [status |-> status, modes |-> NoPlans]
            /\ solve' = NoSolve
            /\ Publish(last_result')
    /\ outcome' = NoOutcomes /\ cut' = {}
    /\ UNCHANGED <<devices, added>>

\* Anything before the result raises, or takes too long.
Raise ==
    /\ solve.phase \in {"prices", "solving"}
    /\ solve' = NoSolve
    /\ UNCHANGED <<devices, added, last_result, device_plans, fresh, outcome, cut>>

\* The next decision is awaited.
Actuate ==
    /\ solve.phase = "actuating"
    /\ \E i \in solve.todo, how \in Outcomes :
         /\ outcome' = [j \in DOMAIN outcome \cup {i} |-> IF j = i THEN how ELSE outcome[j]]
         /\ solve' = [solve EXCEPT !.todo = @ \ {i}]
    /\ UNCHANGED <<devices, added, last_result, device_plans, fresh, cut>>

\* A script raises or the solve is cancelled: the decisions left are not taken up,
\* and nothing is published.
CutShort ==
    /\ solve.phase = "actuating"
    /\ cut' = solve.todo
    /\ solve' = NoSolve
    /\ UNCHANGED <<devices, added, last_result, device_plans, fresh, outcome>>

\* The decisions are all taken up.  hemm.tick leaves the publication to a refresh.
ActuationDone ==
    /\ solve.phase = "actuating" /\ solve.todo = {}
    /\ solve' = NoSolve
    /\ \/ Publish(last_result)
       \/ UNCHANGED <<device_plans, fresh>>
    /\ UNCHANGED <<devices, added, last_result, outcome, cut>>

\* A refresh, hemm.actuate_now or the watchdog publishes what is there.
Republish ==
    /\ Publish(last_result)
    /\ UNCHANGED <<devices, added, solve, last_result, outcome, cut>>

Next == \/ ConfigureDevice \/ RemoveDevice \/ StartSolve \/ Skip \/ Submit
        \/ SolveReturns \/ Raise \/ Actuate \/ CutShort \/ ActuationDone \/ Republish

Spec == Init /\ [][Next]_vars

-----------------------------------------------------------------------------
(***************************************************************************)
(* Properties                                                              *)
(***************************************************************************)

Shown == [power : {"0", "planned"}, confidence : {0, 70, 95},
          mode : {"idle", "error", "active", "off"},
          reason : {"idle", "safety_default", "planned"}]

\* Every variable has its type.
TypeOK ==
    /\ DOMAIN devices \subseteq Ids /\ added \in 0..MaxDevices
    /\ \A i \in DOMAIN devices :
          DOMAIN devices[i] \subseteq Asked(devices[i].device_type, devices[i].tier)
                                        \cup {"device_type", "tier"}
    /\ solve.phase \in {"idle", "prices", "solving", "actuating"}
    /\ solve.selected \subseteq DOMAIN solve.devices
    /\ last_result.status \in Statuses \cup {"none"}
    /\ \A i \in DOMAIN last_result.modes : last_result.modes[i] \in Modes
    /\ \A i \in DOMAIN device_plans : device_plans[i] \in Shown
    /\ solve.todo \subseteq Ids /\ cut \subseteq Ids
    /\ fresh \in BOOLEAN
    /\ DOMAIN outcome \subseteq Ids /\ \A i \in DOMAIN outcome : outcome[i] \in Outcomes

\* An EV charger whose user typed a power that no phases carry, or one that only
\* three carry together with fewer.
Overrated(cfg) ==
    /\ cfg.device_type = "ev_charger"
    /\ \/ cfg.max_charge_kw = "excess"
       \/ cfg.max_charge_kw = "three_phase" /\ "phases" \in DOMAIN cfg /\ cfg.phases # "3"

\* A device that cannot be built ends every later solve of all devices
\* (manifest_builder.py:181).  Of those the flow stores, in any tier, it can only be
\* an EV charger overrated by its user: no form leaves out a field that a builder
\* insists on, and no default of a builder makes a device unacceptable.
FlowDevicesBuild == \A i \in DOMAIN devices : Raises(devices[i]) => Overrated(devices[i])

\* Nothing a form asks for is a no-op: when all of it is filled in, another value
\* in any field changes what a solve is handed.  (device_flow.py:144 and :179
\* removed fields that were.)
FieldsUsed ==
    \A i \in DOMAIN devices :
        LET cfg    == devices[i]
            handed == Handed(cfg)
        IN  Full(cfg) => \A f \in Asked(cfg.device_type, cfg.tier) :
                            Handed([cfg EXCEPT ![f] = "other"]) # handed

\* A parameter a lower tier does not ask for means what a higher tier proposes:
\* the defaults of the flow and of the builder agree.  (The insulation class of a
\* water heater is the exception: it is proposed as medium and stands in as None.)
TiersAgree ==
    \A i \in DOMAIN devices :
        LET cfg  == devices[i]
            more == Stored(cfg.device_type, TierFor(cfg.device_type, "pro"), {})
            full == [f \in DOMAIN cfg \cup (DOMAIN more \ {"insulation_class"}) |->
                       IF f \in DOMAIN cfg THEN cfg[f] ELSE more[f]]
        IN  Parameters(full) = Parameters(cfg)

\* A solve that was submitted has the measured state of charge of every battery and
\* the measured temperature of every device that has such an entity, selected or
\* not: no start state is assumed.
MeasuredStartState ==
    solve.phase = "solving" =>
        \A i \in DOMAIN solve.devices :
            \A f \in {"soc_entity", "temp_entity"} \cap DOMAIN solve.devices[i] :
                \/ <<i, f>> \in solve.start
                \/ solve.devices[i].device_type = "ev_charger"

\* The sensors of device i show it active by a plan that says so.
ShownActive(i) ==
    /\ ModeSensor(i) = "active" /\ PlanSensor(i) = "planned"
    /\ ConfidenceSensor(i) > 0 /\ ReasonSensor(i) = "planned"
    /\ last_result.modes[i] # ""

\* A device the plan in force has a decision for: its turn is still to come, it was
\* taken up with some outcome, or the actuation was cut short before.
Decided(i) == i \in solve.todo \cup DOMAIN outcome \cup cut

\* The sensors and the scripts tell the same story, at publications before, during
\* and after the actuation, and however the list is edited meanwhile.  No action is
\* started that the sensors do not show; and what they show is started, unless
\* the device is passive, has no such action, is skipped, fails its check, is still
\* waiting, or lost its turn when an earlier script raised or the solve was cancelled.
ActedAsShown ==
    (fresh /\ last_result.status \in Usable) =>
        \A i \in DOMAIN devices \cap DOMAIN device_plans :
            Decided(i) <=> /\ ShownActive(i)
                           /\ devices[i].control_class # "passive"
                           /\ "active_action_script" \in DOMAIN devices[i]

=============================================================================
