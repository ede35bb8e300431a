--------------------------- MODULE Planning_proofs ---------------------------
(***************************************************************************)
(* Safety of Planning for any devices, companions, modes and statuses.     *)
(***************************************************************************)
EXTENDS Planning, Sequences, TLAPS

-----------------------------------------------------------------------------
(***************************************************************************)
(* What a submitted form stores                                            *)
(***************************************************************************)

\* A stored device: all that its form requires is there, nothing it does not ask
\* for, and no value is one that stands for a missing or for another value.
Filled(cfg) ==
    /\ cfg["device_type"] \in DeviceTypes /\ cfg["tier"] \in Tiers
    /\ Required(cfg["device_type"], cfg["tier"]) \subseteq DOMAIN cfg
    /\ DOMAIN cfg \subseteq Asked(cfg["device_type"], cfg["tier"]) \cup {"device_type", "tier"}
    /\ {"device_type", "tier", "control_class"} \subseteq DOMAIN cfg
    /\ cfg["control_class"] \in ControlClasses
    /\ \A f \in DOMAIN cfg : cfg[f] # "KeyError" /\ cfg[f] # None /\ cfg[f] # "other"

LEMMA Proposals ==
    /\ "control_class" \in DOMAIN Proposal
    /\ "device_type" \notin DOMAIN Proposal /\ "tier" \notin DOMAIN Proposal
    /\ \A f \in DOMAIN Proposal : Proposal[f] # "KeyError" /\ Proposal[f] # None /\ Proposal[f] # "other"
<1>1. "control_class" \in DOMAIN Proposal
  BY DEF Proposal
<1>2. "device_type" \notin DOMAIN Proposal /\ "tier" \notin DOMAIN Proposal
  BY DEF Proposal
<1>3. \A f \in DOMAIN Proposal : Proposal[f] # "KeyError" /\ Proposal[f] # None /\ Proposal[f] # "other"
  <2>1. DOMAIN Proposal = {"control_class", "safe_default_verify_timeout",
                           "active_action_verify_expected", "active_action_verify_timeout",
                           "active_action_retry_attempts", "active_action_retry_backoff",
                           "insulation_class", "hysteresis_k", "min_modulation_pct",
                           "source_type", "sink_type", "standby_loss_w", "charge_efficiency",
                           "discharge_efficiency", "min_soc_pct", "max_soc_pct",
                           "forecast_adapter", "source_kind", "azimuth_deg", "tilt_deg",
                           "min_charge_kw", "phases"}
    BY DEF Proposal
  <2>2. ASSUME NEW w \in {"KeyError", "None", "other"}
        PROVE
          /\ Proposal["control_class"] # w                 /\ Proposal["safe_default_verify_timeout"] # w
          /\ Proposal["active_action_verify_expected"] # w /\ Proposal["active_action_verify_timeout"] # w
          /\ Proposal["active_action_retry_attempts"] # w  /\ Proposal["active_action_retry_backoff"] # w
          /\ Proposal["insulation_class"] # w              /\ Proposal["hysteresis_k"] # w
          /\ Proposal["min_modulation_pct"] # w            /\ Proposal["source_type"] # w
          /\ Proposal["sink_type"] # w                     /\ Proposal["standby_loss_w"] # w
          /\ Proposal["charge_efficiency"] # w             /\ Proposal["discharge_efficiency"] # w
          /\ Proposal["min_soc_pct"] # w                   /\ Proposal["max_soc_pct"] # w
          /\ Proposal["forecast_adapter"] # w              /\ Proposal["source_kind"] # w
          /\ Proposal["azimuth_deg"] # w                   /\ Proposal["tilt_deg"] # w
          /\ Proposal["min_charge_kw"] # w                 /\ Proposal["phases"] # w
    BY DEF Proposal
  <2> QED
    BY <2>1, <2>2 DEF None
<1> QED
  BY <1>1, <1>2, <1>3

LEMMA TierIsTier == \A type \in DeviceTypes, tier \in Tiers : TierFor(type, tier) \in Tiers
BY DEF TierFor, Tiers

LEMMA NotAsked ==
    ASSUME NEW type \in DeviceTypes, NEW tier \in Tiers
    PROVE  /\ "device_type" \notin Asked(type, tier) /\ "tier" \notin Asked(type, tier)
           /\ "control_class" \in Optional(type, tier)
           /\ "control_class" \notin Required(type, tier)
BY DEF DeviceTypes, Tiers, Asked, Required, Optional, DeviceSchema, Form, From, SafeDefaultSchema,
       RoomSchema, ThermostatLoadSchema, HeatPumpSchema, WaterHeaterSchema, BatterySchema,
       PVForecastSchema, EVChargerSchema, PassiveLoadSchema, PoolPumpSchema

\* The form that was submitted, before a class and a power are chosen.
Holds(cfg, type, tier, given) ==
    /\ DOMAIN cfg = Required(type, tier) \cup given
                      \cup (Optional(type, tier) \cap DOMAIN Proposal) \cup {"device_type", "tier"}
    /\ cfg["device_type"] = type /\ cfg["tier"] = tier
    /\ \A f \in DOMAIN cfg : cfg[f] # "KeyError" /\ cfg[f] # None /\ cfg[f] # "other"

LEMMA StoredFields ==
    ASSUME NEW type \in DeviceTypes, NEW tier \in Tiers, NEW given \in SUBSET Choices(type, tier),
           NEW cfg, cfg = Stored(type, tier, given)
    PROVE  Holds(cfg, type, tier, given)
<1> DEFINE D == Required(type, tier) \cup given \cup (Optional(type, tier) \cap DOMAIN Proposal)
                 \cup {"device_type", "tier"}
           v(f) == IF f = "device_type" THEN type
                   ELSE IF f = "tier" THEN tier
                   ELSE IF f \in given \/ f \notin DOMAIN Proposal THEN "given" ELSE Proposal[f]
<1>1. /\ "device_type" \notin given /\ "tier" \notin given
      /\ "device_type" \notin DOMAIN Proposal /\ "tier" \notin DOMAIN Proposal
  BY NotAsked, Proposals DEF Choices, Asked
<1>2. cfg = [f \in D |-> v(f)]
  BY DEF Stored
<1>3. v("device_type") = type
  OBVIOUS
<1>4. v("tier") = tier
  BY <1>1
<1>5. ASSUME NEW f \in D PROVE v(f) # "KeyError" /\ v(f) # None /\ v(f) # "other"
  <2>1. CASE f = "device_type"
    BY <1>3, <2>1 DEF DeviceTypes, None
  <2>2. CASE f = "tier"
    BY <1>4, <2>2 DEF Tiers, None
  <2>3. CASE f \notin {"device_type", "tier"} /\ (f \in given \/ f \notin DOMAIN Proposal)
    <3>1. v(f) = "given"
      BY <2>3
    <3> QED
      BY <3>1 DEF None
  <2>4. CASE f \notin {"device_type", "tier"} /\ f \notin given /\ f \in DOMAIN Proposal
    <3>1. v(f) = Proposal[f]
      BY <2>4
    <3> QED
      BY <2>4, <3>1, Proposals
  <2> QED
    BY <2>1, <2>2, <2>3, <2>4
<1> HIDE DEF v
<1>6. DOMAIN cfg = D /\ \A f \in D : cfg[f] = v(f)
  BY <1>2
<1> QED
  BY <1>3, <1>4, <1>5, <1>6 DEF Holds

LEMMA RatingIsValue ==
    ASSUME NEW type, NEW rating \in Ratings(type)
    PROVE  rating # "KeyError" /\ rating # None /\ rating # "other"
BY DEF Ratings, None

LEMMA StoredFilled ==
    ASSUME NEW type \in DeviceTypes, NEW tier \in Tiers, NEW given \in SUBSET Choices(type, tier),
           NEW class \in ControlClasses, NEW rating \in Ratings(type),
           NEW old, old = Stored(type, tier, given),
           NEW new, new = Chosen(old, class, rating)
    PROVE  Filled(new)
<1>1. /\ DOMAIN old = Required(type, tier) \cup given
                        \cup (Optional(type, tier) \cap DOMAIN Proposal)
                        \cup {"device_type", "tier"}
      /\ old["device_type"] = type /\ old["tier"] = tier
      /\ \A f \in DOMAIN old : old[f] # "KeyError" /\ old[f] # None /\ old[f] # "other"
  <2>1. Holds(old, type, tier, given)
    BY StoredFields
  <2> QED
    BY <2>1 DEF Holds
<1> DEFINE v(f) == CASE f = "control_class" -> class
                     [] f = "max_charge_kw" -> rating
                     [] OTHER               -> old[f]
<1>2. DOMAIN new = DOMAIN old /\ \A f \in DOMAIN old : new[f] = v(f)
  BY DEF Chosen
<1>3. v("control_class") = class /\ v("device_type") = type /\ v("tier") = tier
  BY <1>1
<1>4. "control_class" \in DOMAIN old
  BY <1>1, NotAsked, Proposals
<1>5. class # "KeyError" /\ class # None /\ class # "other"
  BY DEF ControlClasses, None
<1>6. ASSUME NEW f \in DOMAIN old PROVE v(f) \in {class, rating, old[f]}
  <2>1. CASE f = "control_class"
    BY <2>1
  <2>2. CASE f = "max_charge_kw"
    BY <2>2
  <2>3. CASE f \notin {"control_class", "max_charge_kw"}
    BY <2>3
  <2> QED
    BY <2>1, <2>2, <2>3
<1> HIDE DEF v
<1>7. /\ {"device_type", "tier", "control_class"} \subseteq DOMAIN new
      /\ new["device_type"] = type /\ new["tier"] = tier /\ new["control_class"] = class
  BY <1>1, <1>2, <1>3, <1>4
<1>8. DOMAIN old \subseteq Asked(type, tier) \cup {"device_type", "tier"}
  BY <1>1 DEF Choices, Asked
<1>9. \A f \in DOMAIN new : new[f] # "KeyError" /\ new[f] # None /\ new[f] # "other"
  BY <1>1, <1>2, <1>5, <1>6, RatingIsValue
<1> QED
  BY <1>1, <1>2, <1>7, <1>8, <1>9 DEF Filled

-----------------------------------------------------------------------------
(***************************************************************************)
(* Stored devices can be built and measured                                *)
(***************************************************************************)

\* What a builder finds: a value of the form, or what stands in for a field.
StandIns      == {None, "0", "0.5", "air", "water", "50", "0.95", "10", "100", "pv", "180", "30",
                  "solcast", "3"}
ValuesOf(cfg) == {cfg[f] : f \in DOMAIN cfg} \cup StandIns

LEMMA Got ==
    ASSUME NEW cfg, NEW f
    PROVE  /\ Opt(cfg, f) \in ValuesOf(cfg)
           /\ \A default \in StandIns : Get(cfg, f, default) \in ValuesOf(cfg)
           /\ f \in DOMAIN cfg => Key(cfg, f) \in ValuesOf(cfg)
<1>1. None \in StandIns
  BY DEF StandIns
<1> QED
  BY <1>1 DEF Opt, Get, Key, ValuesOf

LEMMA NoGap ==
    ASSUME NEW cfg, Filled(cfg), NEW s \in Seq(ValuesOf(cfg)), NEW i \in DOMAIN s
    PROVE  s[i] # "KeyError"
<1>1. "KeyError" \notin StandIns
  BY DEF StandIns, None
<1>2. "KeyError" \notin ValuesOf(cfg)
  BY <1>1 DEF Filled, ValuesOf
<1>3. s[i] \in ValuesOf(cfg)
  OBVIOUS
<1> QED
  BY <1>2, <1>3

LEMMA RoomFields ==
    ASSUME NEW cfg, {"floor_area_m2"} \subseteq DOMAIN cfg
    PROVE  Room(cfg) \in Seq(ValuesOf(cfg))
BY Got DEF Room, StandIns

LEMMA ThermostatLoadFields ==
    ASSUME NEW cfg, {"max_power_kw"} \subseteq DOMAIN cfg
    PROVE  ThermostatLoad(cfg) \in Seq(ValuesOf(cfg))
BY Got DEF ThermostatLoad, StandIns

LEMMA HeatPumpFields ==
    ASSUME NEW cfg, {"max_power_kw"} \subseteq DOMAIN cfg
    PROVE  HeatPump(cfg) \in Seq(ValuesOf(cfg))
BY Got DEF HeatPump, StandIns

LEMMA WaterHeaterFields ==
    ASSUME NEW cfg, {"volume_liters", "max_power_kw"} \subseteq DOMAIN cfg
    PROVE  WaterHeater(cfg) \in Seq(ValuesOf(cfg))
BY Got DEF WaterHeater, StandIns

LEMMA BatteryFields ==
    ASSUME NEW cfg, {"capacity_kwh", "max_charge_kw", "max_discharge_kw"} \subseteq DOMAIN cfg
    PROVE  Battery(cfg) \in Seq(ValuesOf(cfg))
BY Got DEF Battery, StandIns

LEMMA PVForecastFields ==
    ASSUME NEW cfg, {"peak_power_kwp"} \subseteq DOMAIN cfg
    PROVE  PVForecast(cfg) \in Seq(ValuesOf(cfg))
BY Got DEF PVForecast, StandIns

LEMMA EVChargerFields ==
    ASSUME NEW cfg, {"max_charge_kw"} \subseteq DOMAIN cfg
    PROVE  EVCharger(cfg) \in Seq(ValuesOf(cfg))
BY Got DEF EVCharger, StandIns

LEMMA PassiveLoadFields ==
    ASSUME NEW cfg, {"typical_daily_kwh"} \subseteq DOMAIN cfg
    PROVE  PassiveLoad(cfg) \in Seq(ValuesOf(cfg))
BY Got DEF PassiveLoad, StandIns

LEMMA PoolPumpFields ==
    ASSUME NEW cfg, {"max_power_kw"} \subseteq DOMAIN cfg
    PROVE  PoolPump(cfg) \in Seq(ValuesOf(cfg))
BY Got DEF PoolPump, StandIns

\* Each form requires what the builder of its type insists on, in every tier.
LEMMA ParametersFound ==
    ASSUME NEW cfg, Filled(cfg)
    PROVE  Parameters(cfg) \in Seq(ValuesOf(cfg))
<1> DEFINE type == cfg["device_type"]
           tier == cfg["tier"]
<1>1. type \in DeviceTypes /\ DeviceSchema(type, tier).required \subseteq DOMAIN cfg
  BY DEF Filled, Required
<1>2. CASE type = "room"
  <2>1. Parameters(cfg) = Room(cfg)
    BY <1>2 DEF Parameters
  <2>2. {"floor_area_m2"} \subseteq DOMAIN cfg
    BY <1>1, <1>2 DEF DeviceSchema, RoomSchema, Form
  <2> QED
    BY <2>1, <2>2, RoomFields
<1>3. CASE type = "thermostat_load"
  <2>1. Parameters(cfg) = ThermostatLoad(cfg)
    BY <1>3 DEF Parameters
  <2>2. {"max_power_kw"} \subseteq DOMAIN cfg
    BY <1>1, <1>3 DEF DeviceSchema, ThermostatLoadSchema, Form
  <2> QED
    BY <2>1, <2>2, ThermostatLoadFields
<1>4. CASE type = "heat_pump"
  <2>1. Parameters(cfg) = HeatPump(cfg)
    BY <1>4 DEF Parameters
  <2>2. {"max_power_kw"} \subseteq DOMAIN cfg
    BY <1>1, <1>4 DEF DeviceSchema, HeatPumpSchema, Form
  <2> QED
    BY <2>1, <2>2, HeatPumpFields
<1>5. CASE type = "water_heater"
  <2>1. Parameters(cfg) = WaterHeater(cfg)
    BY <1>5 DEF Parameters
  <2>2. {"volume_liters", "max_power_kw"} \subseteq DOMAIN cfg
    BY <1>1, <1>5 DEF DeviceSchema, WaterHeaterSchema, Form
  <2> QED
    BY <2>1, <2>2, WaterHeaterFields
<1>6. CASE type = "battery"
  <2>1. Parameters(cfg) = Battery(cfg)
    BY <1>6 DEF Parameters
  <2>2. {"capacity_kwh", "max_charge_kw", "max_discharge_kw"} \subseteq DOMAIN cfg
    BY <1>1, <1>6 DEF DeviceSchema, BatterySchema, Form
  <2> QED
    BY <2>1, <2>2, BatteryFields
<1>7. CASE type = "pv_forecast"
  <2>1. Parameters(cfg) = PVForecast(cfg)
    BY <1>7 DEF Parameters
  <2>2. {"peak_power_kwp"} \subseteq DOMAIN cfg
    BY <1>1, <1>7 DEF DeviceSchema, PVForecastSchema, Form
  <2> QED
    BY <2>1, <2>2, PVForecastFields
<1>8. CASE type = "ev_charger"
  <2>1. Parameters(cfg) = EVCharger(cfg)
    BY <1>8 DEF Parameters
  <2>2. {"max_charge_kw"} \subseteq DOMAIN cfg
    BY <1>1, <1>8 DEF DeviceSchema, EVChargerSchema, Form
  <2> QED
    BY <2>1, <2>2, EVChargerFields
<1>9. CASE type = "passive_load"
  <2>1. Parameters(cfg) = PassiveLoad(cfg)
    BY <1>9 DEF Parameters
  <2>2. {"typical_daily_kwh"} \subseteq DOMAIN cfg
    BY <1>1, <1>9 DEF DeviceSchema, PassiveLoadSchema, Form
  <2> QED
    BY <2>1, <2>2, PassiveLoadFields
<1>10. CASE type = "pool_pump"
  <2>1. Parameters(cfg) = PoolPump(cfg)
    BY <1>10 DEF Parameters
  <2>2. {"max_power_kw"} \subseteq DOMAIN cfg
    BY <1>1, <1>10 DEF DeviceSchema, PoolPumpSchema, Form
  <2> QED
    BY <2>1, <2>2, PoolPumpFields
<1> QED
  BY <1>1, <1>2, <1>3, <1>4, <1>5, <1>6, <1>7, <1>8, <1>9, <1>10 DEF DeviceTypes

\* Nothing a builder insists on is missing.
LEMMA FilledHasKeys == ASSUME NEW cfg, Filled(cfg) PROVE ~ MissesKey(cfg)
<1>1. "safe_default_script" \in DOMAIN cfg
  BY DEF Filled, Required
<1>2. Key(cfg, "safe_default_script") # "KeyError"
  BY <1>1 DEF Filled, Key, Get
<1>3. \A i \in DOMAIN Parameters(cfg) : Parameters(cfg)[i] # "KeyError"
  BY ParametersFound, NoGap
<1> QED
  BY <1>2, <1>3 DEF MissesKey, SafeDefault

\* What hemm_core refuses was typed: three phases stand in where none are asked for.
LEMMA RefusedIsTyped == ASSUME NEW cfg, Filled(cfg), Refused(cfg) PROVE Overrated(cfg)
<1> DEFINE power  == Key(cfg, "max_charge_kw")
           phases == Get(cfg, "phases", "3")
<1>1. cfg.device_type = "ev_charger"
  BY DEF Refused
<1>2. EVCharger(cfg)[1] = power /\ EVCharger(cfg)[3] = phases
  BY DEF EVCharger
<1>3. power = "excess" \/ (power = "three_phase" /\ phases # "3")
  BY <1>2 DEF Refused
<1>4. "max_charge_kw" \in DOMAIN cfg
  BY <1>1 DEF Filled, Required, DeviceSchema, EVChargerSchema, Form
<1>5. power = cfg.max_charge_kw
  BY <1>4 DEF Key, Get
<1>6. phases # "3" => "phases" \in DOMAIN cfg /\ cfg.phases # "3"
  BY DEF Get
<1> QED
  BY <1>1, <1>3, <1>5, <1>6 DEF Overrated

LEMMA FilledBuilds == ASSUME NEW cfg, Filled(cfg), Raises(cfg) PROVE Overrated(cfg)
BY FilledHasKeys, RefusedIsTyped DEF Raises

LEMMA NeededIsRead == ASSUME NEW cfg, Filled(cfg) PROVE Needed(cfg) \subseteq StateOf(cfg)
<1>1. CASE cfg["device_type"] = "battery"
  <2>1. "capacity_kwh" \in DOMAIN cfg
    BY <1>1 DEF Filled, Required, DeviceSchema, BatterySchema, Form
  <2>2. Capacity(cfg) # None
    BY <2>1 DEF Filled, Capacity, Get
  <2> QED
    BY <1>1, <2>2 DEF Needed, StateOf
<1>2. CASE cfg["device_type"] # "battery"
  BY <1>2 DEF Needed, StateOf
<1> QED
  BY <1>1, <1>2

LEMMA StorageHasCharge ==
    ASSUME NEW cfg, Filled(cfg), "soc_entity" \in DOMAIN cfg
    PROVE  cfg["device_type"] \in {"battery", "ev_charger"}
<1> DEFINE type == cfg["device_type"]
           tier == cfg["tier"]
<1>1. type \in DeviceTypes /\ tier \in Tiers /\ "soc_entity" \in Asked(type, tier)
  BY DEF Filled
<1> HIDE DEF type, tier
<1>2. type \in {"battery", "ev_charger"}
  BY <1>1 DEF DeviceTypes, Tiers, Asked, Required, Optional, DeviceSchema, Form, From,
       SafeDefaultSchema, RoomSchema, ThermostatLoadSchema, HeatPumpSchema, WaterHeaterSchema,
       BatterySchema, PVForecastSchema, EVChargerSchema, PassiveLoadSchema, PoolPumpSchema
<1> QED
  BY <1>2 DEF type

-----------------------------------------------------------------------------
(***************************************************************************)
(* Devices that come and go, and the solve under way                       *)
(***************************************************************************)

\* An id is given once, so a device that a solve took is the one the entry has.
DevicesOK ==
    /\ added \in Nat
    /\ DOMAIN devices \subseteq 1..added
    /\ \A i \in DOMAIN devices : Filled(devices[i])

SolveOK ==
    /\ solve = [phase |-> solve.phase, devices |-> solve.devices,
                selected |-> solve.selected, start |-> solve.start, todo |-> solve.todo]
    /\ solve.phase \in {"idle", "prices", "solving", "actuating"}
    /\ DOMAIN solve.devices \subseteq 1..added
    /\ \A i \in DOMAIN solve.devices : Filled(solve.devices[i])
    /\ \A i \in DOMAIN devices \cap DOMAIN solve.devices : devices[i] = solve.devices[i]
    /\ solve.selected \subseteq DOMAIN solve.devices
    /\ solve.phase = "solving" => NeededEntities(solve) \subseteq solve.start
    /\ solve.todo \subseteq 1..added /\ (solve.phase # "actuating" => solve.todo = {})

\* What adding a device does.
LEMMA AddsFilled ==
    ASSUME ConfigureDevice
    PROVE  \E new : /\ Filled(new) /\ added' = added + 1
                    /\ devices' = [i \in DOMAIN devices \cup {added'} |->
                                     IF i = added' THEN new ELSE devices[i]]
<1>1. \/ \E type \in Types, chosen \in Tiers :
            LET tier == TierFor(type, chosen)
            IN  \E given \in Fillings(Choices(type, tier)) : Add(type, tier, given, ControlClasses)
      \/ \E type \in Companions : Add(type, "pro", Choices(type, "pro"), Classes)
  BY DEF ConfigureDevice
<1>2. \E type \in DeviceTypes, tier \in Tiers : \E given \in SUBSET Choices(type, tier) :
        \E classes \in SUBSET ControlClasses : Add(type, tier, given, classes)
  <2>1. CASE \E type \in Types, chosen \in Tiers :
               LET tier == TierFor(type, chosen)
               IN  \E given \in Fillings(Choices(type, tier)) : Add(type, tier, given, ControlClasses)
    <3>1. PICK type \in Types, chosen \in Tiers :
               LET tier == TierFor(type, chosen)
               IN  \E given \in Fillings(Choices(type, tier)) : Add(type, tier, given, ControlClasses)
      BY <2>1
    <3>2. type \in DeviceTypes /\ TierFor(type, chosen) \in Tiers
      BY TierIsTier, TypesAssumption
    <3>3. \A S : Fillings(S) \subseteq SUBSET S
      BY DEF Fillings
    <3> QED
      BY <3>1, <3>2, <3>3
  <2>2. CASE \E type \in Companions : Add(type, "pro", Choices(type, "pro"), Classes)
    <3>1. "pro" \in Tiers /\ Companions \subseteq DeviceTypes
      BY TypesAssumption DEF Tiers
    <3> QED
      BY <2>2, <3>1, ClassesAssumption
  <2> QED
    BY <1>1, <2>1, <2>2
<1>3. PICK type \in DeviceTypes, tier \in Tiers : \E given \in SUBSET Choices(type, tier) :
        \E classes \in SUBSET ControlClasses : Add(type, tier, given, classes)
  BY <1>2
<1>4. PICK given \in SUBSET Choices(type, tier) :
        \E classes \in SUBSET ControlClasses : Add(type, tier, given, classes)
  BY <1>3
<1>5. PICK class \in ControlClasses, rating \in Ratings(type) :
        devices' = [i \in DOMAIN devices \cup {added'} |->
                      IF i = added' THEN Chosen(Stored(type, tier, given), class, rating)
                      ELSE devices[i]]
  BY <1>4 DEF Add
<1> DEFINE new == Chosen(Stored(type, tier, given), class, rating)
<1>6. Filled(new)
  BY StoredFilled
<1>7. added' = added + 1
  BY DEF ConfigureDevice
<1>8. devices' = [i \in DOMAIN devices \cup {added'} |-> IF i = added' THEN new ELSE devices[i]]
  BY <1>5
<1> HIDE DEF new
<1> QED
  BY <1>6, <1>7, <1>8

LEMMA DevicesStep == ASSUME DevicesOK, [Next]_vars PROVE DevicesOK'
<1>1. CASE ConfigureDevice
  <2>1. PICK new : /\ Filled(new) /\ added' = added + 1
                   /\ devices' = [i \in DOMAIN devices \cup {added'} |->
                                     IF i = added' THEN new ELSE devices[i]]
    BY <1>1, AddsFilled
  <2>2. DOMAIN devices' = DOMAIN devices \cup {added'}
    BY <2>1
  <2>3. \A i \in DOMAIN devices' : devices'[i] = IF i = added' THEN new ELSE devices[i]
    BY <2>1
  <2> QED
    BY <2>1, <2>2, <2>3 DEF DevicesOK
<1>2. CASE RemoveDevice
  BY <1>2 DEF RemoveDevice, DevicesOK
<1>3. CASE UNCHANGED <<devices, added>>
  BY <1>3 DEF DevicesOK
<1> QED
  BY <1>1, <1>2, <1>3
     DEF Next, StartSolve, Skip, Submit, SolveReturns, Raise, Actuate, CutShort, ActuationDone, Republish, vars

LEMMA NothingUnderWay ==
    /\ NoSolve.phase = "idle" /\ DOMAIN NoSolve.devices = {} /\ NoSolve.selected = {}
    /\ NoSolve.start = {} /\ NoSolve.todo = {}
    /\ NoSolve = [phase |-> NoSolve.phase, devices |-> NoSolve.devices,
                  selected |-> NoSolve.selected, start |-> NoSolve.start, todo |-> NoSolve.todo]
BY DEF NoSolve

LEMMA SolveStep == ASSUME DevicesOK, SolveOK, [Next]_vars PROVE SolveOK'
<1>1. CASE ConfigureDevice
  <2>1. PICK new : /\ Filled(new) /\ added' = added + 1
                   /\ devices' = [i \in DOMAIN devices \cup {added'} |->
                                     IF i = added' THEN new ELSE devices[i]]
    BY <1>1, AddsFilled
  <2>2. \A i \in DOMAIN solve.devices : i \in 1..added /\ i # added'
    BY <2>1 DEF DevicesOK, SolveOK
  <2>3. solve' = solve
    BY <1>1 DEF ConfigureDevice
  <2>4. \A i \in DOMAIN devices' \cap DOMAIN solve'.devices : devices'[i] = solve'.devices[i]
    BY <2>1, <2>2, <2>3 DEF SolveOK
  <2>5. DOMAIN solve'.devices \subseteq 1..added' /\ solve'.todo \subseteq 1..added'
    BY <2>1, <2>3 DEF DevicesOK, SolveOK
  <2> QED
    BY <2>3, <2>4, <2>5 DEF SolveOK, NeededEntities
<1>2. CASE RemoveDevice
  <2>1. solve' = solve /\ added' = added
    BY <1>2 DEF RemoveDevice
  <2>2. \A i \in DOMAIN devices' : i \in DOMAIN devices /\ devices'[i] = devices[i]
    BY <1>2 DEF RemoveDevice
  <2> QED
    BY <2>1, <2>2 DEF SolveOK, NeededEntities
<1>3. CASE StartSolve
  <2>1. PICK selected \in SUBSET DOMAIN devices :
          solve' = [NoSolve EXCEPT !.phase = "prices", !.devices = devices,
                                   !.selected = selected]
    BY <1>3 DEF StartSolve
  <2>2. solve' = [phase |-> "prices", devices |-> devices, selected |-> selected,
                  start |-> {}, todo |-> {}]
    BY <2>1, NothingUnderWay
  <2>3. devices' = devices /\ added' = added
    BY <1>3 DEF StartSolve
  <2> QED
    BY <2>2, <2>3 DEF SolveOK, DevicesOK
<1>4. CASE solve' = NoSolve /\ UNCHANGED <<devices, added>>
  BY <1>4, NothingUnderWay DEF SolveOK
<1>5. CASE Submit
  <2>1. PICK dark : /\ NeededEntities(solve) \cap dark = {}
                    /\ solve' = [solve EXCEPT !.phase = "solving",
                                              !.start = StateEntities(solve) \ dark]
    BY <1>5 DEF Submit
  <2>2. solve' = [phase |-> "solving", devices |-> solve.devices,
                  selected |-> solve.selected, start |-> StateEntities(solve) \ dark,
                  todo |-> solve.todo]
    BY <2>1 DEF SolveOK
  <2>3. devices' = devices /\ added' = added
    BY <1>5 DEF Submit
  <2>4. NeededEntities(solve') = NeededEntities(solve)
    BY <2>2 DEF NeededEntities
  <2>5. NeededEntities(solve) \subseteq StateEntities(solve)
    BY NeededIsRead DEF SolveOK, NeededEntities, StateEntities
  <2>6. solve.todo = {}
    BY <1>5 DEF Submit, SolveOK
  <2> QED
    BY <2>1, <2>2, <2>3, <2>4, <2>5, <2>6 DEF SolveOK
<1>6. CASE SolveReturns
  <2>1. devices' = devices /\ added' = added
    BY <1>6 DEF SolveReturns
  <2>2. ASSUME NEW planned \in SUBSET solve.selected, NEW modes \in [planned -> Modes],
               solve' = [NoSolve EXCEPT !.phase = "actuating",
                                        !.todo = Decisions(solve.devices, modes)]
        PROVE  SolveOK'
    <3>1. solve' = [phase |-> "actuating", devices |-> NoSolve.devices,
                    selected |-> NoSolve.selected, start |-> NoSolve.start,
                    todo |-> Decisions(solve.devices, modes)]
      BY <2>2, NothingUnderWay
    <3>2. Decisions(solve.devices, modes) \subseteq 1..added
      BY <2>2 DEF Decisions, SolveOK
    <3> QED
      BY <2>1, <3>1, <3>2, NothingUnderWay DEF SolveOK
  <2> QED
    BY <1>4, <1>6, <2>1, <2>2 DEF SolveReturns
<1>7. CASE Actuate
  <2>1. PICK i \in solve.todo : solve' = [solve EXCEPT !.todo = @ \ {i}]
    BY <1>7 DEF Actuate
  <2>2. solve' = [phase |-> solve.phase, devices |-> solve.devices, selected |-> solve.selected,
                  start |-> solve.start, todo |-> solve.todo \ {i}]
    BY <2>1 DEF SolveOK
  <2>3. UNCHANGED <<devices, added>>
    BY <1>7 DEF Actuate
  <2>4. solve.phase = "actuating"
    BY <1>7 DEF Actuate
  <2> QED
    BY <2>2, <2>3, <2>4 DEF SolveOK
<1>8. CASE UNCHANGED <<devices, added, solve>>
  BY <1>8 DEF SolveOK, NeededEntities
<1> QED
  BY <1>1, <1>2, <1>3, <1>4, <1>5, <1>6, <1>7, <1>8
     DEF Next, Skip, Raise, CutShort, ActuationDone, Republish, vars

LEMMA AlwaysOK == Spec => [](DevicesOK /\ SolveOK)
<1>1. Init => DevicesOK /\ SolveOK
  BY NothingUnderWay DEF Init, DevicesOK, SolveOK
<1>2. DevicesOK /\ SolveOK /\ [Next]_vars => (DevicesOK /\ SolveOK)'
  BY DevicesStep, SolveStep
<1> QED
  BY <1>1, <1>2, PTL DEF Spec

\* Whatever a form is filled in with, in whatever tier, the manifest of the device
\* can be built, unless its user overrates an EV charger.
THEOREM DevicesBuild == Spec => []FlowDevicesBuild
<1>1. DevicesOK => FlowDevicesBuild
  BY FilledBuilds DEF DevicesOK, FlowDevicesBuild
<1> QED
  BY <1>1, AlwaysOK, PTL

\* No solve is submitted with an assumed start state: not after a restart, when
\* entities are missing, and not for devices that were not selected.
THEOREM StartStateMeasured == Spec => []MeasuredStartState
<1>1. SolveOK => MeasuredStartState
  <2> SUFFICES ASSUME SolveOK, solve.phase = "solving", NEW i \in DOMAIN solve.devices,
                      NEW f \in {"soc_entity", "temp_entity"} \cap DOMAIN solve.devices[i]
               PROVE  <<i, f>> \in solve.start \/ solve.devices[i]["device_type"] = "ev_charger"
    BY DEF MeasuredStartState
  <2> DEFINE cfg == solve.devices[i]
  <2>1. Filled(cfg) /\ f \in DOMAIN cfg
    BY DEF SolveOK
  <2>2. CASE f \in Needed(cfg)
    <3>1. <<i, f>> \in NeededEntities(solve)
      BY <2>2 DEF NeededEntities
    <3> QED
      BY <3>1 DEF SolveOK
  <2>3. f \in Needed(cfg) \/ cfg["device_type"] = "ev_charger"
    BY <2>1, StorageHasCharge DEF Needed
  <2> QED
    BY <2>2, <2>3
<1> QED
  BY <1>1, AlwaysOK, PTL

-----------------------------------------------------------------------------
(***************************************************************************)
(* What the last plan led to, and what is shown of it                      *)
(***************************************************************************)

\* The plan of the last result says of device i, as it is now, to act.
SaysAct(i) ==
    /\ i \in DOMAIN last_result.modes
    /\ ActionOf(Manifest(devices[i]), last_result.modes[i]) # {}

ResultOK ==
    /\ DOMAIN last_result.modes \subseteq 1..added
    /\ DOMAIN device_plans \subseteq 1..added
    /\ DOMAIN outcome \cup cut \subseteq 1..added
    /\ solve.phase = "actuating" => cut = {}
    /\ \A i \in DOMAIN outcome : outcome[i] \in Outcomes
    /\ last_result.status \in Usable => \A i \in DOMAIN devices : Decided(i) <=> SaysAct(i)
    /\ fresh => \A i \in DOMAIN devices \cap DOMAIN device_plans :
                    device_plans[i] = DevicePlan(last_result, i)

LEMMA ActsIf ==
    ASSUME NEW cfg, Filled(cfg), NEW mode
    PROVE  ActionOf(Manifest(cfg), mode) # {} <=>
               /\ mode = "active" /\ cfg["control_class"] # "passive"
               /\ "active_action_script" \in DOMAIN cfg
<1>1. Manifest(cfg).control_class = cfg["control_class"]
  BY DEF Manifest, Get, Filled
<1>2. CASE "active_action_script" \in DOMAIN cfg
  <2>1. DOMAIN Manifest(cfg).actions = {"active"}
    BY <1>2 DEF Manifest, Actions
  <2> QED
    BY <1>1, <1>2, <2>1 DEF ActionOf
<1>3. CASE "active_action_script" \notin DOMAIN cfg
  <2>1. Manifest(cfg).actions = <<>>
    BY <1>3 DEF Manifest, Actions
  <2>2. ActionOf(Manifest(cfg), mode) = {}
    BY <2>1 DEF ActionOf
  <2> QED
    BY <1>3, <2>2
<1> QED
  BY <1>2, <1>3

LEMMA PublishOK ==
    ASSUME DevicesOK, NEW r, Publish(r)
    PROVE  /\ DOMAIN device_plans' \subseteq 1..added
           /\ \A i \in DOMAIN devices : device_plans'[i] = DevicePlan(r, i)
BY DEF Publish, BuildData, DevicesOK

\* What the last result says stays what it says while it and the list do not change.
LEMMA SaysStay ==
    ASSUME UNCHANGED <<devices, last_result>>
    PROVE  /\ \A i : DevicePlan(last_result, i)' = DevicePlan(last_result, i)
           /\ \A i : SaysAct(i)' <=> SaysAct(i)
BY DEF DevicePlan, SaysAct

\* Decisions are taken up and cut, but none appears and none is lost.
LEMMA DecidedStay ==
    ASSUME SolveOK, ResultOK, [Next]_vars, ~SolveReturns
    PROVE  /\ \A i : Decided(i)' <=> Decided(i)
           /\ DOMAIN outcome' \cup cut' \subseteq 1..added
           /\ \A i \in DOMAIN outcome' : outcome'[i] \in Outcomes
           /\ solve'.phase = "actuating" => cut' = {}
<1>1. CASE UNCHANGED <<solve, outcome, cut>>
  BY <1>1 DEF Decided, ResultOK
<1>2. CASE solve.todo = {} /\ solve'.todo = {} /\ solve'.phase # "actuating" /\ UNCHANGED <<outcome, cut>>
  BY <1>2 DEF Decided, ResultOK
<1>3. CASE Actuate
  <2>1. PICK i \in solve.todo, how \in Outcomes :
          /\ outcome' = [j \in DOMAIN outcome \cup {i} |-> IF j = i THEN how ELSE outcome[j]]
          /\ solve' = [solve EXCEPT !.todo = @ \ {i}]
    BY <1>3 DEF Actuate
  <2>2. solve'.phase = solve.phase /\ solve'.todo = solve.todo \ {i} /\ cut' = cut
    BY <1>3, <2>1 DEF Actuate, SolveOK
  <2>3. DOMAIN outcome' = DOMAIN outcome \cup {i}
    BY <2>1
  <2>4. \A j \in DOMAIN outcome' : outcome'[j] \in Outcomes
    BY <2>1 DEF ResultOK
  <2> QED
    BY <2>2, <2>3, <2>4 DEF Decided, ResultOK, SolveOK
<1>4. CASE CutShort
  <2>1. cut = {} /\ cut' = solve.todo /\ outcome' = outcome
    BY <1>4 DEF CutShort, ResultOK
  <2>2. solve'.todo = {} /\ solve'.phase = "idle"
    BY <1>4, NothingUnderWay DEF CutShort
  <2> QED
    BY <2>1, <2>2 DEF Decided, ResultOK, SolveOK
<1>5. CASE StartSolve
  <2>1. solve'.todo = {} /\ solve'.phase = "prices"
    BY <1>5, NothingUnderWay DEF StartSolve
  <2>2. solve.todo = {} /\ UNCHANGED <<outcome, cut>>
    BY <1>5 DEF StartSolve, SolveOK
  <2> QED
    BY <1>2, <2>1, <2>2
<1>6. CASE Submit
  <2>1. solve.todo = {} /\ UNCHANGED <<outcome, cut>>
    BY <1>6 DEF Submit, SolveOK
  <2>2. solve'.todo = solve.todo /\ solve'.phase = "solving"
    BY <1>6 DEF Submit, SolveOK
  <2> QED
    BY <1>2, <2>1, <2>2
<1>7. CASE Skip \/ Raise \/ ActuationDone
  <2>1. solve.todo = {} /\ UNCHANGED <<outcome, cut>> /\ solve' = NoSolve
    BY <1>7 DEF Skip, Raise, ActuationDone, SolveOK
  <2> QED
    BY <1>2, <2>1, NothingUnderWay
<1> QED
  BY <1>1, <1>3, <1>4, <1>5, <1>6, <1>7
     DEF Next, ConfigureDevice, RemoveDevice, Republish, vars

LEMMA RepublishOK ==
    ASSUME DevicesOK, SolveOK, ResultOK, [Next]_vars, ~SolveReturns, Publish(last_result),
           UNCHANGED <<devices, added, last_result>>
    PROVE  ResultOK'
<1>1. /\ DOMAIN device_plans' \subseteq 1..added
      /\ \A i \in DOMAIN devices : device_plans'[i] = DevicePlan(last_result, i)
  BY PublishOK
<1> QED
  BY <1>1, SaysStay, DecidedStay DEF ResultOK

LEMMA ResultStep == ASSUME DevicesOK, SolveOK, ResultOK, [Next]_vars PROVE ResultOK'
<1>1. CASE ConfigureDevice
  <2>1. PICK new : /\ Filled(new) /\ added' = added + 1
                   /\ devices' = [i \in DOMAIN devices \cup {added'} |->
                                     IF i = added' THEN new ELSE devices[i]]
    BY <1>1, AddsFilled
  <2>2. UNCHANGED <<solve, last_result, device_plans, fresh, outcome, cut>>
    BY <1>1 DEF ConfigureDevice
  <2>3. added \in Nat /\ added' \notin 1..added /\ 1..added \subseteq 1..added'
    BY <2>1 DEF DevicesOK
  <2>4. /\ DOMAIN last_result'.modes \subseteq 1..added'
        /\ DOMAIN device_plans' \subseteq 1..added'
        /\ DOMAIN outcome' \cup cut' \subseteq 1..added'
    BY <2>2, <2>3 DEF ResultOK
  <2>5. ASSUME NEW i \in DOMAIN devices', last_result'.status \in Usable
        PROVE  Decided(i)' <=> SaysAct(i)'
    <3>1. CASE i = added'
      <4>1. i \notin DOMAIN last_result'.modes
        BY <2>2, <2>3, <3>1 DEF ResultOK
      <4>2. i \notin solve'.todo \cup DOMAIN outcome' \cup cut'
        BY <2>2, <2>3, <3>1 DEF ResultOK, SolveOK
      <4> QED
        BY <4>1, <4>2 DEF SaysAct, Decided
    <3>2. CASE i # added'
      <4>1. i \in DOMAIN devices /\ devices'[i] = devices[i]
        BY <2>1, <3>2
      <4> QED
        BY <2>2, <2>5, <4>1 DEF ResultOK, SaysAct, Decided
    <3> QED
      BY <3>1, <3>2
  <2>6. ASSUME NEW i \in DOMAIN devices' \cap DOMAIN device_plans', fresh'
        PROVE  device_plans'[i] = DevicePlan(last_result', i)
    <3>1. i \in DOMAIN devices
      BY <2>1, <2>2, <2>3 DEF ResultOK
    <3> QED
      BY <2>2, <2>6, <3>1 DEF ResultOK
  <2>7. \A i : DevicePlan(last_result, i)' = DevicePlan(last_result', i)
    BY DEF DevicePlan
  <2> QED
    BY <2>2, <2>4, <2>5, <2>6, <2>7 DEF ResultOK
<1>2. CASE RemoveDevice
  <2>1. UNCHANGED <<added, solve, last_result, device_plans, fresh, outcome, cut>>
    BY <1>2 DEF RemoveDevice
  <2>2. \A i \in DOMAIN devices' : i \in DOMAIN devices /\ devices'[i] = devices[i]
    BY <1>2 DEF RemoveDevice
  <2>3. \A i : DevicePlan(last_result, i)' = DevicePlan(last_result, i)
    BY <2>1 DEF DevicePlan
  <2>4. \A i \in DOMAIN devices' : SaysAct(i)' <=> SaysAct(i)
    BY <2>1, <2>2 DEF SaysAct
  <2>5. \A i : Decided(i)' <=> Decided(i)
    BY <2>1 DEF Decided
  <2> QED
    BY <2>1, <2>2, <2>3, <2>4, <2>5 DEF ResultOK
<1>3. CASE SolveReturns
  <2>1. devices' = devices /\ added' = added /\ outcome' = NoOutcomes /\ cut' = {}
    BY <1>3 DEF SolveReturns
  <2>2. DOMAIN outcome' = {}
    BY <2>1 DEF NoOutcomes
  <2>3. ASSUME NEW status \in Usable, NEW planned \in SUBSET solve.selected,
               NEW modes \in [planned -> Modes],
               last_result' = [status |-> status, modes |-> modes],
               solve' = [NoSolve EXCEPT !.phase = "actuating",
                                        !.todo = Decisions(solve.devices, modes)],
               fresh' = FALSE, UNCHANGED device_plans
        PROVE  ResultOK'
    <3>1. last_result'.modes = modes /\ DOMAIN modes = planned
      BY <2>3
    <3>2. planned \subseteq DOMAIN solve.devices /\ planned \subseteq 1..added
      BY <2>3 DEF SolveOK
    <3>3. solve'.todo = Decisions(solve.devices, modes)
      BY <2>3, NothingUnderWay
    <3>4. ASSUME NEW i \in DOMAIN devices PROVE Decided(i)' <=> SaysAct(i)'
      <4>1. Decided(i)' <=> i \in planned /\ ActionOf(Manifest(solve.devices[i]), modes[i]) # {}
        BY <2>1, <2>2, <3>1, <3>3 DEF Decided, Decisions
      <4>2. i \in planned => solve.devices[i] = devices[i]
        BY <3>2 DEF SolveOK
      <4> QED
        BY <2>1, <3>1, <4>1, <4>2 DEF SaysAct
    <3> QED
      BY <2>1, <2>2, <2>3, <3>1, <3>2, <3>4 DEF ResultOK
  <2>4. ASSUME NEW status, status \notin Usable,
               last_result' = [status |-> status, modes |-> NoPlans],
               Publish(last_result')
        PROVE  ResultOK'
    <3>1. last_result'.status \notin Usable /\ DOMAIN last_result'.modes = {}
      BY <2>4 DEF NoPlans
    <3>2. /\ DOMAIN device_plans' \subseteq 1..added
          /\ \A i \in DOMAIN devices : device_plans'[i] = DevicePlan(last_result', i)
      BY <2>4, PublishOK
    <3>3. \A i : DevicePlan(last_result, i)' = DevicePlan(last_result', i)
      BY DEF DevicePlan
    <3> QED
      BY <2>1, <2>2, <3>1, <3>2, <3>3 DEF ResultOK
  <2> QED
    BY <1>3, <2>3, <2>4 DEF SolveReturns
<1>4. CASE /\ ~SolveReturns /\ Publish(last_result)
           /\ UNCHANGED <<devices, added, last_result>>
  BY <1>4, RepublishOK
<1>5. CASE ~SolveReturns /\ UNCHANGED <<devices, added, last_result, device_plans, fresh>>
  BY <1>5, SaysStay, DecidedStay DEF ResultOK
<1> QED
  BY <1>1, <1>2, <1>3, <1>4, <1>5
     DEF Next, StartSolve, Submit, Skip, Raise, Actuate, CutShort, ActuationDone, Republish, vars

LEMMA AlwaysResultOK == Spec => []ResultOK
<1>1. Init => ResultOK
  BY NothingUnderWay DEF Init, ResultOK, NoResult, NoPlans, NoOutcomes, Usable
<1>2. DevicesOK /\ SolveOK /\ ResultOK /\ [Next]_vars => ResultOK'
  BY ResultStep
<1> QED
  BY <1>1, <1>2, AlwaysOK, PTL DEF Spec

\* A slot of a usable plan is shown as planned.
LEMMA SlotPower ==
    ASSUME NEW st, NEW md
    PROVE  Slot(st, md).power = "planned" /\ Slot(st, md).reason = "planned"
BY Zenon DEF Slot

\* A usable plan is always shown with confidence.
LEMMA SlotConfidence ==
    ASSUME NEW st, NEW md PROVE Slot(st, md).confidence \in {95, 70}
<1> DEFINE c == IF st = "OPTIMAL" THEN 95 ELSE 70
<1>1. Slot(st, md).confidence = c
  BY Zenon DEF Slot
<1> QED
  BY <1>1

\* It is shown active by a plan that says so if the slot's mode is active.
LEMMA SlotMode ==
    ASSUME NEW st, NEW md
    PROVE  md = "active" <=> Slot(st, md).mode = "active" /\ md # ""
<1>1. Slot(st, md).mode = IF md = "" THEN "active" ELSE md
  BY Zenon DEF Slot
<1> QED
  BY <1>1

\* When the sensors were written after the last plan, they show a device that may act
\* as active, by a plan that says so, exactly if its action waits for its turn, was
\* taken up with some outcome, or was cut off, however the list was edited meanwhile.
THEOREM ShownIsActed == Spec => []ActedAsShown
<1>1. DevicesOK /\ ResultOK => ActedAsShown
  <2> SUFFICES ASSUME DevicesOK, ResultOK, fresh, last_result.status \in Usable,
                      NEW i \in DOMAIN devices \cap DOMAIN device_plans
               PROVE  Decided(i) <=> /\ ShownActive(i)
                                     /\ devices[i].control_class # "passive"
                                     /\ "active_action_script" \in DOMAIN devices[i]
    BY DEF ActedAsShown
  <2>1. Filled(devices[i])
    BY DEF DevicesOK
  <2>2. Decided(i) <=>
          /\ i \in DOMAIN last_result.modes /\ last_result.modes[i] = "active"
          /\ devices[i]["control_class"] # "passive"
          /\ "active_action_script" \in DOMAIN devices[i]
    BY <2>1, ActsIf DEF ResultOK, SaysAct
  <2>3. device_plans[i] = DevicePlan(last_result, i)
    BY DEF ResultOK
  <2>4. CASE i \in DOMAIN last_result.modes
    <3> DEFINE m == last_result.modes[i]
    <3>1. device_plans[i] = Slot(last_result.status, m)
      BY <2>3, <2>4 DEF DevicePlan, Usable
    <3>2. /\ PlanSensor(i) = device_plans[i].power
          /\ ReasonSensor(i) = device_plans[i].reason
          /\ ConfidenceSensor(i) = device_plans[i].confidence
          /\ ModeSensor(i) = device_plans[i].mode
      <4>1. i \in DOMAIN device_plans
        OBVIOUS
      <4> QED
        BY <4>1 DEF PlanSensor, ReasonSensor, ConfidenceSensor, ModeSensor
    <3>3. PlanSensor(i) = "planned"
      BY <3>1, <3>2, SlotPower
    <3>4. ReasonSensor(i) = "planned"
      BY <3>1, <3>2, SlotPower
    <3>5. ConfidenceSensor(i) > 0
      <4>1. ConfidenceSensor(i) \in {95, 70}
        BY <3>1, <3>2, SlotConfidence
      <4> QED
        BY <4>1
    <3>6. m = "active" <=> ModeSensor(i) = "active" /\ m # ""
      <4>1. ModeSensor(i) = Slot(last_result.status, m).mode
        BY <3>1, <3>2
      <4>2. m = "active" <=> Slot(last_result.status, m).mode = "active" /\ m # ""
        BY SlotMode, Zenon
      <4> QED
        BY <4>1, <4>2
    <3> HIDE DEF m
    <3>7. last_result.modes[i] # "" <=> m # ""
      BY DEF m
    <3>8. ShownActive(i) <=> m = "active"
      BY <3>3, <3>4, <3>5, <3>6, <3>7 DEF ShownActive
    <3> QED
      BY <2>2, <2>4, <3>8 DEF m
  <2>5. CASE i \notin DOMAIN last_result.modes
    <3>1. device_plans[i] = Idle
      BY <2>3, <2>5 DEF DevicePlan, Usable
    <3>2. ~ShownActive(i)
      BY <3>1 DEF Idle, ModeSensor, ShownActive
    <3> QED
      BY <2>2, <2>5, <3>2
  <2> QED
    BY <2>4, <2>5
<1> QED
  BY <1>1, AlwaysOK, AlwaysResultOK, PTL

-----------------------------------------------------------------------------
(***************************************************************************)
(* The types of the rest                                                   *)
(***************************************************************************)

ResultTypes ==
    /\ added <= MaxDevices
    /\ last_result.status \in Statuses \cup {"none"}
    /\ \A i \in DOMAIN last_result.modes : last_result.modes[i] \in Modes
    /\ \A i \in DOMAIN device_plans : device_plans[i] \in Shown
    /\ fresh \in BOOLEAN

\* What the sensors show of a slot.
LEMMA SlotShown == ASSUME NEW st, NEW md \in Modes PROVE Slot(st, md) \in Shown
<1> DEFINE c == IF st = "OPTIMAL" THEN 95 ELSE 70
           m == IF md = "" THEN "active" ELSE md
<1>1. Slot(st, md) = [power |-> "planned", confidence |-> c, mode |-> m, reason |-> "planned"]
  BY Zenon DEF Slot
<1>2. c \in {0, 70, 95}
  OBVIOUS
<1>3. m \in {"idle", "error", "active", "off"}
  BY ModesAssumption
<1> HIDE DEF c, m
<1> QED
  BY <1>1, <1>2, <1>3 DEF Shown

LEMMA PlanShown ==
    ASSUME NEW r, \A i \in DOMAIN r.modes : r.modes[i] \in Modes, NEW i
    PROVE  DevicePlan(r, i) \in Shown
<1>1. CASE r.status \in Usable /\ i \in DOMAIN r.modes
  <2>1. DevicePlan(r, i) = Slot(r.status, r.modes[i])
    BY <1>1 DEF DevicePlan, Usable
  <2> QED
    BY <1>1, <2>1, SlotShown
<1>2. CASE ~(r.status \in Usable /\ i \in DOMAIN r.modes)
  <2>1. DevicePlan(r, i) \in {Error, Idle}
    BY <1>2 DEF DevicePlan
  <2>2. Error \in Shown /\ Idle \in Shown
    BY DEF Error, Idle, Shown
  <2> QED
    BY <2>1, <2>2
<1> QED
  BY <1>1, <1>2

LEMMA PublishShown ==
    ASSUME NEW r, \A i \in DOMAIN r.modes : r.modes[i] \in Modes, Publish(r)
    PROVE  /\ \A i \in DOMAIN device_plans' : device_plans'[i] \in Shown
           /\ fresh' \in BOOLEAN
BY PlanShown DEF Publish, BuildData

LEMMA ResultTypesStep == ASSUME DevicesOK, ResultTypes, [Next]_vars PROVE ResultTypes'
<1>1. CASE ConfigureDevice
  <2>1. added' = added + 1 /\ added < MaxDevices
    BY <1>1 DEF ConfigureDevice
  <2>2. UNCHANGED <<last_result, device_plans, fresh>>
    BY <1>1 DEF ConfigureDevice
  <2> QED
    BY <2>1, <2>2, BoundAssumption DEF DevicesOK, ResultTypes
<1>2. CASE Publish(last_result) /\ UNCHANGED <<added, last_result>>
  <2>1. /\ \A i \in DOMAIN device_plans' : device_plans'[i] \in Shown
        /\ fresh' \in BOOLEAN
    BY <1>2, PublishShown DEF ResultTypes
  <2> QED
    BY <1>2, <2>1 DEF ResultTypes
<1>3. CASE UNCHANGED <<added, last_result, device_plans, fresh>>
  BY <1>3 DEF ResultTypes
<1>4. CASE SolveReturns
  <2>1. added' = added
    BY <1>4 DEF SolveReturns
  <2>2. ASSUME NEW status \in Statuses, NEW planned, NEW modes \in [planned -> Modes],
               last_result' = [status |-> status, modes |-> modes],
               fresh' = FALSE, UNCHANGED device_plans
        PROVE  ResultTypes'
    <3>1. last_result'.status = status /\ last_result'.modes = modes
      BY <2>2
    <3> QED
      BY <2>1, <2>2, <3>1 DEF ResultTypes
  <2>3. ASSUME NEW status \in Statuses,
               last_result' = [status |-> status, modes |-> NoPlans],
               Publish(last_result')
        PROVE  ResultTypes'
    <3>1. last_result'.status = status /\ DOMAIN last_result'.modes = {}
      BY <2>3 DEF NoPlans
    <3>2. /\ \A i \in DOMAIN device_plans' : device_plans'[i] \in Shown
          /\ fresh' \in BOOLEAN
      BY <2>3, <3>1, PublishShown
    <3> QED
      BY <2>1, <3>1, <3>2 DEF ResultTypes
  <2> QED
    BY <1>4, <2>2, <2>3 DEF SolveReturns
<1> QED
  BY <1>1, <1>2, <1>3, <1>4
     DEF Next, RemoveDevice, StartSolve, Submit, Skip, Raise, Actuate, CutShort, ActuationDone, Republish, vars

LEMMA AlwaysResultTypes == Spec => []ResultTypes
<1>1. Init => ResultTypes
  BY BoundAssumption DEF Init, ResultTypes, NoResult, NoPlans
<1>2. DevicesOK /\ ResultTypes /\ [Next]_vars => ResultTypes'
  BY ResultTypesStep
<1> QED
  BY <1>1, <1>2, AlwaysOK, PTL DEF Spec

\* Whatever is added, removed, solved and published, every variable keeps its type:
\* a device has no field that its form does not ask for, and a sensor shows one of
\* the values it may.
THEOREM TypeCorrect == Spec => []TypeOK
<1>1. DevicesOK /\ SolveOK /\ ResultOK /\ ResultTypes => TypeOK
  <2> SUFFICES ASSUME DevicesOK, SolveOK, ResultOK, ResultTypes PROVE TypeOK
    OBVIOUS
  <2>1. added \in 0..MaxDevices /\ 1..added \subseteq Ids
    BY BoundAssumption DEF DevicesOK, ResultTypes, Ids
  <2>2. \A i \in DOMAIN devices :
          DOMAIN devices[i] \subseteq Asked(devices[i].device_type, devices[i].tier)
                                        \cup {"device_type", "tier"}
    BY DEF DevicesOK, Filled
  <2>3. /\ DOMAIN devices \subseteq Ids /\ solve.todo \subseteq Ids
        /\ DOMAIN outcome \subseteq Ids /\ cut \subseteq Ids
    BY <2>1 DEF DevicesOK, SolveOK, ResultOK
  <2> QED
    BY <2>1, <2>2, <2>3 DEF SolveOK, ResultOK, ResultTypes, TypeOK
<1> QED
  BY <1>1, AlwaysOK, AlwaysResultOK, AlwaysResultTypes, PTL

-----------------------------------------------------------------------------
(***************************************************************************)
(* What stands in for a field is what its form proposes                    *)
(***************************************************************************)

\* full has what cfg has, and for some other fields what their forms propose.
Completes(full, cfg) ==
    /\ DOMAIN cfg \subseteq DOMAIN full
    /\ \A f \in DOMAIN cfg : full[f] = cfg[f]
    /\ \A f \in DOMAIN full \ DOMAIN cfg :
          f \in DOMAIN Proposal \ {"insulation_class"} /\ full[f] = Proposal[f]

LEMMA SameKey ==
    ASSUME NEW full, NEW cfg, Completes(full, cfg), NEW f \in DOMAIN cfg
    PROVE  Key(full, f) = Key(cfg, f)
BY DEF Completes, Key, Get

LEMMA SameGet ==
    ASSUME NEW full, NEW cfg, Completes(full, cfg), NEW f, NEW default, Proposal[f] = default
    PROVE  Get(full, f, default) = Get(cfg, f, default)
BY DEF Completes, Get

LEMMA SameOpt ==
    ASSUME NEW full, NEW cfg, Completes(full, cfg),
           NEW f, f \notin DOMAIN Proposal \/ f = "insulation_class"
    PROVE  Opt(full, f) = Opt(cfg, f)
BY DEF Completes, Opt, Get

LEMMA SameRoom ==
    ASSUME NEW full, NEW cfg, Completes(full, cfg), {"floor_area_m2"} \subseteq DOMAIN cfg
    PROVE  Room(full) = Room(cfg)
<1>1. /\ "thermal_mass_kwh_per_k" \notin DOMAIN Proposal
      /\ "u_value_w_per_m2k" \notin DOMAIN Proposal
      /\ "window_area_m2" \notin DOMAIN Proposal
  BY DEF Proposal
<1> QED
  BY <1>1, SameKey, SameOpt DEF Room

LEMMA SameThermostatLoad ==
    ASSUME NEW full, NEW cfg, Completes(full, cfg), {"max_power_kw"} \subseteq DOMAIN cfg
    PROVE  ThermostatLoad(full) = ThermostatLoad(cfg)
<1>1. Proposal["hysteresis_k"] = "0.5"
  BY DEF Proposal
<1> QED
  BY <1>1, SameKey, SameGet DEF ThermostatLoad

LEMMA SameHeatPump ==
    ASSUME NEW full, NEW cfg, Completes(full, cfg), {"max_power_kw"} \subseteq DOMAIN cfg
    PROVE  HeatPump(full) = HeatPump(cfg)
<1>1. /\ Proposal["min_modulation_pct"] = "0" /\ Proposal["source_type"] = "air"
      /\ Proposal["sink_type"] = "water" /\ "vendor_model" \notin DOMAIN Proposal
  BY DEF Proposal
<1> QED
  BY <1>1, SameKey, SameGet, SameOpt DEF HeatPump

LEMMA SameWaterHeater ==
    ASSUME NEW full, NEW cfg, Completes(full, cfg),
           {"volume_liters", "max_power_kw"} \subseteq DOMAIN cfg
    PROVE  WaterHeater(full) = WaterHeater(cfg)
<1>1. Proposal["standby_loss_w"] = "50" /\ "loss_coefficient_w_per_k" \notin DOMAIN Proposal
  BY DEF Proposal
<1> QED
  BY <1>1, SameKey, SameGet, SameOpt DEF WaterHeater

LEMMA SameBattery ==
    ASSUME NEW full, NEW cfg, Completes(full, cfg),
           {"capacity_kwh", "max_charge_kw", "max_discharge_kw"} \subseteq DOMAIN cfg
    PROVE  Battery(full) = Battery(cfg)
<1>1. /\ Proposal["charge_efficiency"] = "0.95" /\ Proposal["discharge_efficiency"] = "0.95"
      /\ Proposal["min_soc_pct"] = "10" /\ Proposal["max_soc_pct"] = "100"
  BY DEF Proposal
<1> QED
  BY <1>1, SameKey, SameGet DEF Battery

LEMMA SamePVForecast ==
    ASSUME NEW full, NEW cfg, Completes(full, cfg), {"peak_power_kwp"} \subseteq DOMAIN cfg
    PROVE  PVForecast(full) = PVForecast(cfg)
<1>1. /\ Proposal["source_kind"] = "pv" /\ Proposal["azimuth_deg"] = "180"
      /\ Proposal["tilt_deg"] = "30" /\ Proposal["forecast_adapter"] = "solcast"
      /\ "forecast_entity" \notin DOMAIN Proposal
  BY DEF Proposal
<1> QED
  BY <1>1, SameKey, SameGet, SameOpt DEF PVForecast

LEMMA SameEVCharger ==
    ASSUME NEW full, NEW cfg, Completes(full, cfg), {"max_charge_kw"} \subseteq DOMAIN cfg
    PROVE  EVCharger(full) = EVCharger(cfg)
<1>1. /\ Proposal["min_charge_kw"] = "0" /\ Proposal["phases"] = "3"
      /\ "plug_state_entity" \notin DOMAIN Proposal /\ "soc_entity" \notin DOMAIN Proposal
      /\ "battery_capacity_kwh" \notin DOMAIN Proposal
  BY DEF Proposal
<1> QED
  BY <1>1, SameKey, SameGet, SameOpt DEF EVCharger

LEMMA SamePassiveLoad ==
    ASSUME NEW full, NEW cfg, Completes(full, cfg), {"typical_daily_kwh"} \subseteq DOMAIN cfg
    PROVE  PassiveLoad(full) = PassiveLoad(cfg)
<1>1. "load_profile_entity" \notin DOMAIN Proposal
  BY DEF Proposal
<1> QED
  BY <1>1, SameKey, SameOpt DEF PassiveLoad

LEMMA SamePoolPump ==
    ASSUME NEW full, NEW cfg, Completes(full, cfg), {"max_power_kw"} \subseteq DOMAIN cfg
    PROVE  PoolPump(full) = PoolPump(cfg)
BY SameKey DEF PoolPump

\* Whatever the type, a field that is filled in as proposed changes no parameter.
LEMMA SameParameters ==
    ASSUME NEW full, NEW cfg, Filled(cfg), Completes(full, cfg)
    PROVE  Parameters(full) = Parameters(cfg)
<1> DEFINE type == cfg["device_type"]
           tier == cfg["tier"]
<1>1. type \in DeviceTypes /\ DeviceSchema(type, tier).required \subseteq DOMAIN cfg
  BY DEF Filled, Required
<1>2. full["device_type"] = type
  BY DEF Filled, Completes
<1>3. CASE type = "room"
  <2>1. Parameters(full) = Room(full) /\ Parameters(cfg) = Room(cfg)
    BY <1>2, <1>3 DEF Parameters
  <2>2. {"floor_area_m2"} \subseteq DOMAIN cfg
    BY <1>1, <1>3 DEF DeviceSchema, RoomSchema, Form
  <2> QED
    BY <2>1, <2>2, SameRoom
<1>4. CASE type = "thermostat_load"
  <2>1. Parameters(full) = ThermostatLoad(full) /\ Parameters(cfg) = ThermostatLoad(cfg)
    BY <1>2, <1>4 DEF Parameters
  <2>2. {"max_power_kw"} \subseteq DOMAIN cfg
    BY <1>1, <1>4 DEF DeviceSchema, ThermostatLoadSchema, Form
  <2> QED
    BY <2>1, <2>2, SameThermostatLoad
<1>5. CASE type = "heat_pump"
  <2>1. Parameters(full) = HeatPump(full) /\ Parameters(cfg) = HeatPump(cfg)
    BY <1>2, <1>5 DEF Parameters
  <2>2. {"max_power_kw"} \subseteq DOMAIN cfg
    BY <1>1, <1>5 DEF DeviceSchema, HeatPumpSchema, Form
  <2> QED
    BY <2>1, <2>2, SameHeatPump
<1>6. CASE type = "water_heater"
  <2>1. Parameters(full) = WaterHeater(full) /\ Parameters(cfg) = WaterHeater(cfg)
    BY <1>2, <1>6 DEF Parameters
  <2>2. {"volume_liters", "max_power_kw"} \subseteq DOMAIN cfg
    BY <1>1, <1>6 DEF DeviceSchema, WaterHeaterSchema, Form
  <2> QED
    BY <2>1, <2>2, SameWaterHeater
<1>7. CASE type = "battery"
  <2>1. Parameters(full) = Battery(full) /\ Parameters(cfg) = Battery(cfg)
    BY <1>2, <1>7 DEF Parameters
  <2>2. {"capacity_kwh", "max_charge_kw", "max_discharge_kw"} \subseteq DOMAIN cfg
    BY <1>1, <1>7 DEF DeviceSchema, BatterySchema, Form
  <2> QED
    BY <2>1, <2>2, SameBattery
<1>8. CASE type = "pv_forecast"
  <2>1. Parameters(full) = PVForecast(full) /\ Parameters(cfg) = PVForecast(cfg)
    BY <1>2, <1>8 DEF Parameters
  <2>2. {"peak_power_kwp"} \subseteq DOMAIN cfg
    BY <1>1, <1>8 DEF DeviceSchema, PVForecastSchema, Form
  <2> QED
    BY <2>1, <2>2, SamePVForecast
<1>9. CASE type = "ev_charger"
  <2>1. Parameters(full) = EVCharger(full) /\ Parameters(cfg) = EVCharger(cfg)
    BY <1>2, <1>9 DEF Parameters
  <2>2. {"max_charge_kw"} \subseteq DOMAIN cfg
    BY <1>1, <1>9 DEF DeviceSchema, EVChargerSchema, Form
  <2> QED
    BY <2>1, <2>2, SameEVCharger
<1>10. CASE type = "passive_load"
  <2>1. Parameters(full) = PassiveLoad(full) /\ Parameters(cfg) = PassiveLoad(cfg)
    BY <1>2, <1>10 DEF Parameters
  <2>2. {"typical_daily_kwh"} \subseteq DOMAIN cfg
    BY <1>1, <1>10 DEF DeviceSchema, PassiveLoadSchema, Form
  <2> QED
    BY <2>1, <2>2, SamePassiveLoad
<1>11. CASE type = "pool_pump"
  <2>1. Parameters(full) = PoolPump(full) /\ Parameters(cfg) = PoolPump(cfg)
    BY <1>2, <1>11 DEF Parameters
  <2>2. {"max_power_kw"} \subseteq DOMAIN cfg
    BY <1>1, <1>11 DEF DeviceSchema, PoolPumpSchema, Form
  <2> QED
    BY <2>1, <2>2, SamePoolPump
<1> QED
  BY <1>1, <1>3, <1>4, <1>5, <1>6, <1>7, <1>8, <1>9, <1>10, <1>11 DEF DeviceTypes

\* What a form requires does not depend on the tier.
LEMMA RequiredInAll ==
    ASSUME NEW type \in DeviceTypes, NEW tier, NEW other
    PROVE  Required(type, tier) = Required(type, other)
BY DEF DeviceTypes, Required, DeviceSchema, Form, RoomSchema, ThermostatLoadSchema,
       HeatPumpSchema, WaterHeaterSchema, BatterySchema, PVForecastSchema, EVChargerSchema,
       PassiveLoadSchema, PoolPumpSchema

\* A parameter that a tier does not ask for means what the highest tier proposes,
\* for devices of any type and tier and any filling.
THEOREM TiersMeanTheSame == Spec => []TiersAgree
<1>1. DevicesOK => TiersAgree
  <2> SUFFICES ASSUME DevicesOK, NEW i \in DOMAIN devices, NEW more, NEW full,
                      more = Stored(devices[i]["device_type"],
                                    TierFor(devices[i]["device_type"], "pro"), {}),
                      full = [f \in DOMAIN devices[i] \cup (DOMAIN more \ {"insulation_class"}) |->
                                IF f \in DOMAIN devices[i] THEN devices[i][f] ELSE more[f]]
               PROVE  Parameters(full) = Parameters(devices[i])
    BY DEF TiersAgree
  <2> DEFINE cfg  == devices[i]
             type == cfg["device_type"]
             high == TierFor(type, "pro")
  <2>1. Filled(cfg) /\ type \in DeviceTypes /\ Required(type, cfg["tier"]) \subseteq DOMAIN cfg
    BY DEF DevicesOK, Filled
  <2>2. DOMAIN full = DOMAIN cfg \cup (DOMAIN more \ {"insulation_class"})
    OBVIOUS
  <2>3. /\ \A f \in DOMAIN cfg : full[f] = cfg[f]
        /\ \A f \in DOMAIN full \ DOMAIN cfg : full[f] = more[f]
    BY <2>2
  <2>4. ASSUME NEW f \in DOMAIN more \ DOMAIN cfg
        PROVE  f \in DOMAIN Proposal /\ more[f] = Proposal[f]
    <3>1. DOMAIN more = Required(type, high) \cup {} \cup (Optional(type, high) \cap DOMAIN Proposal)
                          \cup {"device_type", "tier"}
      BY DEF Stored
    <3>2. "device_type" \in DOMAIN cfg /\ "tier" \in DOMAIN cfg /\ Required(type, high) \subseteq DOMAIN cfg
      BY <2>1, RequiredInAll DEF Filled
    <3>3. f \in DOMAIN Proposal /\ f # "device_type" /\ f # "tier"
      BY <3>1, <3>2
    <3>4. more[f] = IF f = "device_type" THEN type
                    ELSE IF f = "tier" THEN high
                    ELSE IF f \in {} \/ f \notin DOMAIN Proposal THEN "given" ELSE Proposal[f]
      BY <2>4 DEF Stored
    <3> QED
      BY <3>3, <3>4
  <2>5. Completes(full, cfg)
    BY <2>2, <2>3, <2>4 DEF Completes
  <2> QED
    BY <2>1, <2>5, SameParameters
<1> QED
  BY <1>1, AlwaysOK, PTL

-----------------------------------------------------------------------------
(***************************************************************************)
(* Nothing is asked for in vain                                            *)
(***************************************************************************)

\* Fields that two devices both have and agree on.
Agree(a, b, fields) == \A f \in fields : f \in DOMAIN a \cap DOMAIN b => a[f] = b[f]

LEMMA AgreeOn ==
    ASSUME NEW a, NEW b, NEW f
    PROVE  /\ Key(a, f) = Key(b, f) => Agree(a, b, {f})
           /\ Opt(a, f) = Opt(b, f) => Agree(a, b, {f})
           /\ \A default : Get(a, f, default) = Get(b, f, default) => Agree(a, b, {f})
BY DEF Agree, Key, Opt, Get

LEMMA RoomUsed ==
    ASSUME NEW a, NEW b, Room(a) = Room(b)
    PROVE  Agree(a, b, {"floor_area_m2", "insulation_class", "thermal_mass_kwh_per_k",
                       "u_value_w_per_m2k", "window_area_m2"})
<1>1. /\ Room(a)[1] = Room(b)[1]
      /\ Room(a)[2] = Room(b)[2]
      /\ Room(a)[3] = Room(b)[3]
      /\ Room(a)[4] = Room(b)[4]
      /\ Room(a)[5] = Room(b)[5]
  OBVIOUS
<1>2. /\ Agree(a, b, {"floor_area_m2"})
      /\ Agree(a, b, {"insulation_class"})
      /\ Agree(a, b, {"thermal_mass_kwh_per_k"})
      /\ Agree(a, b, {"u_value_w_per_m2k"})
      /\ Agree(a, b, {"window_area_m2"})
  BY <1>1, AgreeOn DEF Room
<1> QED
  BY <1>2 DEF Agree

LEMMA ThermostatLoadUsed ==
    ASSUME NEW a, NEW b, ThermostatLoad(a) = ThermostatLoad(b)
    PROVE  Agree(a, b, {"max_power_kw", "hysteresis_k"})
<1>1. /\ ThermostatLoad(a)[1] = ThermostatLoad(b)[1]
      /\ ThermostatLoad(a)[2] = ThermostatLoad(b)[2]
  OBVIOUS
<1>2. /\ Agree(a, b, {"max_power_kw"})
      /\ Agree(a, b, {"hysteresis_k"})
  BY <1>1, AgreeOn DEF ThermostatLoad
<1> QED
  BY <1>2 DEF Agree

LEMMA HeatPumpUsed ==
    ASSUME NEW a, NEW b, HeatPump(a) = HeatPump(b)
    PROVE  Agree(a, b, {"max_power_kw", "vendor_model", "min_modulation_pct", "source_type",
                       "sink_type"})
<1>1. /\ HeatPump(a)[1] = HeatPump(b)[1]
      /\ HeatPump(a)[2] = HeatPump(b)[2]
      /\ HeatPump(a)[3] = HeatPump(b)[3]
      /\ HeatPump(a)[4] = HeatPump(b)[4]
      /\ HeatPump(a)[5] = HeatPump(b)[5]
  OBVIOUS
<1>2. /\ Agree(a, b, {"max_power_kw"})
      /\ Agree(a, b, {"vendor_model"})
      /\ Agree(a, b, {"min_modulation_pct"})
      /\ Agree(a, b, {"source_type"})
      /\ Agree(a, b, {"sink_type"})
  BY <1>1, AgreeOn DEF HeatPump
<1> QED
  BY <1>2 DEF Agree

LEMMA WaterHeaterUsed ==
    ASSUME NEW a, NEW b, WaterHeater(a) = WaterHeater(b)
    PROVE  Agree(a, b, {"volume_liters", "max_power_kw", "standby_loss_w",
                       "insulation_class", "loss_coefficient_w_per_k"})
<1>1. /\ WaterHeater(a)[1] = WaterHeater(b)[1]
      /\ WaterHeater(a)[2] = WaterHeater(b)[2]
      /\ WaterHeater(a)[3] = WaterHeater(b)[3]
      /\ WaterHeater(a)[4] = WaterHeater(b)[4]
      /\ WaterHeater(a)[5] = WaterHeater(b)[5]
  OBVIOUS
<1>2. /\ Agree(a, b, {"volume_liters"})
      /\ Agree(a, b, {"max_power_kw"})
      /\ Agree(a, b, {"standby_loss_w"})
      /\ Agree(a, b, {"insulation_class"})
      /\ Agree(a, b, {"loss_coefficient_w_per_k"})
  BY <1>1, AgreeOn DEF WaterHeater
<1> QED
  BY <1>2 DEF Agree

LEMMA BatteryUsed ==
    ASSUME NEW a, NEW b, Battery(a) = Battery(b)
    PROVE  Agree(a, b, {"capacity_kwh", "max_charge_kw", "max_discharge_kw",
                       "charge_efficiency", "discharge_efficiency", "min_soc_pct",
                       "max_soc_pct"})
<1>1. /\ Battery(a)[1] = Battery(b)[1]
      /\ Battery(a)[2] = Battery(b)[2]
      /\ Battery(a)[3] = Battery(b)[3]
      /\ Battery(a)[4] = Battery(b)[4]
      /\ Battery(a)[5] = Battery(b)[5]
      /\ Battery(a)[6] = Battery(b)[6]
      /\ Battery(a)[7] = Battery(b)[7]
  OBVIOUS
<1>2. /\ Agree(a, b, {"capacity_kwh"})
      /\ Agree(a, b, {"max_charge_kw"})
      /\ Agree(a, b, {"max_discharge_kw"})
      /\ Agree(a, b, {"charge_efficiency"})
      /\ Agree(a, b, {"discharge_efficiency"})
      /\ Agree(a, b, {"min_soc_pct"})
      /\ Agree(a, b, {"max_soc_pct"})
  BY <1>1, AgreeOn DEF Battery
<1> QED
  BY <1>2 DEF Agree

LEMMA PVForecastUsed ==
    ASSUME NEW a, NEW b, PVForecast(a) = PVForecast(b)
    PROVE  Agree(a, b, {"peak_power_kwp", "source_kind", "azimuth_deg", "tilt_deg",
                       "forecast_adapter", "forecast_entity"})
<1>1. /\ PVForecast(a)[1] = PVForecast(b)[1]
      /\ PVForecast(a)[2] = PVForecast(b)[2]
      /\ PVForecast(a)[3] = PVForecast(b)[3]
      /\ PVForecast(a)[4] = PVForecast(b)[4]
      /\ PVForecast(a)[5] = PVForecast(b)[5]
      /\ PVForecast(a)[6] = PVForecast(b)[6]
  OBVIOUS
<1>2. /\ Agree(a, b, {"peak_power_kwp"})
      /\ Agree(a, b, {"source_kind"})
      /\ Agree(a, b, {"azimuth_deg"})
      /\ Agree(a, b, {"tilt_deg"})
      /\ Agree(a, b, {"forecast_adapter"})
      /\ Agree(a, b, {"forecast_entity"})
  BY <1>1, AgreeOn DEF PVForecast
<1> QED
  BY <1>2 DEF Agree

LEMMA EVChargerUsed ==
    ASSUME NEW a, NEW b, EVCharger(a) = EVCharger(b)
    PROVE  Agree(a, b, {"max_charge_kw", "min_charge_kw", "phases", "plug_state_entity",
                       "soc_entity", "battery_capacity_kwh"})
<1>1. /\ EVCharger(a)[1] = EVCharger(b)[1]
      /\ EVCharger(a)[2] = EVCharger(b)[2]
      /\ EVCharger(a)[3] = EVCharger(b)[3]
      /\ EVCharger(a)[4] = EVCharger(b)[4]
      /\ EVCharger(a)[5] = EVCharger(b)[5]
      /\ EVCharger(a)[6] = EVCharger(b)[6]
  OBVIOUS
<1>2. /\ Agree(a, b, {"max_charge_kw"})
      /\ Agree(a, b, {"min_charge_kw"})
      /\ Agree(a, b, {"phases"})
      /\ Agree(a, b, {"plug_state_entity"})
      /\ Agree(a, b, {"soc_entity"})
      /\ Agree(a, b, {"battery_capacity_kwh"})
  BY <1>1, AgreeOn DEF EVCharger
<1> QED
  BY <1>2 DEF Agree

LEMMA PassiveLoadUsed ==
    ASSUME NEW a, NEW b, PassiveLoad(a) = PassiveLoad(b)
    PROVE  Agree(a, b, {"typical_daily_kwh", "load_profile_entity"})
<1>1. /\ PassiveLoad(a)[1] = PassiveLoad(b)[1]
      /\ PassiveLoad(a)[2] = PassiveLoad(b)[2]
  OBVIOUS
<1>2. /\ Agree(a, b, {"typical_daily_kwh"})
      /\ Agree(a, b, {"load_profile_entity"})
  BY <1>1, AgreeOn DEF PassiveLoad
<1> QED
  BY <1>2 DEF Agree

LEMMA PoolPumpUsed ==
    ASSUME NEW a, NEW b, PoolPump(a) = PoolPump(b)
    PROVE  Agree(a, b, {"max_power_kw"})
<1>1. /\ PoolPump(a)[1] = PoolPump(b)[1]
  OBVIOUS
<1>2. /\ Agree(a, b, {"max_power_kw"})
  BY <1>1, AgreeOn DEF PoolPump
<1> QED
  BY <1>2 DEF Agree

LEMMA VerificationUsed ==
    ASSUME NEW a, NEW b, NEW entity, NEW expected, NEW timeout,
           entity \in DOMAIN a, entity \in DOMAIN b,
           Verification(a, entity, expected, timeout) = Verification(b, entity, expected, timeout)
    PROVE  Agree(a, b, {entity, expected, timeout})
<1>1. /\ a[entity] = b[entity]
      /\ Get(a, expected, "== on") = Get(b, expected, "== on")
      /\ Get(a, timeout, "300") = Get(b, timeout, "300")
  BY DEF Verification
<1> QED
  BY <1>1 DEF Agree, Get

\* Two devices of one type and tier with all of its form filled in.
Comparable(a, b, type, tier) ==
    /\ type \in DeviceTypes /\ tier \in Tiers
    /\ a["device_type"] = type /\ b["device_type"] = type
    /\ Asked(type, tier) \subseteq DOMAIN a /\ Asked(type, tier) \subseteq DOMAIN b
    /\ \A f \in Asked(type, tier) : a[f] # None /\ b[f] # None

LEMMA HandedParts ==
    ASSUME NEW a, NEW b, Handed(a) = Handed(b)
    PROVE  /\ Get(a, "device_name", "Unknown") = Get(b, "device_name", "Unknown")
           /\ Get(a, "control_class", "planned") = Get(b, "control_class", "planned")
           /\ SafeDefault(a) = SafeDefault(b) /\ Actions(a) = Actions(b)
           /\ Parameters(a) = Parameters(b) /\ Generation(a) = Generation(b)
           /\ {<<f, a[f], Capacity(a)>> : f \in StateOf(a)}
                = {<<f, b[f], Capacity(b)>> : f \in StateOf(b)}
<1>1. Handed(a)[1] = Handed(b)[1] /\ Handed(a)[2] = Handed(b)[2] /\ Handed(a)[3] = Handed(b)[3]
  OBVIOUS
<1>2. /\ Manifest(a) = Manifest(b) /\ Generation(a) = Generation(b)
      /\ {<<f, a[f], Capacity(a)>> : f \in StateOf(a)}
                = {<<f, b[f], Capacity(b)>> : f \in StateOf(b)}
  BY <1>1 DEF Handed
<1>3. /\ Manifest(a).name = Manifest(b).name
      /\ Manifest(a).safe_default = Manifest(b).safe_default
      /\ Manifest(a).actions = Manifest(b).actions
      /\ Manifest(a).control_class = Manifest(b).control_class
      /\ Manifest(a).parameters = Manifest(b).parameters
  BY <1>2
<1>4. /\ Get(a, "device_name", "Unknown") = Get(b, "device_name", "Unknown")
      /\ Get(a, "control_class", "planned") = Get(b, "control_class", "planned")
      /\ SafeDefault(a) = SafeDefault(b) /\ Actions(a) = Actions(b)
      /\ Parameters(a) = Parameters(b)
  BY <1>3 DEF Manifest
<1> QED
  BY <1>2, <1>4

\* The name, the class and the safe default.
LEMMA SafeDefaultUsed ==
    ASSUME NEW a, NEW b, Handed(a) = Handed(b)
    PROVE  /\ Agree(a, b, {"device_name"}) /\ Agree(a, b, {"control_class"})
           /\ Agree(a, b, {"safe_default_script"})
           /\ "safe_default_verify_entity" \in DOMAIN a \cap DOMAIN b =>
                 Agree(a, b, {"safe_default_verify_entity", "safe_default_verify_expected",
                              "safe_default_verify_timeout"})
<1>1. Agree(a, b, {"device_name"}) /\ Agree(a, b, {"control_class"})
  BY HandedParts, AgreeOn
<1>2. SafeDefault(a).script = SafeDefault(b).script /\ SafeDefault(a).verify = SafeDefault(b).verify
  BY HandedParts
<1>3. Key(a, "safe_default_script") = Key(b, "safe_default_script")
  BY <1>2 DEF SafeDefault
<1>4. Verification(a, "safe_default_verify_entity",
                      "safe_default_verify_expected", "safe_default_verify_timeout")
        = Verification(b, "safe_default_verify_entity",
                          "safe_default_verify_expected", "safe_default_verify_timeout")
  BY <1>2 DEF SafeDefault
<1> QED
  BY <1>1, <1>3, <1>4, AgreeOn, VerificationUsed

\* The action of the pro tier.
ActiveVerify(cfg) == Verification(cfg, "active_action_verify_entity",
                         "active_action_verify_expected", "active_action_verify_timeout")
ActiveRetry(cfg)  == <<Get(cfg, "active_action_retry_attempts", "2"),
                       Get(cfg, "active_action_retry_backoff", "60")>>

LEMMA ActionParts ==
    ASSUME NEW cfg, "active_action_script" \in DOMAIN cfg
    PROVE  /\ Actions(cfg)["active"].script = cfg["active_action_script"]
           /\ Actions(cfg)["active"].verify = ActiveVerify(cfg)
           /\ Actions(cfg)["active"].retry = ActiveRetry(cfg)
<1>1. Actions(cfg) = [active |-> [script |-> cfg["active_action_script"],
                                  verify |-> ActiveVerify(cfg), retry |-> ActiveRetry(cfg)]]
  BY DEF Actions, ActiveVerify, ActiveRetry
<1> QED
  BY <1>1

LEMMA ActionUsed ==
    ASSUME NEW a, NEW b, Actions(a) = Actions(b),
           {"active_action_script", "active_action_verify_entity"} \subseteq DOMAIN a,
           {"active_action_script", "active_action_verify_entity"} \subseteq DOMAIN b
    PROVE  /\ Agree(a, b, {"active_action_script"})
           /\ Agree(a, b, {"active_action_verify_entity", "active_action_verify_expected",
                           "active_action_verify_timeout"})
           /\ Agree(a, b, {"active_action_retry_attempts"})
           /\ Agree(a, b, {"active_action_retry_backoff"})
<1>1. /\ a["active_action_script"] = b["active_action_script"]
      /\ ActiveVerify(a) = ActiveVerify(b) /\ ActiveRetry(a) = ActiveRetry(b)
  BY ActionParts
<1>2. Agree(a, b, {"active_action_script"})
  BY <1>1 DEF Agree
<1>3. Agree(a, b, {"active_action_verify_entity", "active_action_verify_expected",
                   "active_action_verify_timeout"})
  BY <1>1, VerificationUsed DEF ActiveVerify
<1>4. /\ Get(a, "active_action_retry_attempts", "2") = Get(b, "active_action_retry_attempts", "2")
      /\ Get(a, "active_action_retry_backoff", "60") = Get(b, "active_action_retry_backoff", "60")
  BY <1>1 DEF ActiveRetry
<1> QED
  BY <1>2, <1>3, <1>4, AgreeOn

\* What a solve measures.
LEMMA StateUsed ==
    ASSUME NEW a, NEW b, Handed(a) = Handed(b), NEW f, f \in StateOf(a), f \in StateOf(b)
    PROVE  a[f] = b[f]
<1>1. <<f, a[f], Capacity(a)>> \in {<<g, b[g], Capacity(b)>> : g \in StateOf(b)}
  BY HandedParts
<1>2. PICK g \in StateOf(b) : <<f, a[f], Capacity(a)>> = <<g, b[g], Capacity(b)>>
  BY <1>1
<1> QED
  BY <1>2

LEMMA TemperatureUsed ==
    ASSUME NEW a, NEW b, Handed(a) = Handed(b)
    PROVE  Agree(a, b, {"temp_entity"})
BY StateUsed DEF Agree, StateOf

LEMMA ChargeUsed ==
    ASSUME NEW a, NEW b, Handed(a) = Handed(b),
           a["device_type"] = "battery", b["device_type"] = "battery",
           "capacity_kwh" \in DOMAIN a, "capacity_kwh" \in DOMAIN b,
           a["capacity_kwh"] # None, b["capacity_kwh"] # None
    PROVE  Agree(a, b, {"soc_entity"})
<1>1. Capacity(a) # None /\ Capacity(b) # None
  BY DEF Capacity, Get
<1> QED
  BY <1>1, StateUsed DEF Agree, StateOf

LEMMA SeriesUsed ==
    ASSUME NEW a, NEW b, Handed(a) = Handed(b),
           a["device_type"] = "pv_forecast", b["device_type"] = "pv_forecast"
    PROVE  Agree(a, b, {"forecast_entity"}) /\ Agree(a, b, {"forecast_entity_2"})
<1>1. Generation(a)[1] = Generation(b)[1] /\ Generation(a)[2] = Generation(b)[2]
  BY HandedParts
<1>2. /\ Opt(a, "forecast_entity") = Opt(b, "forecast_entity")
      /\ Opt(a, "forecast_entity_2") = Opt(b, "forecast_entity_2")
  BY <1>1 DEF Generation
<1> QED
  BY <1>2, AgreeOn

\* The fields of every form.
LEMMA CommonUsed ==
    ASSUME NEW a, NEW b, NEW type, NEW tier, Comparable(a, b, type, tier), Handed(a) = Handed(b),
           NEW f \in {"device_name", "safe_default_script"} \cup SafeDefaultSchema(tier)
    PROVE  Agree(a, b, {f})
<1> DEFINE verify == {"safe_default_verify_entity", "safe_default_verify_expected",
                      "safe_default_verify_timeout"}
           active == {"active_action_script", "active_action_verify_entity",
                      "active_action_verify_expected", "active_action_verify_timeout",
                      "active_action_retry_attempts", "active_action_retry_backoff"}
<1>1. SafeDefaultSchema(tier) \subseteq DOMAIN a /\ SafeDefaultSchema(tier) \subseteq DOMAIN b
  BY DEF Comparable, Asked, Optional
<1>2. SafeDefaultSchema(tier) = {"control_class"} \cup From(tier, verify, "advanced")
                                  \cup From(tier, active, "pro")
  BY DEF SafeDefaultSchema
<1>3. CASE f \in {"device_name", "safe_default_script", "control_class"}
  BY <1>3, SafeDefaultUsed
<1>4. CASE f \in From(tier, verify, "advanced")
  <2>1. verify \subseteq DOMAIN a /\ verify \subseteq DOMAIN b /\ f \in verify
    BY <1>1, <1>2, <1>4 DEF From
  <2> QED
    BY <2>1, SafeDefaultUsed DEF Agree
<1>5. CASE f \in From(tier, active, "pro")
  <2>1. active \subseteq DOMAIN a /\ active \subseteq DOMAIN b /\ f \in active
    BY <1>1, <1>2, <1>5 DEF From
  <2> QED
    BY <2>1, HandedParts, ActionUsed DEF Agree
<1> QED
  BY <1>2, <1>3, <1>4, <1>5

\* The fields of each type.
LEMMA OwnUsed ==
    ASSUME NEW a, NEW b, NEW type, NEW tier, Comparable(a, b, type, tier), Handed(a) = Handed(b),
           NEW f \in (DeviceSchema(type, tier).required \cup DeviceSchema(type, tier).optional)
                        \ {"device_name"}
    PROVE  Agree(a, b, {f})
<1>1. /\ type \in DeviceTypes /\ a["device_type"] = type /\ b["device_type"] = type
      /\ Parameters(a) = Parameters(b)
  BY HandedParts DEF Comparable
<1>2. CASE type = "room"
  <2>1. Room(a) = Room(b)
    BY <1>1, <1>2 DEF Parameters
  <2>2. f \in {"floor_area_m2", "insulation_class", "thermal_mass_kwh_per_k",
              "u_value_w_per_m2k", "window_area_m2", "temp_entity"}
    BY <1>2 DEF DeviceSchema, RoomSchema, Form, From
  <2> QED
    BY <2>1, <2>2, RoomUsed, TemperatureUsed DEF Agree
<1>3. CASE type = "thermostat_load"
  <2>1. ThermostatLoad(a) = ThermostatLoad(b)
    BY <1>1, <1>3 DEF Parameters
  <2>2. f \in {"max_power_kw", "hysteresis_k"}
    BY <1>3 DEF DeviceSchema, ThermostatLoadSchema, Form, From
  <2> QED
    BY <2>1, <2>2, ThermostatLoadUsed DEF Agree
<1>4. CASE type = "heat_pump"
  <2>1. HeatPump(a) = HeatPump(b)
    BY <1>1, <1>4 DEF Parameters
  <2>2. f \in {"max_power_kw", "vendor_model", "min_modulation_pct", "source_type",
              "sink_type"}
    BY <1>4 DEF DeviceSchema, HeatPumpSchema, Form, From
  <2> QED
    BY <2>1, <2>2, HeatPumpUsed DEF Agree
<1>5. CASE type = "water_heater"
  <2>1. WaterHeater(a) = WaterHeater(b)
    BY <1>1, <1>5 DEF Parameters
  <2>2. f \in {"volume_liters", "max_power_kw", "standby_loss_w", "insulation_class",
              "loss_coefficient_w_per_k", "temp_entity"}
    BY <1>5 DEF DeviceSchema, WaterHeaterSchema, Form, From
  <2> QED
    BY <2>1, <2>2, WaterHeaterUsed, TemperatureUsed DEF Agree
<1>6. CASE type = "battery"
  <2>1. Battery(a) = Battery(b)
    BY <1>1, <1>6 DEF Parameters
  <2>2. f \in {"capacity_kwh", "max_charge_kw", "max_discharge_kw", "charge_efficiency",
              "discharge_efficiency", "min_soc_pct", "max_soc_pct", "soc_entity"}
    BY <1>6 DEF DeviceSchema, BatterySchema, Form, From
  <2>3. Agree(a, b, {"soc_entity"})
    <3>1. "capacity_kwh" \in Asked(type, tier)
      BY <1>6 DEF Asked, Required, DeviceSchema, BatterySchema, Form
    <3> QED
      BY <1>1, <1>6, <3>1, ChargeUsed DEF Comparable
  <2> QED
    BY <2>1, <2>2, BatteryUsed, <2>3 DEF Agree
<1>7. CASE type = "pv_forecast"
  <2>1. PVForecast(a) = PVForecast(b)
    BY <1>1, <1>7 DEF Parameters
  <2>2. f \in {"peak_power_kwp", "source_kind", "azimuth_deg", "tilt_deg",
              "forecast_adapter", "forecast_entity", "forecast_entity_2"}
    BY <1>7 DEF DeviceSchema, PVForecastSchema, Form, From
  <2> QED
    BY <2>1, <2>2, PVForecastUsed, <1>1, <1>7, SeriesUsed DEF Agree
<1>8. CASE type = "ev_charger"
  <2>1. EVCharger(a) = EVCharger(b)
    BY <1>1, <1>8 DEF Parameters
  <2>2. f \in {"max_charge_kw", "min_charge_kw", "phases", "plug_state_entity", "soc_entity",
              "battery_capacity_kwh"}
    BY <1>8 DEF DeviceSchema, EVChargerSchema, Form, From
  <2> QED
    BY <2>1, <2>2, EVChargerUsed DEF Agree
<1>9. CASE type = "passive_load"
  <2>1. PassiveLoad(a) = PassiveLoad(b)
    BY <1>1, <1>9 DEF Parameters
  <2>2. f \in {"typical_daily_kwh", "load_profile_entity"}
    BY <1>9 DEF DeviceSchema, PassiveLoadSchema, Form, From
  <2> QED
    BY <2>1, <2>2, PassiveLoadUsed DEF Agree
<1>10. CASE type = "pool_pump"
  <2>1. PoolPump(a) = PoolPump(b)
    BY <1>1, <1>10 DEF Parameters
  <2>2. f \in {"max_power_kw"}
    BY <1>10 DEF DeviceSchema, PoolPumpSchema, Form, From
  <2> QED
    BY <2>1, <2>2, PoolPumpUsed DEF Agree
<1> QED
  BY <1>1, <1>2, <1>3, <1>4, <1>5, <1>6, <1>7, <1>8, <1>9, <1>10 DEF DeviceTypes

\* What a solve is handed determines the whole form, of any type and tier.
THEOREM FormRecovered ==
    ASSUME NEW a, NEW b, NEW type, NEW tier, Comparable(a, b, type, tier), Handed(a) = Handed(b),
           NEW f \in Asked(type, tier)
    PROVE  a[f] = b[f]
<1>1. \/ f \in {"device_name", "safe_default_script"} \cup SafeDefaultSchema(tier)
      \/ f \in (DeviceSchema(type, tier).required \cup DeviceSchema(type, tier).optional)
                  \ {"device_name"}
  BY DEF Asked, Required, Optional
<1>2. Agree(a, b, {f})
  BY <1>1, CommonUsed, OwnUsed
<1>3. f \in DOMAIN a \cap DOMAIN b
  BY DEF Comparable
<1> QED
  BY <1>2, <1>3 DEF Agree

\* Nothing a form asks for is a no-op, in any type and tier: with all of it filled
\* in, another value in any field is another thing to solve.
THEOREM NothingInVain == Spec => []FieldsUsed
<1>1. DevicesOK => FieldsUsed
  <2> SUFFICES ASSUME DevicesOK, NEW i \in DOMAIN devices, Full(devices[i]),
                      NEW f \in Asked(devices[i].device_type, devices[i].tier),
                      Handed([devices[i] EXCEPT ![f] = "other"]) = Handed(devices[i])
               PROVE  FALSE
    BY DEF FieldsUsed
  <2> DEFINE cfg  == devices[i]
             type == cfg["device_type"]
             tier == cfg["tier"]
             new  == [cfg EXCEPT ![f] = "other"]
  <2>1. /\ type \in DeviceTypes /\ tier \in Tiers /\ Asked(type, tier) \subseteq DOMAIN cfg
        /\ \A g \in DOMAIN cfg : cfg[g] # None /\ cfg[g] # "other"
    BY DEF DevicesOK, Filled, Full
  <2>2. f # "device_type" /\ f # "tier"
    BY <2>1, NotAsked
  <2>3. DOMAIN new = DOMAIN cfg /\ new[f] = "other" /\ \A g \in DOMAIN cfg : g # f => new[g] = cfg[g]
    BY <2>1
  <2>4. new["device_type"] = type
    BY <2>2, <2>3 DEF DevicesOK, Filled
  <2>5. \A g \in DOMAIN cfg : new[g] # None
    BY <2>1, <2>3 DEF None
  <2>6. Comparable(new, cfg, type, tier)
    BY <2>1, <2>3, <2>4, <2>5 DEF Comparable
  <2>7. new[f] = cfg[f]
    BY <2>6, FormRecovered
  <2> QED
    BY <2>1, <2>3, <2>7
<1> QED
  BY <1>1, AlwaysOK, PTL

=============================================================================
