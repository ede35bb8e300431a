------------------------------ MODULE Devices ------------------------------
(***************************************************************************)
(* What the device flow asks for, what it stores, and what a solve is      *)
(* handed for it.                                                          *)
(*                                                                         *)
(* A device is stored as the fields of its form: a function from field     *)
(* names to values.  A value is the one the form proposes, or "given" for  *)
(* one the user typed; a typed charging power also says how many phases    *)
(* carry it.  The manifests are hemm_core's; which parameter gets which    *)
(* field, and what stands in for a field that is not there, is the code of *)
(* this repository.                                                        *)
(***************************************************************************)
EXTENDS Naturals, FiniteSets

-----------------------------------------------------------------------------
(***************************************************************************)
(* Forms                                                                   *)
(***************************************************************************)

DeviceTypes == {"room", "thermostat_load", "heat_pump", "water_heater", "battery",
                "pv_forecast", "ev_charger", "passive_load", "pool_pump"}
Tiers       == {"beginner", "advanced", "pro"}
ProSupport  == DeviceTypes \ {"room", "thermostat_load"}

\* The control classes every form offers.
ControlClasses == {"planned", "reactive", "passive"}

\* What may be typed for max_charge_kw: for an EV charger up to 350 kW, with any
\* phases.  One phase carries "given", only three carry "three_phase", and none
\* carry "excess".
Ratings(type) == IF type = "ev_charger" THEN {"given", "three_phase", "excess"} ELSE {"given"}

\* async_step_select_device: a type without pro fields falls back to advanced.
TierFor(type, tier) == IF tier = "pro" /\ type \notin ProSupport THEN "advanced" ELSE tier

\* The value a field's form proposes; a field without one is not here.
Proposal == [
    control_class |-> "planned",
    safe_default_verify_timeout |-> "300",
    active_action_verify_expected |-> "== on",
    active_action_verify_timeout |-> "300",
    active_action_retry_attempts |-> "2", active_action_retry_backoff |-> "60",
    insulation_class |-> "medium", hysteresis_k |-> "0.5",
    min_modulation_pct |-> "0", source_type |-> "air", sink_type |-> "water",
    standby_loss_w |-> "50",
    charge_efficiency |-> "0.95", discharge_efficiency |-> "0.95",
    min_soc_pct |-> "10", max_soc_pct |-> "100",
    forecast_adapter |-> "solcast", source_kind |-> "pv",
    azimuth_deg |-> "180", tilt_deg |-> "30",
    min_charge_kw |-> "0", phases |-> "3"]

\* The fields of a tier are those of the tiers up to it.
From(tier, fields, least) ==
    IF tier = "pro" \/ least = "beginner" \/ tier = least THEN fields ELSE {}
Form(required, optional) == [required |-> required \cup {"device_name"}, optional |-> optional]

SafeDefaultSchema(tier) ==
    {"control_class"}
    \cup From(tier, {"safe_default_verify_entity", "safe_default_verify_expected",
                     "safe_default_verify_timeout"}, "advanced")
    \cup From(tier, {"active_action_script", "active_action_verify_entity",
                     "active_action_verify_expected", "active_action_verify_timeout",
                     "active_action_retry_attempts", "active_action_retry_backoff"}, "pro")

RoomSchema(tier) ==
    Form({"floor_area_m2", "insulation_class"},
         From(tier, {"temp_entity", "thermal_mass_kwh_per_k", "u_value_w_per_m2k",
                     "window_area_m2"}, "advanced"))
ThermostatLoadSchema(tier) ==
    Form({"max_power_kw"}, From(tier, {"hysteresis_k"}, "advanced"))
HeatPumpSchema(tier) ==
    Form({"max_power_kw"},
         From(tier, {"vendor_model", "min_modulation_pct", "source_type", "sink_type"},
              "advanced"))
WaterHeaterSchema(tier) ==
    Form({"volume_liters", "max_power_kw"},
         From(tier, {"temp_entity", "standby_loss_w", "insulation_class"}, "advanced")
         \cup From(tier, {"loss_coefficient_w_per_k"}, "pro"))
BatterySchema(tier) ==
    Form({"capacity_kwh", "max_charge_kw", "max_discharge_kw"},
         From(tier, {"soc_entity", "charge_efficiency", "discharge_efficiency"}, "advanced")
         \cup From(tier, {"min_soc_pct", "max_soc_pct"}, "pro"))
PVForecastSchema(tier) ==
    Form({"peak_power_kwp", "forecast_adapter"},
         From(tier, {"forecast_entity", "forecast_entity_2", "source_kind", "azimuth_deg",
                     "tilt_deg"}, "advanced"))
EVChargerSchema(tier) ==
    Form({"max_charge_kw"},
         From(tier, {"min_charge_kw", "phases"}, "advanced")
         \cup From(tier, {"plug_state_entity", "soc_entity", "battery_capacity_kwh"}, "pro"))
\* (Mutant: a beginner is not asked for the daily energy.)
PassiveLoadAdvanced(tier) ==
    Form(From(tier, {"typical_daily_kwh"}, "advanced"),
         From(tier, {"load_profile_entity"}, "advanced"))
PassiveLoadSchema(tier) ==
    Form({"typical_daily_kwh"}, From(tier, {"load_profile_entity"}, "advanced"))
PoolPumpSchema(tier) == Form({"max_power_kw"}, {})

DeviceSchema(type, tier) ==
    CASE type = "room"            -> RoomSchema(tier)
      [] type = "thermostat_load" -> ThermostatLoadSchema(tier)
      [] type = "heat_pump"       -> HeatPumpSchema(tier)
      [] type = "water_heater"    -> WaterHeaterSchema(tier)
      [] type = "battery"         -> BatterySchema(tier)
      [] type = "pv_forecast"     -> PVForecastSchema(tier)
      [] type = "ev_charger"      -> EVChargerSchema(tier)
      [] type = "passive_load"    -> PassiveLoadSchema(tier)
      [] type = "pool_pump"       -> PoolPumpSchema(tier)

Required(type, tier) == DeviceSchema(type, tier).required \cup {"safe_default_script"}
Optional(type, tier) == DeviceSchema(type, tier).optional \cup SafeDefaultSchema(tier)
Asked(type, tier)    == Required(type, tier) \cup Optional(type, tier)

\* A submitted form: the fields in given are typed, the others are as proposed
\* or, without a proposal, left out.  A required one has to be there.
Stored(type, tier, given) ==
    [f \in Required(type, tier) \cup given \cup (Optional(type, tier) \cap DOMAIN Proposal)
           \cup {"device_type", "tier"} |->
        IF f = "device_type" THEN type
        ELSE IF f = "tier" THEN tier
        ELSE IF f \in given \/ f \notin DOMAIN Proposal THEN "given" ELSE Proposal[f]]

\* A class is chosen and, where it is asked for, a charging power typed.
Chosen(cfg, class, rating) ==
    [f \in DOMAIN cfg |-> CASE f = "control_class" -> class
                            [] f = "max_charge_kw" -> rating
                            [] OTHER               -> cfg[f]]

-----------------------------------------------------------------------------
(***************************************************************************)
(* Manifests                                                               *)
(***************************************************************************)

Get(cfg, f, default) == IF f \in DOMAIN cfg THEN cfg[f] ELSE default
None                 == "None"
Opt(cfg, f)          == Get(cfg, f, None)
\* cfg[f], which raises where there is no such field.
Key(cfg, f)          == Get(cfg, f, "KeyError")

Verification(cfg, entity, expected, timeout) ==
    IF entity \notin DOMAIN cfg THEN <<>>
    ELSE <<cfg[entity], Get(cfg, expected, "== on"), Get(cfg, timeout, "300")>>

SafeDefault(cfg) ==
    [script |-> Key(cfg, "safe_default_script"),
     verify |-> Verification(cfg, "safe_default_verify_entity",
                             "safe_default_verify_expected", "safe_default_verify_timeout")]

\* The one action a form can name is "active".
Actions(cfg) ==
    IF "active_action_script" \notin DOMAIN cfg THEN <<>>
    ELSE [active |->
            [script |-> cfg.active_action_script,
             verify |-> Verification(cfg, "active_action_verify_entity",
                            "active_action_verify_expected", "active_action_verify_timeout"),
             retry  |-> <<Get(cfg, "active_action_retry_attempts", "2"),
                          Get(cfg, "active_action_retry_backoff", "60")>>]]

Room(cfg) == <<
    Key(cfg, "floor_area_m2"), Opt(cfg, "insulation_class"),
    Opt(cfg, "thermal_mass_kwh_per_k"), Opt(cfg, "u_value_w_per_m2k"),
    Opt(cfg, "window_area_m2")>>
ThermostatLoad(cfg) == <<Key(cfg, "max_power_kw"), Get(cfg, "hysteresis_k", "0.5")>>
HeatPump(cfg) == <<
    Key(cfg, "max_power_kw"), Opt(cfg, "vendor_model"), Get(cfg, "min_modulation_pct", "0"),
    Get(cfg, "source_type", "air"), Get(cfg, "sink_type", "water")>>
\* (Mutant: the loss coefficient is not passed on.)
WaterHeaterNoLoss(cfg) == <<
    Key(cfg, "volume_liters"), Key(cfg, "max_power_kw"), Get(cfg, "standby_loss_w", "50"),
    Opt(cfg, "insulation_class")>>
WaterHeater(cfg) == <<
    Key(cfg, "volume_liters"), Key(cfg, "max_power_kw"), Get(cfg, "standby_loss_w", "50"),
    Opt(cfg, "insulation_class"), Opt(cfg, "loss_coefficient_w_per_k")>>
Battery(cfg) == <<
    Key(cfg, "capacity_kwh"), Key(cfg, "max_charge_kw"), Key(cfg, "max_discharge_kw"),
    Get(cfg, "charge_efficiency", "0.95"), Get(cfg, "discharge_efficiency", "0.95"),
    Get(cfg, "min_soc_pct", "10"), Get(cfg, "max_soc_pct", "100")>>
PVForecast(cfg) == <<
    Key(cfg, "peak_power_kwp"), Get(cfg, "source_kind", "pv"), Get(cfg, "azimuth_deg", "180"),
    Get(cfg, "tilt_deg", "30"), Get(cfg, "forecast_adapter", "solcast"),
    Opt(cfg, "forecast_entity")>>
\* (Mutant: what stands in for the phases is not what the form proposes.)
EVChargerOnePhase(cfg) == <<
    Key(cfg, "max_charge_kw"), Get(cfg, "min_charge_kw", "0"), Get(cfg, "phases", "1"),
    Opt(cfg, "plug_state_entity"), Opt(cfg, "soc_entity"), Opt(cfg, "battery_capacity_kwh")>>
EVCharger(cfg) == <<
    Key(cfg, "max_charge_kw"), Get(cfg, "min_charge_kw", "0"), Get(cfg, "phases", "3"),
    Opt(cfg, "plug_state_entity"), Opt(cfg, "soc_entity"), Opt(cfg, "battery_capacity_kwh")>>
PassiveLoad(cfg) == <<Key(cfg, "typical_daily_kwh"), Opt(cfg, "load_profile_entity")>>
PoolPump(cfg)    == <<Key(cfg, "max_power_kw")>>

Parameters(cfg) ==
    CASE cfg.device_type = "room"            -> Room(cfg)
      [] cfg.device_type = "thermostat_load" -> ThermostatLoad(cfg)
      [] cfg.device_type = "heat_pump"       -> HeatPump(cfg)
      [] cfg.device_type = "water_heater"    -> WaterHeater(cfg)
      [] cfg.device_type = "battery"         -> Battery(cfg)
      [] cfg.device_type = "pv_forecast"     -> PVForecast(cfg)
      [] cfg.device_type = "ev_charger"      -> EVCharger(cfg)
      [] cfg.device_type = "passive_load"    -> PassiveLoad(cfg)
      [] cfg.device_type = "pool_pump"       -> PoolPump(cfg)

\* build_manifest.
Manifest(cfg) ==
    [name |-> Get(cfg, "device_name", "Unknown"), safe_default |-> SafeDefault(cfg),
     actions |-> Actions(cfg), control_class |-> Get(cfg, "control_class", "planned"),
     parameters |-> Parameters(cfg)]
\* A field the builder insists on is not there.
MissesKey(cfg) ==
    \/ SafeDefault(cfg).script = "KeyError"
    \/ \E i \in DOMAIN Parameters(cfg) : Parameters(cfg)[i] = "KeyError"
\* hemm_core takes no EV charger whose phases do not carry its power, at 32 A and
\* 230 V each (CHANGELOG.md:37).  Its constructor sees what the builder passes.
Refused(cfg) ==
    /\ cfg.device_type = "ev_charger"
    /\ LET power  == EVCharger(cfg)[1]
           phases == EVCharger(cfg)[3]
       IN  power = "excess" \/ (power = "three_phase" /\ phases # "3")
Raises(cfg) == MissesKey(cfg) \/ Refused(cfg)

-----------------------------------------------------------------------------
(***************************************************************************)
(* What the coordinator reads of a device besides its manifest             *)
(***************************************************************************)

\* The capacity a state of charge in percent is multiplied by.
Capacity(cfg) == Get(cfg, "capacity_kwh", Opt(cfg, "battery_capacity_kwh"))

\* _build_initial_state: the entities it reads and what they measure.
StateOf(cfg) ==
    (IF cfg.device_type \in {"battery", "ev_charger"} /\ "soc_entity" \in DOMAIN cfg
        /\ Capacity(cfg) # None THEN {"soc_entity"} ELSE {})
    \cup ({"temp_entity"} \cap DOMAIN cfg)

\* _unreadable_state_entities: those that must be readable.  An EV's state of
\* charge is exempt.
Needed(cfg) ==
    (IF cfg.device_type = "battery" THEN {"soc_entity"} \cap DOMAIN cfg ELSE {})
    \cup ({"temp_entity"} \cap DOMAIN cfg)

\* _build_generation_forecast: the entities whose series are merged.
Generation(cfg) == IF cfg.device_type = "pv_forecast"
                   THEN <<Opt(cfg, "forecast_entity"), Opt(cfg, "forecast_entity_2")>>
                   ELSE <<>>

\* All of a device that a solve depends on.
Handed(cfg) == <<Manifest(cfg), Generation(cfg),
                 {<<f, cfg[f], Capacity(cfg)>> : f \in StateOf(cfg)}>>

=============================================================================
