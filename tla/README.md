# Verification of HEMM, the Home Energy Management Module for Home Assistant

TLA+ modules, TLC configurations and TLAPS proofs about the integration in
`src/custom_components/hemm`. Paths below are relative to `src/`; `coordinator.py`
and the other bare names are files of `custom_components/hemm`.

    cd tla
    tlc -workers 2 -config MCCoordinator.cfg MCCoordinator     # one run
    tlapm Coordinator_proofs.tla                               # one proof module

## The system

HEMM plans the energy use of a home. Every 15 minutes it reads a price curve and
a solar forecast, solves a MILP in a native solver (hemm_core, not in this
repository), and calls Home Assistant scripts to make devices follow the plan.
Its code runs on the event loop of Home Assistant; price adapter, solver
construction and the native solve run in executor threads. Between two awaits
that suspend nothing else runs, so those awaits are the interleaving points.

| Component | State it keeps | Operations | Hard behaviour | What makes it correct |
|---|---|---|---|---|
| **Solve scheduling**, `coordinator.py` (`async_run_solver`, `_do_solve`, `_run_solver_background`, `_async_update_data`) | process-wide `_SOLVE_LOCK`; per instance `_last_result`, `_previous_plans`, published data; the price issue | refresh, replan, tick, simulate | callers queue at the lock; the timeout cancels a task at any await; tasks of an unloaded instance go on; the executor cannot be cancelled | solves are serialised, each works on inputs no older than its call and on the plans in force, results do not go backwards, every call ends |
| **Actuation**, `actuator.py`, `switch.py`, `repairs.py` | override set, audit log, repair issues | `async_actuate`, safe default, watchdog loop | three kinds of passes interleave on one device at every script, poll and backoff; scripts raise | no unverified action is left behind, windows and read-only mode are respected, a verify issue means the device was made safe |
| **Watchdog and timers**, `coordinator.py:415-434, 840-926` | `_last_successful_update`, two timers | refresh, poll, `force_watchdog` | stamps, timers, timeout and publications race | no alarm without a cause, no silent staleness |
| **Live forecasts**, `coordinator.py:89-274, 460-555` | manual prices; entities of others | read, sort, cut at now, horizon, resample | boundaries at now, at the ends of series, at clock changes | the solver gets the prices from now on, in order, and a horizon the curve covers |
| **Constraint windows**, `coordinator.py:399-404, 602-622` | the manager of hemm_core | add, remove, bump priority | they change while a solve or a retry is under way | see scheduling and actuation |
| **Entry lifecycle and services**, `__init__.py`, `services.py` | the instance in `hass.data`, the watchdog timer, the update listener, the services | setup, unload, reload, removal, registration of 10 handlers | setups that raise half way, unloads that are refused, edits during a setup, restarts | what is loaded shows and follows the entry; nothing of an unloaded instance goes on |
| **Device and options flows**, `device_flow.py`, `config_flow.py` | drafts, devices and options of the entry | menus and steps | several flows are open while the list changes; 9 types in 3 tiers, each with fields of its own | no edit is lost; what a form lets through can be solved, and means the same in every tier |
| **Manifest builder**, `manifest_builder.py` | none of its own | one builder per type | one device that raises ends the solves of all | every stored device can be built (see Also seen for EV chargers); no field is dropped |
| **Sensors**, `sensor.py`, and `_build_data` | the published data | four sensors per device | they are written at other times than the plan is stored or acted on | they show what was acted on |
| **Device info, diagnostics, identification, clock** | none of their own | read data, build values | | |
| **Time warp**, `warp-lib/warp.c` | speed and epoch in shared memory | clock interposition, speed controller | the virtual clock against the real one | the clock does not go back |

How they interact: services and the refresh call the coordinator; it queues for
the lock, reads prices and windows, solves, stores, and hands the decisions of
the current slot to the actuator, all inside the lock; the background task or
handler then publishes (`async_set_updated_data`), which updates the entities and
starts the refresh interval again. The watchdog timer reads the stamp that the
background task and applied solves write, and calls the actuator outside the lock.

The hazards, each at its line and with the properties that cover it or the
reason why none does, are in `PROJECT.json`.

## Modules

| Module | Models | Proved in |
|---|---|---|
| `PlanRegister` | what scheduling promises its callers (abstract) | |
| `Coordinator` | solve scheduling over a reload; implements `PlanRegister` | `Coordinator_proofs`, `PlanRegister_proofs` |
| `Actuator` | passes, retries, safe defaults | `Actuator_proofs` |
| `Watchdog` | stamp, schedule, timeout, poll | `Watchdog_proofs` |
| `Forecast` | prices, horizon, generation | `Forecast_proofs` |
| `Lifecycle` | entry, instance, listener, services, flows | `Lifecycle_proofs` |
| `Devices` | forms and manifests of every type and tier (no state) | |
| `Planning` | `Devices` through solves, decisions and sensors | `Planning_proofs` |

`MCCoordinator`, `MCActuator`, `MCWatchdog`, `MCForecast`, `MCLifecycle` and
`MCPlanning` give the constants their values for TLC.

The modules meet at these points. `Coordinator` and `Planning` both have the phases
of `_do_solve`: `Coordinator` has several tasks and instances and no devices'
fields; `Planning` takes from it that solves do not overlap and adds what is
in the devices. `Actuator` takes a list of decisions, which `Planning` derives
from a plan. `Lifecycle` makes the instances that `Coordinator` calls 1, 2, ....

### Coordinator

A *task* is one call of `async_run_solver`; `pc` says at which await it is:
`waiting` for the lock, in the executor jobs `prices`, `constructing`, `solving`,
or `actuating`. `holder` and `waiters` are `asyncio.Lock`: fair, a woken waiter
resumes before any later caller. (Between the release and that resumption
`locked()` is False, so a refresh may start one more background solve; the
model has that.) `read` is the coroutine's locals, with
`read[t].prev` taken when the solve is submitted (`coordinator.py:726`).
`inputs[c]` counts the changes of instance c's constraint windows, and results
and plans carry the count they were computed from; what the windows are is not
modelled. A reload is `Unload` then `Setup`; tasks keep the number of the
instance they belong to. `Timeout` cancels a background task at any await; when
it was inside the native solve, the executor thread becomes an `orphan`.

The handlers of `hemm.replan`, `hemm.tick` and `hemm.simulate` are `Request`
(simulate makes the same call as a dry tick and only repackages the result).
`Republish` is the end of `hemm.actuate_now` and of the watchdog. Left out: the
iteration counter, histories and events, which nothing reads back.

### PlanRegister

The abstract specification of `async_run_solver`: an instance is a register with a
result and plans in force. A call is open for a while and at most once in that
time takes effect, in one step, with a result computed from the windows of some
moment since it was made. There is no lock, queue, phase, timeout or executor.
`Coordinator` has the refinement mapping (`Register`): a task's call is open
while it is not idle, and has taken effect while its plan is being actuated;
results, plans and published data are themselves. `ActsAtOnce` is the
specification of the register under that mapping: it is checked in the run
`coordinator` and proved in `PlanRegister_proofs`.

### Actuator

A *pass* is a call that actuates one device after another: the decisions of a
solve (`background` or `service`, at most one because of the lock),
`hemm.actuate_now`, or the watchdog. `todo` is what is left of its list,
`Current` the device in hand, `pc` the await it is at. `condition` is the last
thing done to a device; `cut` remembers devices whose pass was cancelled or
raised while it had them in hand. Scripts may raise, checks may come out either
way: the pre-call check fails in a forbidden window or with an unavailable verify
entity, and for any device when the windows cannot be looked up
(`coordinator.py:829`). Left out: the audit log (only written) and dry runs (nothing else happens
in them). The engine's check for self-confirming actions is modelled although
the manifest builder of this repository never sets the metadata it reads.

### Watchdog

Discrete time; `age` is the age of the stamp, `due` and `poll` count down to the
next refresh and check, `elapsed` is the age of the background solve. A timer
that is due stops the clock until it is served, which is the event loop running
timers on time. `lock` says only what holds the lock. `causes`
collects what could explain an old stamp, and `stale` is the time since the last
usable plan or completed watchdog pass. `buildable` says whether the manifests of
the entry's devices can all be built (`Planning` shows when they cannot): while they
cannot, solves, `hemm.actuate_now` and an alarm that is due raise, and no safe default
is called (`coordinator.py:854`). `AlarmInTime` and `OutageAlarm` are about
entries whose devices can be built.

### Lifecycle

One action per part of `async_setup_entry` and `async_unload_entry` between awaits:
`BeginSetup` is everything up to `async_forward_entry_setups`, `SetupSensors` and
`SetupSwitches` are the two platforms, in either order, `FinishSetup` is
`async_register_services` and the listener; `PlatformsUnloaded` and `UnloadRefused`
are what follows `async_unload_platforms`. `phase` is Home Assistant's setup lock of
the entry, which serialises setups and unloads; `reloads` counts the tasks of
`async_reload_entry` that wait for it. `domain` is `hass.data["hemm"]` with its order,
because handlers of services take its first value. `SetupRaises` leaves what the
code leaves: the instance in `hass.data`, its watchdog running, no listener.
`Restart` keeps the entry only. Flows are `ConfigureDevice`, `ShowRemoveForm`,
`RemoveDevice` and `SubmitSettings`; they read and write the entry as
`config_flow.py` and `device_flow.py` do, across reloads. `wanted`, `asked`, `missed` and
`stranded` are history, for the properties.

Setting up and removing entries, the setup lock and the unloading of platforms are
Home Assistant's, modelled as the code uses them and marked external. A setup
that raises after its platforms began to add entities is left out.

### Devices and Planning

`Devices` has, per type and tier, the fields of the form with their proposals
(`device_flow.py`) and, per type, the parameters of the manifest with what stands in
for a field that is not there (`manifest_builder.py`), and what the coordinator reads
of a device besides (`StateOf`, `Needed`, `Generation`). A value is the
proposal or "given", a control class is one of the three (`Chosen`), and a charging
power typed for an EV charger also says how many phases carry it (`Ratings`).
A builder raises for a missing key (`MissesKey`) or because hemm_core refuses the
values (`Refused`, external). Of the values the forms ask for, this repository says of one
combination that hemm_core refuses it, power and phases of EV chargers
(`CHANGELOG.md:37`), and that is modelled; other
checks hemm_core may have on values are not known from here and are left out.

In `Planning` one solve after another runs over the device list: `StartSolve` takes
list and manifests, `Skip` and `Submit` are the start state check
(`coordinator.py:707`) and the submission, `SolveReturns` stores the result and derives
the decisions (`_decisions_from_result`). `Actuate` takes them up one at a time, and
`outcome` remembers what became of each: skipped (read-only mode, override), made safe
by a failed check, or started; what a started action comes to is in `Actuator`. A script
that raises or a cancellation leaves the rest untaken (`CutShort`, `cut`). `ActuationDone`
and `Republish` publish. Flows add and remove devices between any two of these. The
four sensors are read off the published data as `sensor.py` does. Which entities are dark
is chosen when they are read; power, reason and confidence tell only whether
they are the slot's or what stands in for it. This is one instance, without dry runs.

### Forecast

A price point is its instant: the rest is carried along. `Parse`, `Extract`,
`SliceFromNow`, `Step`, `HorizonSlots`, `Scan`, `Resample` follow the functions of the
same purpose; `Sorted` is a stable sort by any order, stated by the place each item
ends up at; `Offset` is the UTC offset of local time, because points are sorted
by their ISO text. The price adapter of hemm_core is external and taken to keep
points and order. The properties compare the arguments of the solve with
definitions by sets of instants that do not use these operators.

## Runs

| Run | Instance | States | Shows |
|---|---|---|---|
| `coordinator` | 2 tasks, 2 instances, 1 change of windows per instance, device list edited between none and two | 2.1 M | `Serialised`, `PenaltyBaseline`, `ActuatesPlanInForce`, `BaselineFollowsResult`, `NoSolveDuringPriceIssue`, `ReplanIsFresh`, `ResultsMoveForward`, `ActsAtOnce` |
| `coordinator_live` | 3 tasks, 1 instance, 1 orphan | 91 k | `QueueIsWaiting`, `CallEnds`, `DataCatchesUp` |
| `actuator` | 2 passes, 2 devices, one verified with 2 attempts, one with a faulty safe default; overrides and windows change | 830 k | `ReadOnly`, `ActionIsConcluded`, `VerifyIssueAfterSafeDefault`, `NeverIntoForbidden`, `PassesGoForward` |
| `actuator_live` | the same without overrides | 71 k | `PassEnds`, `WatchdogReachesAll` |
| `watchdog` | times 4/3/8/2, 2 overlapping passes | 334 k | `NoAlarmWithoutCause`, `AlarmInTime` |
| `forecast` | 8 instants, slots of 2, curves of up to 4 points in 2 groups, clocks going forward | 85 k | `PricesFromNow`, `HorizonFollowsCurve`, `GenerationHeld` |
| `lifecycle` | 2 entries one after the other, 3 instances, 1 remove form open beside the other flows, 2 settings (one also in the setup form), 2 devices, 2 waiting reloads | 1.4 M | `EditsKept`, `SettingsApplied`, `EntitiesMatch`, `ServicesReachLoaded`, `WatchdogsOwned`, `EditsReach` |
| `planning` | every type in every tier and control class alone, filled in as proposed, with one field, all but one, and all; EV chargers with powers for one, for three and for no phases; two full batteries, both reactive | 663 k | `FlowDevicesBuild`, `FieldsUsed`, `TiersAgree`, `MeasuredStartState`, `ActedAsShown` |
| `native`, `filter`, `watchdog_faulty`, `outage` | as above | | violated: see Findings |

Each passing run but the liveness ones also checks the module's `TypeOK`.

Why the bounds are enough. Two tasks are one holder and one waiter: every race
over the lock is between two. The order of the queue needs a third task, which
`coordinator_live` has. Two instances are one reload with tasks of the old one
open. One change of windows separates old inputs from new ones.
Orphaned native solves touch nothing but their own count, so `coordinator` has none;
a task that leaves the lock out of its solve is there as `Raise`. Two passes over
two devices give every interleaving on one device, and a device before and one
after a failing one; no device there is both verified and faulty, so a raising safe
default in place of a `verify_failed` issue is covered by the theorem on
`VerifyIssueAfterSafeDefault` only. The watchdog's times keep the proportions of the defaults
(timeout two refresh intervals, several polls per timeout, the solve timeout just
below the refresh interval). Eight instants with slots of two hold curves that
start before, at and after now, end inside a slot, and cross the clock change.
Three instances of an entry are one before and one after an instance that was
stranded or reloaded, and a second entry finds what the first left in `hass.data`.
Two waiting reloads are one that is about to be served and one that comes after it.
A device's form and manifest do not depend on other devices, so one of each kind
is enough for them; two batteries give solves of a selection, a start state
missing for one, a list edited in the middle of a solve, and a decision taken up
before another is cut off. The code tells only the class passive from the rest, device
by device, so the pair is reactive and a device alone has all three.

What the properties rule out that a test would hardly see: an old instance's
task writing over a newer result (`ResultsMoveForward`); a solve penalised
against a plan that was replaced while it ran (`PenaltyBaseline`); a caller
given an answer from before its own change of the windows (`ReplanIsFresh`); a
waiter left in the queue by its timeout (`QueueIsWaiting`); a device left acting
and unverified when two passes overlap (`ActionIsConcluded`); a window added in
the backoff and ignored by the retry (`NeverIntoForbidden`); a pass that takes a
device again or is set back by another pass (`PassesGoForward`); a device removed in
one flow brought back by another (`EditsKept`); a cleared setting that stays in
force (`SettingsApplied`); services left with a dead instance (`ServicesReachLoaded`)
and a timer left to call safe defaults (`WatchdogsOwned`); a default that differs
between form and builder (`TiersAgree`); a solve that assumes the state of charge of
a device it was not asked about (`MeasuredStartState`); a device whose defaults end
the solves of all (`FlowDevicesBuild`); an action started for a device that the
sensors show otherwise, and one they show active that is dropped without a
decision, while the list changes between plan, publication and scripts
(`ActedAsShown`).

### Fairness

`Coordinator!FairSpec`: the event loop runs ready tasks (`Acquire`, `SubmitSolve`),
executor jobs of prices end, the refresh timer fires, and `asyncio.wait_for`
fires. Weak fairness is enough since the lock is FIFO: once at the head, a
waiter stays there. A background solve is *not* assumed to return: its timeout
ends it. The solve of a service call has no timeout in the code, so that it
returns is assumed; without it `CallEnds` is false (a hazard in the list).
`OrphanEnds` is fair because of the cap on orphans: a native solve runs under
the solver's own time limit. Calls are not fair.

`Actuator!FairSpec`: blocking script calls end, polling has a deadline, backoff is a
sleep; a faulty script raises. Cancellation, overrides and windows are not fair.

`Lifecycle!FairSpec`: Home Assistant finishes the setups and unloads it began and
runs the reload tasks it created. Neither success nor failure of an unload is
assumed, and users, restarts and failures are not fair.

## Proofs

The proof modules hold for every value of the constants under the named
assumptions of the component's module: any number of tasks, devices, instances,
orphans, flows, settings and changes; any times, orders of devices and plans.

`Coordinator_proofs`

| Theorem | Property | Argument |
|---|---|---|
| `TypeCorrect` | `TypeOK` | inductive as it stands |
| `MutualExclusion` | `Serialised` | with `TypeOK`: only `Acquire` enters, when the holder is `NoTask`; who leaves is the holder |
| `HolderStateKept` | `HolderState` | the next two properties together, inductive with `Serialised`: only the task in the lock writes plans, results and the issue, so what it read is still so |
| `BaselineStands` | `PenaltyBaseline` | a conjunct of `HolderState` |
| `IssueMeansNoSolve` | `NoSolveDuringPriceIssue` | a conjunct of `HolderState` |
| `AlwaysInTime` | `InTime` | the strengthening: what was asked is no newer than what was read, which is no newer than the inputs, and results are no newer than what their instance's tasks in the lock read |
| `FreshReplies` | `ReplanIsFresh` | `InTime` bounds the inputs a reply is computed from |
| `MovesForward` | `ResultsMoveForward` | `InTime` at the step that stores a result |

`Serialised` alone says nothing about data, and neither `PenaltyBaseline` nor
`ReplanIsFresh` is inductive: the first needs that no other task can replace the
plans, the second that what a task reads inside the lock is at least what was
current when it called.

`Watchdog_proofs`: `TypeOK`, `NoAlarmWithoutCause` and `AlarmInTime` for all times with
`WatchdogTimeout > UpdateInterval + SolverTimeout` (1800 s > 900 s + 870 s by
default). The inductive invariant `OnSchedule` says that without a cause the age of
the stamp plus the time until the next refresh is at most the refresh interval, and
during a background solve the age exceeds the interval by at most the solve's own
age; `SeenInTime` says that until the watchdog fires, the age plus the time until
the next poll stays below the timeout plus one poll interval, for an entry whose
devices can be built. The option `watchdog_timeout_seconds` may be set below that sum, and then
`NoAlarmWithoutCause` is false: an alarm in healthy operation.

`PlanRegister_proofs`

| Theorem | Property | Argument |
|---|---|---|
| `QueueKept` | `QueueIsWaiting` | with `TypeOK`: who comes is not in the queue yet, who leaves by its turn or its timeout is in it once |
| `PlansAlwaysFollow`, `PlanInForce`, `BaselineFollows` | `ActuatesPlanInForce`, `BaselineFollowsResult` | inductive together (`PlansFollow`) with `Serialised`: while a task actuates, no other stores a result |
| `CallsGoForward` | the safety half of `CallEnds` | with `TypeOK` and `QueueIsWaiting`, one step at a time: an open call ends, stays where it is with nobody new ahead of it in the queue, or comes to its next await |
| `NobodyIsStuck` | the safety half of `CallEnds` | from `Serialised` and `QueueIsWaiting`: while a call is open somebody is in the lock, or it is free and the head of the queue can take it |
| `NoLeftoversKept` | `NoLeftovers` | an idle task has no request: its next call starts from nothing |
| `ImplementsRegister` | `ActsAtOnce` | under `Known` (types, `Serialised`, `InTime`, `QueueIsWaiting`, `PlansFollow`, `NoLeftovers`) every step of `Coordinator` is one of the register or a stutter; `InTime` is what makes a stored result as new as its call and its predecessor |

`Actuator_proofs`: with `Known` (the types of the unfinished lists, and `PassOK`: a pass that
is at an await has a device in hand and its attempt within that device's attempts),
`TypeCorrect`, `ReadOnlyKept` (`ReadOnly`: only the watchdog passes a read-only engine)
and `WindowsRespected` (`NeverIntoForbidden`: each attempt, the retried ones too, looks at
the windows). `ActionIsConcluded` is not inductive: a pass that is making a device safe has
it in hand, but does not answer for an action another pass started since.
`Concluding` leaves such passes out, and gives `ActionsConclude`. `IssueAfterSafeDefault`
(`VerifyIssueAfterSafeDefault`) follows the order of script and issue. `PassesAreFinite`
(`PassesGoForward`) is the safety half of `PassEnds`: script, polling and backoff of each
attempt left are counted by `StepsLeft`, and every step of a pass lowers it, finishes
the device for good or ends the pass; `PassOK` gives that the count is never below 0.
`WatchdogSkipsNone` is the safety half of `WatchdogReachesAll`: with `OnlySafes` (a watchdog
pass starts no action) it leaves a device only after its safe default, and ends early
only at one that raises.

`Lifecycle_proofs`: `Known` is `DictOK` (`hass.data` holds a key once), `RestOK` (types) and
`PhaseOK` (what state the entry is in at each phase of setup and unload), and gives
`TypeCorrect`. `Stored` (devices and options are what was asked for) gives `EditsAreKept`
(`EditsKept`). `SettingsReach` (`SettingsApplied`) and `EntitiesFollow` (`EntitiesMatch`) need
`Fresh`: from the moment the instance is made, settings and entities are the entry's
unless an edit was missed, and once it is loaded there is a listener to make an edit a
reload. From the same invariant `NoEditForgotten` is the safety half of `EditsReach`: an
instance that shows less than the entry stores has a reload or unload coming. `WatchdogsAreOwned` (`WatchdogsOwned`) and `ServicesFollow` (`ServicesReachLoaded`)
need `Owned`: every timer belongs to an instance in `hass.data` or a stranded one, and
whatever is there besides the newest was stranded.

`Planning_proofs`: `Filled` says of a device that the required fields of its type and tier
are there and no value is one that stands for a missing field. The flow stores only such
(`StoredFilled`); no builder misses a key of one (`FilledHasKeys`), and one that hemm_core
refuses is an EV charger with a typed power that its phases, typed or proposed, do not
carry (`RefusedIsTyped`): together `DevicesBuild` (`FlowDevicesBuild`). `SolveOK` has the needed
entities among those read (`StartStateMeasured`, `MeasuredStartState`) and ties the snapshot
of a solve to the devices still listed: an id is never given out twice, so an
edit does not change what it stands for. `ResultOK` says that the decisions waiting, taken
up and cut off are together those the stored result has for the devices listed now; a step
of the actuation moves a decision from one of these to another and loses none
(`DecidedStay`). `ShownIsActed` (`ActedAsShown`) follows;
`TypeCorrect` adds `ResultTypes`, the types of results and of what is published.
The other two are about the tables of `Devices`, for every set of fields a user may
fill in, where the run has a few. `TiersMeanTheSame` (`TiersAgree`): a device completed
with proposals of a higher tier (`Completes`) reads the same at every place a builder
looks (`SameKey` and the lemmas after it), builder by builder. `FormRecovered`: two
devices of one type and tier with filled forms that are handed to a solve alike have
the same form; one lemma per builder says which fields its manifest gives back.
`NothingInVain` (`FieldsUsed`) is the case of one field that differs.

`Forecast_proofs` holds for curves and series of any length.

| Theorem | Property | Argument |
|---|---|---|
| `CutKeepsRest`, `HorizonWithinCurve` | | about the operators: what the cut keeps of a curve in order, how many slots a curve gives |
| `TypeCorrect` | `TypeOK` | inductive; the horizon and the resampling have their bounds for any input |
| `StartsWithPriceInForce` | `PricesFromNow` | what is parsed and sorted has the points on offer (`SortedList`, `ExtractedOffer`) and is in order; then `CutKeepsRest` |
| `HorizonIsTheCurve` | `HorizonFollowsCurve` | the last two points are the last two on offer; then `HorizonWithinCurve` |
| `GenerationIsLatest` | `GenerationHeld` | the series is sorted, and the scan, which never goes back, has reached at each slot the last point at or before its start (`ResampledSlot`) |

A sort is a place for every item: the position of an item is how many the order puts
at or before it. That this is a permutation, and that the scan of one slot goes on where
that of the slot before ended, are the two inductions, on counts and on slots.
Two theorems have a hypothesis, and neither can do without it. `ClockKeepsOrder`
(`StartsWithPriceInForce`, `HorizonIsTheCurve`): the text of local times is in the order of
the instants, that is, clocks are not put back between the points of a curve; TLC finds
`PricesFromNow` violated with an offset that goes back, as the code
would (Also seen, below). `SinglePoints` (`HorizonIsTheCurve`): no list of an entity has two
usable prices of one instant; with a last point given twice the last price
covers one solver slot whatever the spacing before it (`coordinator.py:271`). `TypeCorrect`
and `GenerationIsLatest` need neither: the generation is sorted by instants. The
instance of the run `forecast` satisfies both.

Only model-checked: everything under fairness (`CallEnds`, `DataCatchesUp`, `PassEnds`,
`WatchdogReachesAll`, `EditsReach`), which is outside the prover. What the fair steps rest
on is proved, as said above for four of them; for `DataCatchesUp` there is nothing
between: one refresh rebuilds the data.

## Findings

Four runs end in a violation of what a document or a comment of the repository
says; `PROJECT.json` quotes the lines.

- `native` — a background solve that times out releases the lock while its native
  solve still runs, and the next solve starts beside it. The lock is there
  because concurrent native solves deadlock (`coordinator.py:78`).
- `filter` — a replan with `device_filter` replaces the plans of all devices
  (`README.md:42`).
- `watchdog_faulty` — a raising safe default keeps the watchdog from every later
  device, on every pass.
- `outage` — error results stamp the update time, so an outage is never noticed.

Also seen. Where text and code differ:

- An override turned on between two attempts does not stop the retry: the switch is
  read before the loop (`actuator.py:163`; "suspends HEMM actuation", `switch.py:35`).
- Price points are sorted by their ISO text (`coordinator.py:165`), which interleaves the
  repeated hour when daylight saving time ends; the cut at now takes them to be in order
  (`coordinator.py:246`).
- `docs/onboarding.md:24` has every type support beginner and pro; rooms and thermostat
  loads have no pro tier (`const.py`, `DEVICE_PRO_SUPPORT`, whose comment counts 6 of 7).
- Passive devices are "never actuated" (`README.md:38`); the watchdog calls the safe
  default of every device, passive ones too (`coordinator.py:855`).
- The reason `safety_default` is shown after an error result (`coordinator.py:982`), when
  no safe default was called.
- A test has it that an entry the flow creates means the manifest "was validated successfully
  in the flow" (`tests/integration/test_hactl_manifest.py:124`). The flow takes any power up
  to 350 kW with any phases for an EV charger (`device_flow.py:255-259`; a beginner is
  not asked, and gets three), and hemm_core takes 32 A at 230 V per phase
  (`CHANGELOG.md:37`). With such a charger in the list every solve, `actuate_now` and due
  alarm raises where the manifests are built, before any safe default, until the charger
  is removed.
- `README.md:19` says the actuator and its verification have not shipped; `actuator.py` is
  there, and solves act through it unless the entry is read-only.
- A slot without a mode is shown as `active` (`coordinator.py:953`) and not acted on (`:803`).

Where nothing is promised:

- When the published curve has ended, the solve is anchored at its last point, however
  long ago; a manual curve starts anew at each solve; a plan for an hourly tariff starts
  at the beginning of the hour under way, not at now.
- An edit while a setup is under way reaches the instance with the next edit only.
- A setup that raises or a refused unload leaves its instance in `hass.data`, also when the
  entry is then removed. An entry created after that is the second key there: it registers
  no services, which stay missing, or stay and reach the old instance.
- A list that ends with two prices of one instant makes its last price cover one solver
  slot, not the spacing of the curve, and the horizon ends that much earlier.
- A water heater's insulation class is proposed as medium, and is None in the manifest of
  a tier that does not ask for it.
- An idle plan leaves a device in its last action, and so does its removal; the first slot
  of a plan is shown and acted on by `actuate_now` as long as solves are skipped.

## Not modelled

The solver, the price adapters and the window manager are hemm_core, outside the
repository. `device_info.py` and `diagnostics.py` map values without state;
`identification.py` holds stubs that nothing calls to effect; of `const.py` only types and tiers
matter. The menus, texts and single-step forms of the flows are left out, as are
hours, penalties and priorities of windows. Values of prices, energy and plans are not
modelled, nor is wording. `warp-lib/warp.c` is an `LD_PRELOAD` clock of the simulation
tests, no part of the integration, with a floating point controller: its hazard is
listed and left. `tools/compress_container_log.py` is a text filter of the test harness.

## Plan

Done: `Coordinator`, `Watchdog`, `Actuator`, `Forecast` with their runs; `PlanRegister` and
the refinement; `Lifecycle`; `Devices` and `Planning`; proofs of every safety property
and action property the runs check.

Left, in this order:

1. `Windows`: adding, expiring and removing windows, once hemm_core's manager is at hand;
   here only its calls are.
2. The device registry: stale devices of removed ids (`device_info.py`), if entities
   come to depend on it.
3. `Warp`: initialisation by several threads, clock reads while the controller changes
   the speed, the speed file between processes, the controller's integral and its bounds.
