---------------------------- MODULE Coordinator ----------------------------
(***************************************************************************)
(* Solve scheduling of HemmCoordinator: who may solve, on which inputs,    *)
(* what a finished solve changes, and what happens when a solve is late,   *)
(* fails, or outlives the coordinator instance that started it.            *)
(*                                                                         *)
(* A task is one call of async_run_solver: the background task of a        *)
(* refresh, or the handler of hemm.replan, hemm.tick or hemm.simulate.     *)
(* All coordinator code runs on the event loop, so one action is the code  *)
(* between two awaits that really suspend.  The steps that run in executor *)
(* threads (price adapter, solver construction, the native solve) lie      *)
(* between two actions.  A reload replaces the coordinator instance; tasks *)
(* of the old one go on, which is why the lock is process-wide.            *)
(*                                                                         *)
(* The watchdog's time stamp is in module Watchdog, the script calls of    *)
(* the "actuating" phase are in module Actuator.                           *)
(***************************************************************************)
EXTENDS Naturals, Sequences, FiniteSets, SequencesExt

CONSTANTS
    Tasks,        \* calls of async_run_solver that can be open at a time
    NoTask,       \* the lock is free
    Devices,      \* device ids an entry may configure
    DeviceLists,  \* the device lists the entry goes through
    Filters,      \* the device_filter lists a replan may carry ({} is "no filter")
    Statuses,     \* the SolverStatus values a solve may return
    MaxInputs,    \* bound: changes of an instance's constraint windows
    MaxLoads,     \* bound: coordinator instances (setups of the entry)
    MaxOrphans    \* bound: native solves running without a task

ASSUME TasksAssumption    == NoTask \notin Tasks
ASSUME StatusesAssumption == {"OPTIMAL", "ERROR"} \subseteq Statuses
ASSUME BoundsAssumption   == /\ MaxInputs \in Nat
                             /\ MaxLoads \in Nat \ {0}
                             /\ MaxOrphans \in Nat
ASSUME DevicesAssumption  == /\ DeviceLists \subseteq SUBSET Devices
                             /\ Filters \subseteq SUBSET Devices

VARIABLES
    devices,         \* devices listed in the config entry
    inputs,          \* how often the constraint windows of each instance changed
    loaded,          \* instances created so far: the number of the newest
    running,         \* is the newest instance set up (FALSE: unloaded)
    holder,          \* _SOLVE_LOCK: the task inside async with, or NoTask
    waiters,         \* _SOLVE_LOCK: FIFO of tasks waiting for it
    pc,              \* where each task is
    req,             \* the arguments of each task's call
    read,            \* what its _do_solve read: locals of the coroutine
    last_result,     \* _last_result of each instance
    previous_plans,  \* _previous_plans of each instance
    data,            \* the result shown by the newest instance's entities
    price_issue,     \* the price_unavailable repair issue is shown
    orphans,         \* executor threads in a solve whose task was cancelled
    stale_reply      \* history: a caller got a result older than its call

vars == <<devices, inputs, loaded, running, holder, waiters, pc, req, read,
          last_result, previous_plans, data, price_issue, orphans, stale_reply>>

-----------------------------------------------------------------------------
Instances == 1..MaxLoads
Versions  == 0..MaxInputs
Usable    == Statuses \cap {"OPTIMAL", "FEASIBLE"}

\* A list of plans: the devices it plans and the inputs it was computed from.
Plans   == [at : Versions, devs : SUBSET Devices]
NoPlans == [at |-> 0, devs |-> {}]

Results  == [status : Statuses \cup {"none"}, at : Versions, devs : SUBSET Devices]
NoResult == [status |-> "none", at |-> 0, devs |-> {}]
\* result.plans.  (Mutant: the whole result is kept as the plans.)
WholeResult(r) == r
PlansOf(r)     == [at |-> r.at, devs |-> r.devs]

Kinds     == {"background", "replan", "tick"}
Calls     == [kind : Kinds \cup {"none"}, dry : BOOLEAN, filter : SUBSET Devices,
              owner : Instances, asked : Versions]
NoCall    == [kind |-> "none", dry |-> FALSE, filter |-> {}, owner |-> 1, asked |-> 0]
Reads     == [at : Versions, devs : SUBSET Devices, prev : Plans]
NoRead    == [at |-> 0, devs |-> {}, prev |-> NoPlans]

Phases  == {"idle", "waiting", "prices", "constructing", "solving", "actuating"}
InLock  == {"prices", "constructing", "solving", "actuating"}

\* device_filter: an absent or empty list selects every device.
Selected(f) == IF f = {} THEN devices ELSE devices \cap f

\* async_set_updated_data(_build_data()): the entities show the instance's
\* result.  Nobody listens to an unloaded instance.
Publish(c) == data' = IF running /\ c = loaded THEN last_result'[c] ELSE data

\* The plan _build_data makes of result r for device d: none ("idle" at 0 kW)
\* unless the result is usable and plans d.
DevicePlan(r, d) ==
    IF r.status \in Usable /\ d \in r.devs THEN {r.at} ELSE {}

-----------------------------------------------------------------------------
Init ==
    /\ devices \in DeviceLists
    /\ inputs = [c \in Instances |-> 0]
    /\ loaded = 0 /\ running = FALSE
    /\ holder = NoTask /\ waiters = <<>>
    /\ pc = [t \in Tasks |-> "idle"]
    /\ req = [t \in Tasks |-> NoCall]
    /\ read = [t \in Tasks |-> NoRead]
    /\ last_result = [c \in Instances |-> NoResult]
    /\ previous_plans = [c \in Instances |-> NoPlans]
    /\ data = NoResult
    /\ price_issue = FALSE
    /\ orphans = 0
    /\ stale_reply = FALSE

-----------------------------------------------------------------------------
(***************************************************************************)
(* Entering and leaving async_run_solver                                   *)
(***************************************************************************)

\* Queue for the lock.  asyncio.Lock is fair: a woken waiter resumes in a
\* later loop iteration; locked() is already False then, but no later caller
\* can overtake it.
Call(t, c, kind, dry, filter) ==
    /\ pc[t] = "idle"
    /\ pc' = [pc EXCEPT ![t] = "waiting"]
    /\ req' = [req EXCEPT ![t] = [kind |-> kind, dry |-> dry, filter |-> filter,
                                  owner |-> c, asked |-> inputs[c]]]
    /\ waiters' = Append(waiters, t)

\* The lock can be taken.  (Mutants: one lock per instance; no lock.)
LockFreeInInstance(t) == holder # NoTask => req[holder].owner # req[t].owner
NoLock(t)   == TRUE
LockFree(t) == holder = NoTask

\* A cancelled waiter leaves the queue.  (Mutant: it stays.)
StayQueued(t) == UNCHANGED waiters
Dequeue(t)    == \E i \in DOMAIN waiters :
                    waiters[i] = t /\ waiters' = RemoveAt(waiters, i)

\* The coroutine is gone, and with it the lock and its locals.
Leave(t) ==
    /\ holder' = NoTask
    /\ pc' = [pc EXCEPT ![t] = "idle"]
    /\ req' = [req EXCEPT ![t] = NoCall]
    /\ read' = [read EXCEPT ![t] = NoRead]

\* Return a result computed from inputs version at.  The background task and the
\* replan handler publish before anything else runs: no await lies between.
Return(t, at) ==
    /\ Leave(t)
    /\ stale_reply' = (stale_reply \/ at < req[t].asked)
    /\ IF req[t].kind \in {"background", "replan"}
       THEN Publish(req[t].owner) ELSE UNCHANGED data

\* Leave by an exception: a service handler ends there and publishes nothing,
\* the background task logs it.  (Mutant: without the async with, the lock is
\* not released.)
AbortInLock(t) ==
    /\ pc' = [pc EXCEPT ![t] = "idle"]
    /\ req' = [req EXCEPT ![t] = NoCall]
    /\ read' = [read EXCEPT ![t] = NoRead]
    /\ UNCHANGED <<holder, data, stale_reply>>
Abort(t) ==
    /\ Leave(t)
    /\ UNCHANGED <<data, stale_reply>>

(***************************************************************************)
(* Steps of a task                                                         *)
(***************************************************************************)

\* A service handler calls async_run_solver of the instance in hass.data;
\* hemm.simulate makes the same call as a dry hemm.tick.
\* (Mutant: while a solve runs the handler returns the cached result.)
RequestOrSkip(t) ==
    /\ running /\ pc[t] = "idle"
    /\ IF holder = NoTask
       THEN Call(t, loaded, "replan", FALSE, {}) /\ UNCHANGED stale_reply
       ELSE /\ stale_reply' = (stale_reply \/ last_result[loaded].at < inputs[loaded])
            /\ UNCHANGED <<pc, req, waiters>>
    /\ UNCHANGED <<devices, inputs, loaded, running, holder, read, last_result,
                   previous_plans, data, price_issue, orphans>>
Request(t) ==
    /\ running
    /\ \E dry \in BOOLEAN :
         \/ \E f \in Filters \cup {{}} : Call(t, loaded, "replan", dry, f)
         \/ Call(t, loaded, "tick", dry, {})
    /\ UNCHANGED <<devices, inputs, loaded, running, holder, read, last_result,
                   previous_plans, data, price_issue, orphans, stale_reply>>

\* The head of the queue gets the free lock and runs _do_solve up to its
\* first suspension, the executor job of the price adapter.
Acquire(t) ==
    /\ waiters # <<>> /\ t = Head(waiters) /\ LockFree(t)
    /\ waiters' = Tail(waiters)
    /\ UNCHANGED <<devices, inputs, loaded, running, last_result, previous_plans, orphans>>
    /\ \/ \* no devices, or the filter matches none
          /\ Selected(req[t].filter) = {}
          /\ Return(t, inputs[req[t].owner])
          /\ UNCHANGED price_issue
       \/ \* build_all_manifests raises
          /\ devices # {}
          /\ Abort(t)
          /\ UNCHANGED price_issue
       \/ \* the price entity cannot be read
          /\ Selected(req[t].filter) # {}
          /\ Return(t, inputs[req[t].owner])
          /\ price_issue' = TRUE
       \/ /\ Selected(req[t].filter) # {}
          /\ holder' = t
          /\ pc' = [pc EXCEPT ![t] = "prices"]
          /\ read' = [read EXCEPT ![t] = [at |-> inputs[req[t].owner],
                                          devs |-> Selected(req[t].filter),
                                          prev |-> NoPlans]]
          /\ UNCHANGED <<req, data, stale_reply, price_issue>>

\* async_clear_price_unavailable_issue.  (Mutant: it is forgotten.)
KeepIssue  == UNCHANGED price_issue
ClearIssue == price_issue' = FALSE

\* The price job is back: the forecast is missing, or a start state entity
\* cannot be read, or the solver is constructed in an executor thread.
PricesReturn(t) ==
    /\ pc[t] = "prices"
    /\ UNCHANGED <<devices, inputs, loaded, running, waiters, last_result,
                   previous_plans, orphans>>
    /\ \/ /\ price_issue' = TRUE
          /\ Return(t, read[t].at)
       \/ /\ ClearIssue
          /\ Return(t, read[t].at)
       \/ /\ ClearIssue
          /\ pc' = [pc EXCEPT ![t] = "constructing"]
          /\ UNCHANGED <<holder, req, read, data, stale_reply>>

\* Submit solver.solve; _previous_plans is evaluated here, as an argument.
SubmitSolve(t) ==
    /\ pc[t] = "constructing"
    /\ pc' = [pc EXCEPT ![t] = "solving"]
    /\ read' = [read EXCEPT ![t].prev = previous_plans[req[t].owner]]
    /\ UNCHANGED <<devices, inputs, loaded, running, holder, waiters, req, last_result,
                   previous_plans, data, price_issue, orphans, stale_reply>>

\* An unusable result is kept, the plans are not touched.  (Mutant: they are
\* replaced as well.)
StoreAndReplan(c, r) ==
    /\ last_result' = [last_result EXCEPT ![c] = r]
    /\ previous_plans' = [previous_plans EXCEPT ![c] = PlansOf(r)]
StoreResult(c, r) ==
    /\ last_result' = [last_result EXCEPT ![c] = r]
    /\ UNCHANGED previous_plans
\* A usable result replaces the plans too.  (Mutant: StoreResult.)
Apply(c, r) ==
    /\ last_result' = [last_result EXCEPT ![c] = r]
    /\ previous_plans' = [previous_plans EXCEPT ![c] = PlansOf(r)]

\* The native solve is back.  A dry run returns after its synchronous dry
\* actuation; any other result is stored, and a usable one replaces the plans
\* and is actuated.
SolveReturns(t) ==
    /\ pc[t] = "solving"
    /\ UNCHANGED <<devices, inputs, loaded, running, waiters, price_issue, orphans>>
    /\ \E status \in Statuses :
       LET c == req[t].owner
           r == [status |-> status, at |-> read[t].at,
                 devs |-> IF status \in Usable THEN read[t].devs ELSE {}]
       IN  \/ /\ req[t].dry
              /\ UNCHANGED <<last_result, previous_plans>>
              /\ Return(t, read[t].at)
           \/ /\ ~req[t].dry /\ status \notin Usable
              /\ StoreResult(c, r)
              /\ Return(t, read[t].at)
           \/ /\ ~req[t].dry /\ status \in Usable
              /\ Apply(c, r)
              /\ pc' = [pc EXCEPT ![t] = "actuating"]
              /\ UNCHANGED <<holder, req, read, data, stale_reply>>

\* Every decision of the plan went through the actuator.
ActuationDone(t) ==
    /\ pc[t] = "actuating"
    /\ UNCHANGED <<devices, inputs, loaded, running, waiters, last_result,
                   previous_plans, price_issue, orphans>>
    /\ Return(t, read[t].at)

\* A manifest, the price job, the construction, the solve or a script of the
\* actuation raises.
Raise(t) ==
    /\ pc[t] \in {"prices", "constructing", "solving", "actuating"}
    /\ Abort(t)
    /\ UNCHANGED <<devices, inputs, loaded, running, waiters, last_result,
                   previous_plans, price_issue, orphans>>

\* asyncio.wait_for of the background task expires: the coroutine is
\* cancelled wherever it is, a waiter leaves the queue, the lock is released.
\* A native solve cannot be cancelled and keeps its executor thread.
Timeout(t) ==
    /\ pc[t] # "idle" /\ req[t].kind = "background"
    /\ pc[t] = "solving" => orphans < MaxOrphans
    /\ orphans' = IF pc[t] = "solving" THEN orphans + 1 ELSE orphans
    /\ IF pc[t] = "waiting"
       THEN /\ Dequeue(t)
            /\ pc' = [pc EXCEPT ![t] = "idle"]
            /\ req' = [req EXCEPT ![t] = NoCall]
            /\ UNCHANGED <<holder, read, data, stale_reply>>
       ELSE Abort(t) /\ UNCHANGED waiters
    /\ UNCHANGED <<devices, inputs, loaded, running, last_result, previous_plans, price_issue>>

\* An executor thread whose task is gone finishes; nobody reads its result.
OrphanEnds ==
    /\ orphans > 0
    /\ orphans' = orphans - 1
    /\ UNCHANGED <<devices, inputs, loaded, running, holder, waiters, pc, req, read,
                   last_result, previous_plans, data, price_issue, stale_reply>>

(***************************************************************************)
(* Refresh, inputs, and the life of an instance                            *)
(***************************************************************************)

\* What a refresh returns.  (Mutant: the cached data.)
Cached(c)  == UNCHANGED data
Rebuild(c) == data' = last_result[c]

\* _async_update_data: start a background solve unless one is in flight, and
\* return the data built from what is there now.  (Bound: Tasks; when every
\* task is open, one more background solve is not modelled.)
UpdateData(c) ==
    /\ UNCHANGED last_result
    /\ Rebuild(c)
    /\ IF devices # {} /\ holder = NoTask /\ (\E t \in Tasks : pc[t] = "idle")
       THEN \E t \in Tasks : Call(t, c, "background", FALSE, {})
       ELSE UNCHANGED <<pc, req, waiters>>

\* The 15 minute schedule, or the debounced refresh hemm.tick asks for.
Refresh ==
    /\ running
    /\ UpdateData(loaded)
    /\ UNCHANGED <<devices, inputs, loaded, running, holder, read, previous_plans,
                   price_issue, orphans, stale_reply>>

\* async_setup_entry: a new instance with empty state and its first refresh.
Setup ==
    /\ ~running /\ loaded < MaxLoads
    /\ running' = TRUE
    /\ loaded' = loaded + 1
    /\ UpdateData(loaded')
    /\ UNCHANGED <<devices, inputs, holder, read, previous_plans, price_issue,
                   orphans, stale_reply>>

\* async_unload_entry: the instance leaves hass.data.  Its tasks go on.  The
\* last instance of the bound stays loaded.
Unload ==
    /\ running /\ loaded < MaxLoads
    /\ running' = FALSE
    /\ UNCHANGED <<devices, inputs, loaded, holder, waiters, pc, req, read, last_result,
                   previous_plans, data, price_issue, orphans, stale_reply>>

\* add_constraint_window, remove_constraint or bump_priority on the windows of
\* the newest instance, between two steps of any task.  The windows are the
\* instance's own: a new one starts without any.
ChangeInputs ==
    /\ running /\ inputs[loaded] < MaxInputs
    /\ inputs' = [inputs EXCEPT ![loaded] = @ + 1]
    /\ UNCHANGED <<devices, loaded, running, holder, waiters, pc, req, read, last_result,
                   previous_plans, data, price_issue, orphans, stale_reply>>

\* hemm.actuate_now and the watchdog end by publishing what is there.
Republish ==
    /\ running
    /\ Rebuild(loaded)
    /\ UNCHANGED <<devices, inputs, loaded, running, holder, waiters, pc, req, read,
                   last_result, previous_plans, price_issue, orphans, stale_reply>>

\* A device flow rewrites the entry's device list, whether or not an instance is
\* set up; its reload is Unload and Setup, and until then the old instance works
\* on the new list.
EditDevices ==
    /\ devices' \in DeviceLists \ {devices}
    /\ UNCHANGED <<inputs, loaded, running, holder, waiters, pc, req, read, last_result,
                   previous_plans, data, price_issue, orphans, stale_reply>>

-----------------------------------------------------------------------------
Step(t) == \/ Acquire(t) \/ PricesReturn(t) \/ SubmitSolve(t) \/ SolveReturns(t)
           \/ ActuationDone(t) \/ Raise(t) \/ Timeout(t)

Next == \/ \E t \in Tasks : Request(t) \/ Step(t)
        \/ OrphanEnds \/ Refresh \/ Republish \/ Setup \/ Unload \/ ChangeInputs \/ EditDevices

Spec == Init /\ [][Next]_vars

-----------------------------------------------------------------------------
(***************************************************************************)
(* Properties                                                              *)
(***************************************************************************)

\* Every variable has its type.
TypeOK ==
    /\ devices \in DeviceLists
    /\ inputs \in [Instances -> Versions]
    /\ loaded \in 0..MaxLoads /\ running \in BOOLEAN
    /\ running => loaded \in Instances
    /\ holder \in Tasks \cup {NoTask}
    /\ waiters \in Seq(Tasks)
    /\ pc \in [Tasks -> Phases]
    /\ req \in [Tasks -> Calls]
    /\ read \in [Tasks -> Reads]
    /\ last_result \in [Instances -> Results]
    /\ previous_plans \in [Instances -> Plans]
    /\ data \in Results
    /\ price_issue \in BOOLEAN
    /\ orphans \in 0..MaxOrphans
    /\ stale_reply \in BOOLEAN

\* Between a task's first executor job and its end the process-wide lock is
\* its own: no two tasks are inside _do_solve, not even tasks of an unloaded
\* and of the current instance.
Serialised == \A t \in Tasks : pc[t] \in InLock <=> holder = t

\* The queue of the lock lists the waiting tasks, each once: no cancelled
\* waiter is left in it to be woken, and none is lost.
QueueIsWaiting ==
    /\ \A t \in Tasks : pc[t] = "waiting" <=> \E i \in DOMAIN waiters : waiters[i] = t
    /\ \A i, j \in DOMAIN waiters : waiters[i] = waiters[j] => i = j

\* The plans a solve was given as its penalty baseline are still the plans in
\* force of its instance when it returns.
PenaltyBaseline ==
    \A t \in Tasks : pc[t] = "solving" => read[t].prev = previous_plans[req[t].owner]

\* While a plan is actuated it is the instance's result and its baseline, and
\* it was not computed by a dry run.
ActuatesPlanInForce ==
    \A t \in Tasks : pc[t] = "actuating" =>
        LET c == req[t].owner
        IN  /\ ~req[t].dry
            /\ last_result[c].status \in Usable
            /\ last_result[c].at = read[t].at /\ last_result[c].devs = read[t].devs
            /\ previous_plans[c] = PlansOf(last_result[c])

\* A usable result is the baseline of the next solve; an unusable one leaves
\* the baseline alone, which then is never newer than the result.
BaselineFollowsResult ==
    \A c \in Instances :
        IF last_result[c].status \in Usable
        THEN previous_plans[c] = PlansOf(last_result[c])
        ELSE previous_plans[c].at <= last_result[c].at

\* Nobody optimises while the price_unavailable issue tells the user that
\* solves are skipped.
NoSolveDuringPriceIssue ==
    \A t \in Tasks : pc[t] \in {"constructing", "solving", "actuating"} => ~price_issue

\* A call that returns was solved on inputs at least as new as those of the
\* moment it was made, even when another solve was in flight then.
ReplanIsFresh == ~stale_reply

\* The result of an instance is never replaced by one computed from older
\* constraint windows.
ResultsMoveForward ==
    [][\A c \in Instances : last_result[c].at <= last_result'[c].at]_vars

\* The register PlanRegister promises: an instance's call is open while its task
\* is, and has taken effect when its plan is being actuated.
Register == INSTANCE PlanRegister WITH
    Callers <- Tasks,
    Owners  <- Instances,
    result  <- last_result,
    plans   <- previous_plans,
    call    <- [t \in Tasks |-> [open |-> pc[t] # "idle", of |-> req[t].owner,
                                 asked |-> req[t].asked, dry |-> req[t].dry,
                                 done |-> pc[t] = "actuating"]],
    current <- loaded,
    shown   <- data

\* However calls of several instances queue, suspend, time out and fail, each
\* takes effect at one moment between its beginning and its end, on inputs of
\* that time, and not at all when it is dry or does not get to its result.
ActsAtOnce == Register!Spec

-----------------------------------------------------------------------------
\* Fairness: the event loop and the executor run what is ready, timers fire,
\* and native solves end.  A background solve need not return, its timeout
\* ends it; the solve of a service call has no timeout and has to return.
Fairness ==
    /\ WF_vars(Refresh)
    /\ \A t \in Tasks :
         /\ WF_vars(Acquire(t)) /\ WF_vars(PricesReturn(t)) /\ WF_vars(SubmitSolve(t))
         /\ WF_vars(req[t].kind # "background" /\ SolveReturns(t))
         /\ WF_vars(req[t].kind # "background" /\ ActuationDone(t))
         /\ WF_vars(Timeout(t))
    /\ WF_vars(OrphanEnds)

FairSpec == Spec /\ Fairness

\* Every call of async_run_solver ends, whoever is ahead of it in the queue.
CallEnds == \A t \in Tasks : pc[t] # "idle" ~> pc[t] = "idle"

\* What a timeout or an exception left unpublished reaches the entities: data
\* that lags behind the result is rebuilt while the instance is set up.
DataCatchesUp ==
    \A c \in Instances :
        (running /\ loaded = c /\ data # last_result[c])
            ~> (data = last_result[c] \/ ~running \/ loaded # c)

-----------------------------------------------------------------------------
(***************************************************************************)
(* What the comments and the README say and the code does not do           *)
(***************************************************************************)

\* coordinator.py:78: native solves never run side by side in executor
\* threads.
NativeExclusive ==
    Cardinality({t \in Tasks : pc[t] = "solving"}) + orphans <= 1

\* README.md:42: re-optimising some devices does not disturb the others.
FilterLeavesRest ==
    [][\A t \in Tasks :
         (/\ pc[t] = "solving" /\ req[t].filter # {}
          /\ last_result'[req[t].owner].status \in Usable) =>
           \A d \in devices \ req[t].filter :
              LET c == req[t].owner
              IN  DevicePlan(last_result'[c], d) = DevicePlan(last_result[c], d)]_vars

=============================================================================
