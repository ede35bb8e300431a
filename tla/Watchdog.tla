------------------------------ MODULE Watchdog ------------------------------
(***************************************************************************)
(* The timers of one coordinator instance: the refresh schedule, the       *)
(* timeout of background solves, the stamp _last_successful_update and the *)
(* watchdog that polls its age.  Time is discrete; in 30 s units the       *)
(* program has UpdateInterval = 30, SolverTimeout = 29 and by default      *)
(* WatchdogTimeout = 60, PollInterval = 10.                                *)
(*                                                                         *)
(* The lock is abstracted to what holds it (module Coordinator has its     *)
(* queue), a watchdog pass to its beginning and end (module Actuator).     *)
(***************************************************************************)
EXTENDS Naturals

CONSTANTS
    UpdateInterval,   \* UPDATE_INTERVAL
    SolverTimeout,    \* SOLVER_TIMEOUT_SECONDS
    WatchdogTimeout,  \* option watchdog_timeout_seconds
    PollInterval,     \* interval of start_watchdog
    Backdates,        \* values of simulate_stale_for_seconds in use
    MaxPasses         \* bound: overlapping watchdog passes

ASSUME TimesAssumption ==
    /\ UpdateInterval \in Nat \ {0} /\ SolverTimeout \in Nat
    /\ WatchdogTimeout \in Nat \ {0} /\ PollInterval \in Nat \ {0}
    /\ Backdates \subseteq 0..WatchdogTimeout
    /\ MaxPasses \in Nat \ {0}
\* True of the defaults (1800 s > 900 s + 870 s); the option allows less.
ASSUME TimeoutAssumption == WatchdogTimeout > UpdateInterval + SolverTimeout

VARIABLES
    configured,  \* the entry has devices
    buildable,   \* their manifests can all be built: see Planning, FlowDevicesBuild
    age,         \* now - _last_successful_update
    due,         \* until the scheduled refresh
    poll,        \* until the next watchdog check
    lock,        \* what holds _SOLVE_LOCK: see Holders
    elapsed,     \* age of the background solve
    passes,      \* open watchdog passes
    fired,       \* history: the watchdog fired since the last stamp
    causes,      \* history: what went wrong since the last stamp
    stale        \* history: since the last usable plan or completed pass

vars == <<configured, buildable, age, due, poll, lock, elapsed, passes, fired, causes, stale>>

-----------------------------------------------------------------------------
\* "old": a solve started by an instance that has been unloaded since.
Holders == {"free", "background", "service", "dry", "old"}

\* A background solve timed out or raised; a scheduled refresh found the lock
\* held; the refresh was put off without a stamp; the stamp was backdated.
Causes == {"timeout", "failed", "skipped", "postponed", "backdated"}

\* Ages saturate where the watchdog must have fired.
MaxAge   == WatchdogTimeout + PollInterval
Later(n) == IF n < MaxAge THEN n + 1 ELSE n

Init ==
    /\ configured \in BOOLEAN /\ buildable \in BOOLEAN
    /\ age = 0 /\ due = UpdateInterval /\ poll = PollInterval
    /\ lock = IF configured THEN "background" ELSE "free"
    /\ elapsed = 0 /\ passes = 0
    /\ fired = FALSE /\ causes = {} /\ stale = 0

\* Time passes unless something is due now.
Tick ==
    /\ due > 0 /\ poll > 0
    /\ lock = "background" => elapsed < SolverTimeout
    /\ age' = Later(age) /\ stale' = Later(stale)
    /\ due' = due - 1 /\ poll' = poll - 1
    /\ elapsed' = IF lock = "background" THEN elapsed + 1 ELSE 0
    /\ UNCHANGED <<configured, buildable, lock, passes, fired, causes>>

\* _last_successful_update = now.
Stamp == age' = 0 /\ fired' = FALSE /\ causes' = {}

NoStamp(new) == causes' = causes \cup new /\ UNCHANGED <<age, fired>>

\* async_set_updated_data starts the refresh interval again.  (Mutant: plus
\* the time a solve may take.)
RescheduleLate == due' = UpdateInterval + SolverTimeout
Reschedule == due' = UpdateInterval

-----------------------------------------------------------------------------
\* The refresh, scheduled or requested: it starts a background solve unless
\* the lock is held, and schedules the next refresh.
Refresh ==
    /\ Reschedule
    /\ \/ /\ configured /\ lock = "free"
          /\ lock' = "background" /\ elapsed' = 0
          /\ NoStamp({})
       \/ /\ configured /\ lock # "free"
          /\ NoStamp({"skipped"})
          /\ UNCHANGED <<lock, elapsed>>
       \/ /\ ~configured
          /\ NoStamp({})
          /\ UNCHANGED <<lock, elapsed>>
    /\ UNCHANGED <<configured, buildable, poll, passes, stale>>

Release == lock' = "free" /\ elapsed' = 0

\* async_run_solver returned, whatever the status of its result: the
\* background task publishes and stamps.
\* (Mutants: only a usable result stamps; nothing does.)
StampIfUsable(usable) == IF usable THEN Stamp ELSE NoStamp({})
NeverStamp(usable)    == NoStamp({})
StampAny(usable)      == Stamp

BackgroundReturns ==
    /\ lock = "background" /\ buildable
    /\ \E usable \in BOOLEAN :
         /\ StampAny(usable)
         /\ stale' = IF usable THEN 0 ELSE stale
    /\ Reschedule /\ Release
    /\ UNCHANGED <<configured, buildable, poll, passes>>

\* It raised, as it always does when a manifest cannot be built: logged, neither
\* published nor stamped.
BackgroundRaises ==
    /\ lock = "background"
    /\ NoStamp({"failed"}) /\ Release
    /\ UNCHANGED <<configured, buildable, due, poll, passes, stale>>

\* wait_for expired.
BackgroundTimeout ==
    /\ lock = "background" /\ elapsed = SolverTimeout
    /\ NoStamp({"timeout"}) /\ Release
    /\ UNCHANGED <<configured, buildable, due, poll, passes, stale>>

\* A service call takes the lock; its solve has no timeout.
ServiceStarts ==
    /\ lock = "free"
    /\ lock' \in {"service", "dry"}
    /\ UNCHANGED <<configured, buildable, age, due, poll, elapsed, passes, fired, causes, stale>>

\* hemm.replan publishes, dry or not; hemm.tick and hemm.simulate do not.
\* A usable applied result is stamped by _do_solve itself.  One that raised does
\* neither.
ServiceReturns ==
    /\ lock \in {"service", "dry"}
    /\ Release
    /\ \/ /\ lock = "service" /\ configured /\ buildable
          /\ Stamp /\ stale' = 0
          /\ Reschedule \/ UNCHANGED due
       \/ /\ UNCHANGED stale
          /\ \/ (configured => buildable) /\ Reschedule /\ NoStamp({"postponed"})
             \/ UNCHANGED due /\ NoStamp({})
    /\ UNCHANGED <<configured, buildable, poll, passes>>

\* hemm.actuate_now publishes too, and does not need the lock.
ActuateNow ==
    /\ configured /\ buildable
    /\ Reschedule /\ NoStamp({"postponed"})
    /\ UNCHANGED <<configured, buildable, poll, lock, elapsed, passes, stale>>

-----------------------------------------------------------------------------
\* async_check_watchdog up to its first await, at age n, with what happened to the
\* stamp just before: nothing, a stamp if there are no devices, or a pass of safe
\* defaults.  It raises before the first of them if a manifest cannot be built.
Check(n, new) ==
    \/ /\ n < WatchdogTimeout
       /\ age' = n /\ causes' = causes \cup new
       /\ UNCHANGED <<passes, fired>>
    \/ /\ n >= WatchdogTimeout /\ ~configured
       /\ Stamp
       /\ UNCHANGED passes
    \/ /\ n >= WatchdogTimeout /\ configured /\ buildable
       /\ age' = n /\ causes' = causes \cup new
       /\ fired' = TRUE
       /\ passes' = IF passes < MaxPasses THEN passes + 1 ELSE passes
    \/ /\ n >= WatchdogTimeout /\ configured /\ ~buildable
       /\ age' = n /\ causes' = causes \cup new
       /\ UNCHANGED <<passes, fired>>

\* How long until the next poll.  (Mutant: the refresh interval is used.)
PollWithRefresh == UpdateInterval + PollInterval
NextPoll        == PollInterval

Poll ==
    /\ poll = 0 /\ poll' = NextPoll
    /\ Check(age, {})
    /\ UNCHANGED <<configured, buildable, due, lock, elapsed, stale>>

\* hemm.force_watchdog: check now, at a backdated stamp or at the real one.
ForceWatchdog ==
    /\ Check(age, {}) \/ \E n \in Backdates : Check(n, {"backdated"})
    /\ UNCHANGED <<configured, buildable, due, poll, lock, elapsed, stale>>

\* The pass is through: stamp and publish.
PassDone ==
    /\ passes > 0 /\ passes' = passes - 1
    /\ Stamp /\ Reschedule
    /\ stale' = 0
    /\ UNCHANGED <<configured, buildable, poll, lock, elapsed>>

\* A safe default script raised: no stamp, the next poll fires again.
PassRaises ==
    /\ passes > 0 /\ passes' = passes - 1
    /\ UNCHANGED <<configured, buildable, age, due, poll, lock, elapsed, fired, causes, stale>>

\* A reload: a new instance with a stamp of now and its first refresh, which
\* is skipped while a task of the old instance holds the lock.
Reload ==
    /\ configured' \in BOOLEAN /\ buildable' \in BOOLEAN
    /\ age' = 0 /\ fired' = FALSE /\ stale' = 0 /\ passes' = 0 /\ elapsed' = 0
    /\ due' = UpdateInterval /\ poll' = PollInterval
    /\ IF lock = "free"
       THEN /\ lock' = IF configured' THEN "background" ELSE "free"
            /\ causes' = {}
       ELSE lock' = "old" /\ causes' = {"skipped"}

OldEnds ==
    /\ lock = "old" /\ Release
    /\ UNCHANGED <<configured, buildable, age, due, poll, passes, fired, causes, stale>>

-----------------------------------------------------------------------------
Next == \/ Tick \/ Refresh
        \/ BackgroundReturns \/ BackgroundRaises \/ BackgroundTimeout
        \/ ServiceStarts \/ ServiceReturns \/ ActuateNow
        \/ Poll \/ ForceWatchdog \/ PassDone \/ PassRaises
        \/ Reload \/ OldEnds

Spec == Init /\ [][Next]_vars

-----------------------------------------------------------------------------
(***************************************************************************)
(* Properties                                                              *)
(***************************************************************************)

\* Every timer keeps its range: nothing is ever overdue.
TimersOK ==
    /\ age \in 0..MaxAge /\ stale \in 0..MaxAge
    /\ due \in 0..UpdateInterval /\ poll \in 0..PollInterval
    /\ elapsed \in 0..SolverTimeout
    /\ passes \in 0..MaxPasses

\* Every variable has its type.
TypeOK ==
    /\ TimersOK
    /\ configured \in BOOLEAN /\ buildable \in BOOLEAN /\ fired \in BOOLEAN
    /\ lock \in Holders
    /\ causes \subseteq Causes

\* No false alarm: the stamp of an entry with devices reaches the watchdog's
\* timeout only if, since it was set, a background solve timed out or raised,
\* a refresh found the lock held or was put off by a call that published
\* without a stamp, or the stamp was backdated.
NoAlarmWithoutCause ==
    configured /\ age >= WatchdogTimeout => causes # {}

\* Detection: the watchdog has fired by one poll interval after its timeout,
\* whatever the tasks do, if nothing was stamped.  One device that cannot be built
\* takes this from all of them.
AlarmInTime ==
    configured /\ buildable /\ age >= WatchdogTimeout + PollInterval => fired

-----------------------------------------------------------------------------
(***************************************************************************)
(* What the docs say and the code does not do                              *)
(***************************************************************************)

\* docs/onboarding.md:48: if HEMM cannot produce a plan, it calls the safe
\* default script.  So nobody waits longer than the timeout and one poll for
\* a usable plan without an alarm, at least while the devices can be built.
OutageAlarm ==
    configured /\ buildable /\ stale >= WatchdogTimeout + PollInterval => fired
=============================================================================
