-------------------------- MODULE Watchdog_proofs --------------------------
(***************************************************************************)
(* The properties of Watchdog for all interval lengths.                    *)
(***************************************************************************)
EXTENDS Watchdog, TLAPS

USE DEF Holders, Causes, MaxAge, Stamp, NoStamp, Reschedule, Release

-----------------------------------------------------------------------------
\* The timers keep their range: time does not pass a refresh, a poll or the
\* timeout of a background solve.
LEMMA TimersStep == ASSUME TypeOK, [Next]_vars PROVE TimersOK'
<1> USE TimesAssumption DEF TypeOK, TimersOK
<1>1. CASE Tick
  BY <1>1 DEF Tick, Later
<1>2. CASE Refresh
  BY <1>2 DEF Refresh
<1>3. CASE BackgroundReturns
  BY <1>3 DEF BackgroundReturns, StampAny
<1>4. CASE BackgroundRaises
  BY <1>4 DEF BackgroundRaises
<1>5. CASE BackgroundTimeout
  BY <1>5 DEF BackgroundTimeout
<1>6. CASE ServiceStarts
  BY <1>6 DEF ServiceStarts
<1>7. CASE ServiceReturns
  BY <1>7 DEF ServiceReturns
<1>8. CASE ActuateNow
  BY <1>8 DEF ActuateNow
<1>9. CASE Poll
  BY <1>9 DEF Poll, Check, NextPoll
<1>10. CASE ForceWatchdog
  BY <1>10 DEF ForceWatchdog, Check
<1>11. CASE PassDone
  BY <1>11 DEF PassDone
<1>12. CASE PassRaises
  BY <1>12 DEF PassRaises
<1>13. CASE Reload
  BY <1>13 DEF Reload
<1>14. CASE OldEnds
  BY <1>14 DEF OldEnds
<1>15. CASE UNCHANGED vars
  BY <1>15 DEF vars
<1> QED
  BY <1>1, <1>2, <1>3, <1>4, <1>5, <1>6, <1>7, <1>8, <1>9, <1>10, <1>11, <1>12,
     <1>13, <1>14, <1>15 DEF Next

\* Every variable of Watchdog has its type, for all interval lengths.
THEOREM TypeCorrect == Spec => []TypeOK
<1>1. Init => TypeOK
  <2> SUFFICES ASSUME Init PROVE TypeOK
    OBVIOUS
  <2>1. TimersOK
    BY TimesAssumption DEF Init, TimersOK
  <2>2. configured \in BOOLEAN /\ buildable \in BOOLEAN /\ fired \in BOOLEAN
    BY DEF Init
  <2>3. lock \in Holders /\ causes \subseteq Causes
    BY DEF Init
  <2> QED
    BY <2>1, <2>2, <2>3 DEF TypeOK
<1>2. ASSUME TypeOK, [Next]_vars PROVE TypeOK'
  <2>1. TimersOK'
    BY <1>2, TimersStep
  <2>2. configured' \in BOOLEAN /\ buildable' \in BOOLEAN /\ fired' \in BOOLEAN
    BY <1>2 DEF TypeOK, Next, vars, Tick, Refresh, BackgroundReturns, StampAny,
       BackgroundRaises, BackgroundTimeout, ServiceStarts, ServiceReturns, ActuateNow,
       Poll, Check, ForceWatchdog, PassDone, PassRaises, Reload, OldEnds
  <2>3. lock' \in Holders
    BY <1>2 DEF TypeOK, Next, vars, Tick, Refresh, BackgroundReturns, StampAny,
       BackgroundRaises, BackgroundTimeout, ServiceStarts, ServiceReturns, ActuateNow,
       Poll, Check, ForceWatchdog, PassDone, PassRaises, Reload, OldEnds
  <2>4. causes' \subseteq Causes
    BY <1>2 DEF TypeOK, Next, vars, Tick, Refresh, BackgroundReturns, StampAny,
       BackgroundRaises, BackgroundTimeout, ServiceStarts, ServiceReturns, ActuateNow,
       Poll, Check, ForceWatchdog, PassDone, PassRaises, Reload, OldEnds
  <2> QED
    BY <2>1, <2>2, <2>3, <2>4 DEF TypeOK
<1> QED
  BY <1>1, <1>2, PTL DEF Spec

-----------------------------------------------------------------------------
\* While nothing has gone wrong since the last stamp, the age is bounded by the
\* refresh schedule, and during a background solve by the solve's own age.
OnSchedule ==
    configured /\ causes = {} =>
        IF lock = "background" THEN age <= UpdateInterval + elapsed
                               ELSE age + due <= UpdateInterval

\* The watchdog raises no alarm over a coordinator on schedule, for every
\* timeout above the refresh interval plus the solver's timeout.
THEOREM NoFalseAlarm == Spec => []NoAlarmWithoutCause
<1>1. Init => OnSchedule
  BY TimesAssumption DEF Init, OnSchedule
<1>2. ASSUME TypeOK, TypeOK', OnSchedule, [Next]_vars PROVE OnSchedule'
  <2> USE <1>2, TimesAssumption DEF TypeOK, TimersOK, OnSchedule
  <2>1. CASE Tick
    BY <2>1 DEF Tick, Later
  <2>2. CASE Refresh
    <3>1. CASE configured /\ lock = "free"
      BY <2>2, <3>1 DEF Refresh
    <3>2. CASE configured /\ lock # "free"
      <4>1. causes' = causes \cup {"skipped"}
        BY <2>2, <3>2 DEF Refresh
      <4> QED
        BY <4>1
    <3>3. CASE ~configured
      BY <2>2, <3>3 DEF Refresh
    <3> QED
      BY <3>1, <3>2, <3>3
  <2>3. CASE BackgroundReturns
    BY <2>3 DEF BackgroundReturns, StampAny
  <2>4. CASE BackgroundRaises
    BY <2>4 DEF BackgroundRaises
  <2>5. CASE BackgroundTimeout
    BY <2>5 DEF BackgroundTimeout
  <2>6. CASE ServiceStarts
    BY <2>6 DEF ServiceStarts
  <2>7. CASE ServiceReturns
    <3>1. /\ lock \in {"service", "dry"} /\ lock' = "free"
          /\ configured' = configured
      BY <2>7 DEF ServiceReturns
    <3>2. CASE Stamp /\ (Reschedule \/ UNCHANGED due)
      <4>1. CASE due' = due
        BY <3>1, <3>2, <4>1
      <4>2. CASE due' = UpdateInterval
        BY <3>1, <3>2, <4>2
      <4> QED
        BY <3>2, <4>1, <4>2
    <3>3. CASE NoStamp({"postponed"})
      BY <3>1, <3>3
    <3>4. CASE UNCHANGED due /\ NoStamp({})
      BY <3>1, <3>4
    <3> QED
      BY <2>7, <3>2, <3>3, <3>4 DEF ServiceReturns
  <2>8. CASE ActuateNow
    BY <2>8 DEF ActuateNow
  <2>9. CASE Poll
    BY <2>9 DEF Poll, Check
  <2>10. CASE ForceWatchdog
    BY <2>10 DEF ForceWatchdog, Check
  <2>11. CASE PassDone
    BY <2>11 DEF PassDone
  <2>12. CASE PassRaises
    BY <2>12 DEF PassRaises
  <2>13. CASE Reload
    BY <2>13 DEF Reload
  <2>14. CASE OldEnds
    BY <2>14 DEF OldEnds
  <2>15. CASE UNCHANGED vars
    BY <2>15 DEF vars
  <2> QED
    BY <2>1, <2>2, <2>3, <2>4, <2>5, <2>6, <2>7, <2>8, <2>9, <2>10, <2>11, <2>12,
       <2>13, <2>14, <2>15 DEF Next
<1>3. TypeOK /\ OnSchedule => NoAlarmWithoutCause
  BY TimesAssumption, TimeoutAssumption DEF TypeOK, TimersOK, OnSchedule, NoAlarmWithoutCause
<1> QED
  BY <1>1, <1>2, <1>3, TypeCorrect, PTL DEF Spec

-----------------------------------------------------------------------------
\* Until the watchdog fires, the last poll saw an age below the timeout.
SeenInTime ==
    configured /\ buildable /\ ~fired => age + poll < WatchdogTimeout + PollInterval

\* The watchdog detects every silence within one poll interval of its timeout.
THEOREM DetectionBound == Spec => []AlarmInTime
<1>1. Init => SeenInTime
  BY TimesAssumption DEF Init, SeenInTime
<1>2. ASSUME TypeOK, TypeOK', SeenInTime, [Next]_vars PROVE SeenInTime'
  <2> USE <1>2, TimesAssumption DEF TypeOK, TimersOK, SeenInTime
  <2>1. CASE Tick
    BY <2>1 DEF Tick, Later
  <2>2. CASE Refresh
    BY <2>2 DEF Refresh
  <2>3. CASE BackgroundReturns
    BY <2>3 DEF BackgroundReturns, StampAny
  <2>4. CASE BackgroundRaises
    BY <2>4 DEF BackgroundRaises
  <2>5. CASE BackgroundTimeout
    BY <2>5 DEF BackgroundTimeout
  <2>6. CASE ServiceStarts
    BY <2>6 DEF ServiceStarts
  <2>7. CASE ServiceReturns
    <3> SUFFICES ASSUME configured', buildable', ~fired'
                 PROVE age' + poll' < WatchdogTimeout + PollInterval
      OBVIOUS
    <3>1. configured /\ buildable /\ poll' = poll
      BY <2>7 DEF ServiceReturns
    <3>2. age' = 0 \/ (age' = age /\ ~fired)
      BY <2>7 DEF ServiceReturns
    <3>3. CASE age' = 0
      BY <3>1, <3>3
    <3>4. CASE age' = age /\ ~fired
      BY <3>1, <3>4
    <3> QED
      BY <3>2, <3>3, <3>4
  <2>8. CASE ActuateNow
    BY <2>8 DEF ActuateNow
  <2>9. CASE Poll
    <3> SUFFICES ASSUME configured', buildable', ~fired'
                 PROVE age' + poll' < WatchdogTimeout + PollInterval
      OBVIOUS
    <3>1. poll' = PollInterval
      BY <2>9 DEF Poll, NextPoll
    <3>2. age' < WatchdogTimeout
      BY <2>9 DEF Poll, Check
    <3>3. age' \in Nat
      OBVIOUS
    <3>4. PICK a \in Nat : age' = a /\ a < WatchdogTimeout
      BY <3>2, <3>3, Zenon
    <3>5. a + PollInterval < WatchdogTimeout + PollInterval
      BY <3>4
    <3> QED
      BY <3>1, <3>4, <3>5
  <2>10. CASE ForceWatchdog
    <3> SUFFICES ASSUME configured', buildable', ~fired'
                 PROVE age' + poll' < WatchdogTimeout + PollInterval
      OBVIOUS
    <3>1. configured /\ buildable /\ poll' = poll
      BY <2>10 DEF ForceWatchdog
    <3>2. age' < WatchdogTimeout
      BY <2>10, <3>1 DEF ForceWatchdog, Check
    <3>3. age' \in Nat
      OBVIOUS
    <3>4. PICK a \in Nat : age' = a /\ a < WatchdogTimeout
      BY <3>2, <3>3, Zenon
    <3>5. a + poll < WatchdogTimeout + PollInterval
      BY <3>4
    <3> QED
      BY <3>1, <3>4, <3>5
  <2>11. CASE PassDone
    BY <2>11 DEF PassDone
  <2>12. CASE PassRaises
    BY <2>12 DEF PassRaises
  <2>13. CASE Reload
    BY <2>13 DEF Reload
  <2>14. CASE OldEnds
    BY <2>14 DEF OldEnds
  <2>15. CASE UNCHANGED vars
    BY <2>15 DEF vars
  <2> QED
    BY <2>1, <2>2, <2>3, <2>4, <2>5, <2>6, <2>7, <2>8, <2>9, <2>10, <2>11, <2>12,
       <2>13, <2>14, <2>15 DEF Next
<1>3. TypeOK /\ SeenInTime => AlarmInTime
  BY TimesAssumption DEF TypeOK, TimersOK, SeenInTime, AlarmInTime
<1> QED
  BY <1>1, <1>2, <1>3, TypeCorrect, PTL DEF Spec
=============================================================================
