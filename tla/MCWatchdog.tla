---------------------------- MODULE MCWatchdog ----------------------------
(* Instances of Watchdog for TLC: the default times scaled down, keeping   *)
(* WatchdogTimeout = 2 * UpdateInterval, SolverTimeout one unit below the   *)
(* refresh interval and several polls per timeout.                          *)
EXTENDS Watchdog

MCBackdates == {WatchdogTimeout - 1, WatchdogTimeout}
=============================================================================
