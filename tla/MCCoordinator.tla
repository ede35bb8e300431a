-------------------------- MODULE MCCoordinator --------------------------
(* Instances of Coordinator for TLC: an entry that has two devices or none *)
(* and a filter that selects one of the two.                               *)
EXTENDS Coordinator, TLC

CONSTANTS t1, t2, t3, d1, d2

TwoTasks      == {t1, t2}
ThreeTasks    == {t1, t2, t3}
MCDevices     == {d1, d2}
MCDeviceLists == {{}, {d1, d2}}
MCFilters     == {{d1}}

\* For the liveness run: one list, and a filter of its own is not needed.
OneDeviceList == {{d1, d2}}
NoFilters     == {}

\* The tasks are interchangeable.
MCSymmetry == Permutations(ThreeTasks)
=============================================================================
