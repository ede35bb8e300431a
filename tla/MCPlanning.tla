---------------------------- MODULE MCPlanning ----------------------------
(* Instances of Planning for TLC: every type in every tier alone, and      *)
(* two batteries together.                                                 *)
EXTENDS Planning

AllTypes   == DeviceTypes
Storages   == {"battery"}
OneClass   == {"reactive"}
MCModes    == {"", "active", "off"}
MCStatuses == {"OPTIMAL", "ERROR"}

=============================================================================
