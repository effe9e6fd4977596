--------------------------- MODULE MCVehicleList ---------------------------
(* Instances of VehicleList for TLC. *)
EXTENDS VehicleList
=============================================================================
