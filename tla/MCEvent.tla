------------------------------ MODULE MCEvent ------------------------------
(* Instances of Event: a sensor with faults only, one with alarms as well. *)
EXTENDS Event
MCSensors == {0, 2}
=============================================================================
