----------------------------- MODULE MCUnitStart -----------------------------
(* Three connections for two windows: two of them of the same device, as   *)
(* when a device dials again before its first connection is known lost.    *)
EXTENDS UnitStart

MCAssignments == {<<"d1", "d1", "d2">>}
=============================================================================
