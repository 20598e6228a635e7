----------------------------- MODULE MCCadence -----------------------------
(* Cadence for TLC: one display asks for less than the floor, one for more.*)
EXTENDS Cadence, TLC

CONSTANTS hall, door

MCWanted == hall :> 1 @@ door :> 3
=============================================================================
