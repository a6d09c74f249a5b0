---------------------------- MODULE MCFbControl -----------------------------
(***************************************************************************)
(* Instances of FbControl for TLC: moves of up to four ticks, time counted   *)
(* so that every slowed down timebase is a whole number.                   *)
(***************************************************************************)
EXTENDS FbControl

SettleTimes == [pitch |-> 2, yaw |-> 1]
=============================================================================
