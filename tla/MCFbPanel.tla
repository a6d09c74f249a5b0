----------------------------- MODULE MCFbPanel ------------------------------
(***************************************************************************)
(* Instances of FbPanel for TLC: home and one more preset; yaw in          *)
(* eighths of a circle, of which the crane visits a few; the console       *)
(* enters one place of them, and one that is half a circle off and a turn  *)
(* around.                                                                 *)
(***************************************************************************)
EXTENDS FbPanel

At(pitch, yaw) == [pitch |-> pitch, yaw |-> yaw]
EnteredPlaces == {At(1, 3), At(0, 12)}
ThreePlaces == {At(0, 0), At(1, 3), At(1, 6)}
=============================================================================
