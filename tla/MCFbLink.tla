------------------------------ MODULE MCFbLink ------------------------------
(***************************************************************************)
(* Instances of FbLink for TLC.                                            *)
(***************************************************************************)
EXTENDS FbLink

FbObjects == {"PITCH_DEMAND", "YAW_DEMAND", "PITCH", "YAW", "I_PITCH", "I_YAW", "VMOT"}
=============================================================================
