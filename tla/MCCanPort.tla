----------------------------- MODULE MCCanPort ------------------------------
(***************************************************************************)
(* Instances of CanPort for TLC: the service runner beside the dispatcher. *)
(***************************************************************************)
EXTENDS CanPort

TwoMailboxes == 0 .. 1
=============================================================================
