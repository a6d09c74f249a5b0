----------------------------- MODULE CanChannel -----------------------------
(***************************************************************************)
(* What a CAN port makes of the frames that it accepts: each goes out on   *)
(* the wire once, in an order of the port's choosing.                      *)
(***************************************************************************)
EXTENDS Naturals

CONSTANTS Frames, Capacity

VARIABLES
  inflight,  \* how many of each frame are accepted and not yet transmitted
  wire       \* the last frame that was transmitted, and a bit that tells it from the one before

vars == <<inflight, wire>>

Init ==
  /\ inflight = [f \in Frames |-> 0]
  /\ wire \in Frames \X {0, 1}

(* No kind of frame takes more room than there is.                         *)
Accept(f) ==
  /\ inflight' = [inflight EXCEPT ![f] = @ + 1] /\ inflight'[f] <= Capacity
  /\ UNCHANGED wire

Transmit(f) ==
  /\ inflight[f] > 0
  /\ inflight' = [inflight EXCEPT ![f] = @ - 1]
  /\ wire' = <<f, 1 - wire[2]>>

Next == \E f \in Frames : Accept(f) \/ Transmit(f)

Spec == Init /\ [][Next]_vars
=============================================================================
