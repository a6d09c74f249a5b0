----------------------------- MODULE MCLibrary ------------------------------
(***************************************************************************)
(* Instances for TLC of the parts that stand for themselves: the clock,    *)
(* the yaw encoder and the ring buffer.  Each behaviour is one of these.   *)
(***************************************************************************)
EXTENDS Timestamp, YawTicks, Cbuf

VARIABLE part

Init ==
  /\ ClockInit /\ YawInit /\ CbufInit
  /\ part \in {"clock", "yaw", "cbuf"}
  /\ part # "cbuf" => \E item \in Items : data = [i \in Index |-> item]

Clock == part = "clock" /\ ClockNext /\ UNCHANGED <<yawVars, cbufVars, part>>
Yaw == part = "yaw" /\ YawNext /\ UNCHANGED <<clockVars, cbufVars, part>>
Ring == part = "cbuf" /\ CbufNext /\ UNCHANGED <<clockVars, yawVars, part>>

Next == Clock \/ Yaw \/ Ring

Spec == Init /\ [][Next]_<<clockVars, yawVars, cbufVars, part>>
=============================================================================
