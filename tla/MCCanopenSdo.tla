---------------------------- MODULE MCCanopenSdo ----------------------------
(***************************************************************************)
(* Instances of CanopenSdo for TLC: two callers, the control loop and the  *)
(* console.  A bus that keeps to its calls carries every value.  On one    *)
(* that does not, nothing is promised of values, and one stands for all.   *)
(***************************************************************************)
EXTENDS CanopenSdo

CONSTANT LateValue

ASSUME LateValue \in Values

Carried == ~timely => req.value = LateValue /\ \A n \in Nodes, i \in Ids : store[n][i] = LateValue

MCInit == Init /\ Carried
MCNext == Next /\ Carried'
MCSpec == MCInit /\ [][MCNext]_vars /\ Fairness
=============================================================================
