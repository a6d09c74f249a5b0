------------------------------- MODULE MCFb --------------------------------
(***************************************************************************)
(* Instances of Fb for TLC.  One unit of output is an eighth of full       *)
(* scale, so that the remote ramp takes two ticks to reach it.  The pitch  *)
(* travels from 0 to 20: the slow zones are 0..3 and 14..20.               *)
(***************************************************************************)
EXTENDS Fb

MCFull == 8
SlaveDemands == {-8, 11}
SlavePositions == {-1, 17, 21}
AutoDemands == {-9, 5}
PanelJoys == {-8, 0, 5}

(* For both roles in one run: each hears only what its peer sends, and     *)
(* only a drive has somebody at its console.  The switch, once set, stays.  *)
Drive == mode = "SLAVE"

RolesNext ==
  \/ CanClock \/ ReinitDone \/ UpdateControl \/ Tick
  \/ UpdateState /\ (can_addr # 0 => UNCHANGED can_addr)
  \/ \E a \in Axes, v \in Demands : Drive /\ WriteDemand(a, v)
  \/ \E i \in Items : WriteItem(i)
  \/ \E cmd \in Commands : Drive /\ Console(cmd)

RolesSpec == Init /\ [][RolesNext]_vars /\ WF_vars(Loop) /\ WF_vars(ReinitDone)
=============================================================================
