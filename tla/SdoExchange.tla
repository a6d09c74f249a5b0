---------------------------- MODULE SdoExchange ----------------------------
(***************************************************************************)
(* What the callers of canopen_sdo_read and canopen_sdo_write may count    *)
(* on: one call at a time, a write that is performed at most by the call   *)
(* that asks for it, and an outcome that says what became of it.           *)
(*                                                                         *)
(* The promises are made for a timely bus, on which nothing outlives the   *)
(* call that it belongs to.  On another one, calls still exclude each      *)
(* other and still return.                                                 *)
(***************************************************************************)
CONSTANTS Clients, Nodes, Ids, Regs, Values, NoClient, NoData

VARIABLES
  timely,  \* the bus keeps to its calls
  caller,  \* the client whose call is in progress
  op,      \* what the last call asks for
  ret,     \* what each client's last call returned
  data,    \* what each client's last read returned
  store    \* the dictionaries of the nodes

vars == <<timely, caller, op, ret, data, store>>

Ops == [cmd : {"read", "write"}, node : Nodes, id : Ids, value : Values]

Init ==
  /\ timely \in BOOLEAN
  /\ caller = NoClient
  /\ op \in Ops
  /\ ret = [c \in Clients |-> "none"]
  /\ data = [c \in Clients |-> NoData]
  /\ store \in [Nodes -> [Ids -> Values]]

Begin(c, o) ==
  /\ caller = NoClient /\ caller' = c
  /\ op' = o
  /\ ret' = [ret EXCEPT ![c] = "none"]
  /\ data' = [data EXCEPT ![c] = NoData]
  /\ UNCHANGED <<timely, store>>

(* An entry takes the value that a write in progress has for it.           *)
Perform(n, i, v) ==
  /\ i \in Regs
  /\ timely => caller \in Clients /\ op = [cmd |-> "write", node |-> n, id |-> i, value |-> v]
  /\ store' = [store EXCEPT ![n][i] = v]
  /\ UNCHANGED <<timely, caller, op, ret, data>>

Addressed == store[op.node][op.id]

(* The call returns r, with d in the caller's buffer.  A write has been    *)
(* performed if it returns success; what a read returns is in the entry.   *)
(* That a successful read returns anything at all is not promised: the     *)
(* token that a call leaves behind ends the next one.                      *)
Return(c, r, d) ==
  /\ caller = c /\ caller' = NoClient
  /\ timely =>
       /\ op.cmd = "write" => d = NoData /\ (r = "ok" => op.id \in Regs /\ Addressed = op.value)
       /\ d # NoData => d = Addressed
  /\ ret' = [ret EXCEPT ![c] = r]
  /\ data' = [data EXCEPT ![c] = d]
  /\ UNCHANGED <<timely, op, store>>

(* Where a frame is late, its data goes to whichever buffer was asked for  *)
(* last, and that call may be over.                                        *)
Overwrite(c, d) ==
  /\ ~timely /\ caller # c
  /\ data' = [data EXCEPT ![c] = d]
  /\ UNCHANGED <<timely, caller, op, ret, store>>

Returns ==
  \E c \in Clients, r \in {"ok", "failed"}, d \in Values \cup {NoData} : Return(c, r, d)

Next ==
  \/ \E c \in Clients, o \in Ops : Begin(c, o)
  \/ \E n \in Nodes, i \in Ids, v \in Values : Perform(n, i, v)
  \/ Returns
  \/ \E c \in Clients, d \in Values : Overwrite(c, d)

Spec == Init /\ [][Next]_vars

(* Every call returns.                                                     *)
FairSpec == Spec /\ WF_vars(Returns)
=============================================================================
