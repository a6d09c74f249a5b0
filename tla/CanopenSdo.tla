----------------------------- MODULE CanopenSdo -----------------------------
(***************************************************************************)
(* The SDO client and server of the CANopen driver                         *)
(* (src/src/driver/can/canopen.c): canopen_sdo_read and canopen_sdo_write  *)
(* called by several threads, the frame handler in the CAN dispatcher's    *)
(* thread, the 1 ms service runner that times requests out, and the node   *)
(* that answers.                                                           *)
(*                                                                         *)
(* A client holds sdo.mx for its whole call, but the handler and the       *)
(* runner, which complete the call, take no lock: the fields of sdo.req    *)
(* and the semaphore sdo.req.done are all that they share.  The handler is *)
(* two steps here, the test of req.running and what it does after it,      *)
(* because a client or the runner can run between them.  The runner's      *)
(* thread has the highest priority, so its test and its reaction are one.  *)
(***************************************************************************)
EXTENDS Integers, FiniteSets

CONSTANTS
  Clients,    \* threads that make SDO calls: the control loop and the console
  Nodes,      \* nodes that they address
  Ids,        \* dictionary entries that they address
  Regs,       \* the entries that exist on the nodes
  Values,     \* what an entry holds
  MaxFrames,  \* bound on the frames in flight
  NoClient, NoFrame, NoData

ASSUME SdoAssumption ==
  /\ Regs \subseteq Ids
  /\ MaxFrames \in Nat
  /\ NoClient \notin Clients
  /\ NoData \notin Values

Requests == [kind : {"read", "write"}, node : Nodes, id : Ids, value : Values]
Replies == [kind : {"data", "ack", "abort"}, node : Nodes, id : Ids, value : Values]

VARIABLES
  timely,   \* no frame, and no handler, outlives the call it belongs to
  pc,       \* where each client is in its call
  mx,       \* the holder of sdo.mx
  req,      \* sdo.req: cmd, node_id, id, the output buffer's owner, and what is written
  running,  \* sdo.req.running
  result,   \* sdo.req.result
  done,     \* the count of the semaphore sdo.req.done, at most 1
  buf,      \* each client's output buffer
  ret,      \* what each client's last call returned, or that it has not
  rx,       \* the reply that the handler has accepted and not yet acted upon
  net,      \* frames in flight
  store     \* the dictionaries of the nodes

request == <<req, running, result, done>>
bus == <<rx, net, store>>
world == <<timely, bus>>
vars == <<pc, mx, request, buf, ret, world>>

Init ==
  /\ timely \in BOOLEAN
  /\ pc = [c \in Clients |-> "idle"]
  /\ mx = NoClient
  /\ \E c \in Clients, n \in Nodes, i \in Ids, v \in Values :
       req = [cmd |-> "read", node |-> n, id |-> i, output |-> c, value |-> v]
  /\ running = FALSE /\ result = "ok" /\ done = 0
  /\ buf = [c \in Clients |-> NoData]
  /\ ret = [c \in Clients |-> "none"]
  /\ rx = NoFrame /\ net = {}
  /\ store \in [Nodes -> [Ids -> Values]]

-----------------------------------------------------------------------------
(* The client's call.                                                      *)

Goto(c, from, to) == pc[c] = from /\ pc' = [pc EXCEPT ![c] = to]

(* Mutant: a write starts out as a success, like a read.                   *)
StartWriteOk(c, cmd, n, i, v) ==
  /\ Goto(c, "idle", "send")
  /\ mx = NoClient /\ mx' = c
  /\ req' = [cmd |-> cmd, node |-> n, id |-> i, output |-> c, value |-> v]
  /\ running' = TRUE
  /\ result' = "ok"
  /\ buf' = [buf EXCEPT ![c] = NoData]
  /\ ret' = [ret EXCEPT ![c] = "none"]
  /\ UNCHANGED <<done, world>>

(* Mutant: the call does not wait for the mutex.                           *)
StartUnlocked(c, cmd, n, i, v) ==
  /\ Goto(c, "idle", "send")
  /\ mx' = c
  /\ req' = [cmd |-> cmd, node |-> n, id |-> i, output |-> c, value |-> v]
  /\ running' = TRUE
  /\ result' = IF cmd = "read" THEN "ok" ELSE "failed"
  /\ buf' = [buf EXCEPT ![c] = NoData]
  /\ ret' = [ret EXCEPT ![c] = "none"]
  /\ UNCHANGED <<done, world>>

(* The call takes the mutex and fills in the request.  A read starts out   *)
(* as a success, a write as a failure.                                     *)
Start(c, cmd, n, i, v) ==
  /\ Goto(c, "idle", "send")
  /\ mx = NoClient /\ mx' = c
  /\ req' = [cmd |-> cmd, node |-> n, id |-> i, output |-> c, value |-> v]
  /\ running' = TRUE
  /\ result' = IF cmd = "read" THEN "ok" ELSE "failed"
  /\ buf' = [buf EXCEPT ![c] = NoData]
  /\ ret' = [ret EXCEPT ![c] = "none"]
  /\ UNCHANGED <<done, world>>

Send(c) ==
  /\ Goto(c, "send", "wait")
  /\ net' = IF Cardinality(net) < MaxFrames
            THEN net \cup {[kind |-> req.cmd, node |-> req.node, id |-> req.id, value |-> req.value]}
            ELSE net
  /\ UNCHANGED <<mx, request, buf, ret, timely, rx, store>>

Take(c) ==
  /\ Goto(c, "wait", "taken")
  /\ done = 1 /\ done' = 0
  /\ UNCHANGED <<mx, req, running, result, buf, ret, world>>

(* The wait for the semaphore ends without it.                             *)
WaitExpires(c) ==
  /\ Goto(c, "wait", "expired")
  /\ done = 0
  /\ UNCHANGED <<mx, request, buf, ret, world>>

(* Every way out of the call clears req.running and releases the mutex.    *)
Leave(c, r) ==
  /\ running' = FALSE /\ mx' = NoClient
  /\ ret' = [ret EXCEPT ![c] = r]
  /\ timely => rx = NoFrame
  /\ net' = IF timely THEN {} ELSE net
  /\ UNCHANGED <<req, result, done, buf, timely, rx, store>>

(* can_send fails: -EIO.                                                   *)
SendFails(c) == Goto(c, "send", "idle") /\ Leave(c, "failed")

(* Mutant: a call that was aborted returns success.                        *)
FinishAborted(c) ==
  /\ Goto(c, "taken", "idle")
  /\ Leave(c, IF result \in {"ok", "aborted"} THEN "ok" ELSE "failed")

(* The call returns req.result.                                            *)
Finish(c) ==
  /\ Goto(c, "taken", "idle")
  /\ Leave(c, IF result = "ok" THEN "ok" ELSE "failed")

(* Mutant: an expired call does not withdraw its request.                  *)
GiveUpRunning(c) ==
  /\ Goto(c, "expired", "idle")
  /\ mx' = NoClient
  /\ timely => rx = NoFrame
  /\ net' = IF timely THEN {} ELSE net
  /\ ret' = [ret EXCEPT ![c] = "failed"]
  /\ UNCHANGED <<request, buf, timely, rx, store>>

(* Mutant: an expired call returns without releasing the mutex.            *)
GiveUpLocked(c) ==
  /\ Goto(c, "expired", "idle")
  /\ running' = FALSE
  /\ ret' = [ret EXCEPT ![c] = "failed"]
  /\ UNCHANGED <<mx, req, result, done, buf, world>>

(* The call returns -ETIMEDOUT.                                            *)
GiveUp(c) == Goto(c, "expired", "idle") /\ Leave(c, "failed")

-----------------------------------------------------------------------------
(* The service runner and the frame handler.                               *)

(* Mutant: the runner ends the request without giving the semaphore.       *)
RunnerTimeoutSilent ==
  /\ running
  /\ running' = FALSE /\ result' = "timedout"
  /\ UNCHANGED <<pc, mx, req, done, buf, ret, world>>

(* Mutant: the semaphore counts beyond one.                                *)
RunnerTimeoutCounting ==
  /\ running
  /\ running' = FALSE /\ result' = "timedout" /\ done' = done + 1
  /\ UNCHANGED <<pc, mx, req, buf, ret, world>>

RunnerTimeout ==
  /\ running
  /\ running' = FALSE /\ result' = "timedout" /\ done' = 1
  /\ UNCHANGED <<pc, mx, req, buf, ret, world>>

(* A reply comes in: without an outstanding request it is dropped.         *)
RxCheck(f) ==
  /\ f \in net \cap Replies /\ rx = NoFrame
  /\ net' = net \ {f}
  /\ rx' = IF running THEN f ELSE NoFrame
  /\ UNCHANGED <<pc, mx, request, buf, ret, timely, store>>

(* Completing the request: it is no longer running and its caller is woken. *)
Complete(r) == running' = FALSE /\ result' = r /\ done' = 1

(* Data is copied to the buffer that req points to at this moment if the   *)
(* request is a read of that entry, from whichever node it came; the       *)
(* result stays what it was.  Otherwise the frame is ignored.              *)
RxData ==
  /\ rx.kind = "data"
  /\ IF req.cmd = "read" /\ rx.id = req.id
     THEN buf' = [buf EXCEPT ![req.output] = rx.value] /\ Complete(result)
     ELSE UNCHANGED <<running, result, done, buf>>

(* An acknowledgement of another entry fails the request.                  *)
RxAck ==
  /\ rx.kind = "ack"
  /\ Complete(IF rx.id = req.id THEN "ok" ELSE "failed")
  /\ UNCHANGED buf

(* An abort fails whatever request is outstanding.                         *)
RxAbort ==
  /\ rx.kind = "abort"
  /\ Complete("aborted")
  /\ UNCHANGED buf

RxAct ==
  /\ rx # NoFrame /\ rx' = NoFrame
  /\ RxData \/ RxAck \/ RxAbort
  /\ UNCHANGED <<pc, mx, req, ret, timely, net, store>>

-----------------------------------------------------------------------------
(* The node that is addressed, and the bus.                                *)

Answer(f, kind, v) ==
  net' = (net \ {f}) \cup {[kind |-> kind, node |-> f.node, id |-> f.id, value |-> v]}

ServeRead(f) ==
  /\ f \in net /\ f.kind = "read"
  /\ IF f.id \in Regs THEN Answer(f, "data", store[f.node][f.id])
                      ELSE Answer(f, "abort", f.value)
  /\ UNCHANGED <<pc, mx, request, buf, ret, timely, rx, store>>

ServeWrite(f) ==
  /\ f \in net /\ f.kind = "write"
  /\ IF f.id \in Regs
     THEN store' = [store EXCEPT ![f.node][f.id] = f.value] /\ Answer(f, "ack", f.value)
     ELSE UNCHANGED store /\ Answer(f, "abort", f.value)
  /\ UNCHANGED <<pc, mx, request, buf, ret, timely, rx>>

Lose(f) ==
  /\ f \in net /\ net' = net \ {f}
  /\ UNCHANGED <<pc, mx, request, buf, ret, timely, rx, store>>

-----------------------------------------------------------------------------
Call(c) == Send(c) \/ SendFails(c) \/ Take(c) \/ WaitExpires(c) \/ Finish(c) \/ GiveUp(c)

Bus == \E f \in net : RxCheck(f) \/ ServeRead(f) \/ ServeWrite(f) \/ Lose(f)

Next ==
  \/ \E c \in Clients, n \in Nodes, i \in Ids :
       \/ \E v \in Values : Start(c, "write", n, i, v)
       \/ \E v \in Values : v = req.value /\ Start(c, "read", n, i, v)
  \/ \E c \in Clients : Call(c)
  \/ RunnerTimeout
  \/ RxAct
  \/ Bus

Spec == Init /\ [][Next]_vars

(* Threads that can run do run, and the semaphore wait has a time limit.   *)
(* Nothing is assumed of the bus, of the other nodes and of the runner.    *)
Fairness == (\A c \in Clients : WF_vars(Call(c))) /\ WF_vars(RxAct)

FairSpec == Spec /\ Fairness

-----------------------------------------------------------------------------
(* Properties.                                                             *)

TypeOK ==
  /\ timely \in BOOLEAN
  /\ pc \in [Clients -> {"idle", "send", "wait", "taken", "expired"}]
  /\ mx \in Clients \cup {NoClient}
  /\ req \in [cmd : {"read", "write"}, node : Nodes, id : Ids, output : Clients, value : Values]
  /\ running \in BOOLEAN
  /\ result \in {"ok", "failed", "timedout", "aborted"}
  /\ done \in {0, 1}
  /\ buf \in [Clients -> Values \cup {NoData}]
  /\ ret \in [Clients -> {"none", "ok", "failed"}]
  /\ rx \in Replies \cup {NoFrame}
  /\ net \subseteq Requests \cup Replies
  /\ store \in [Nodes -> [Ids -> Values]]

(* A request is outstanding only on behalf of the one call that holds      *)
(* sdo.mx: no way out of canopen_sdo_read or canopen_sdo_write, and no     *)
(* late reply, leaves req.running set for the next caller's frames.        *)
RunningOnlyInCall ==
  running => /\ mx \in Clients
             /\ pc[mx] # "idle"
             /\ req.output = mx

(* A caller on its way to the semaphore whose request is over finds it     *)
(* given: neither the handler nor the runner ends a request without waking *)
(* the caller, in whatever order they and late frames come.                *)
NoLostWakeup == \A c \in Clients : pc[c] \in {"send", "wait"} /\ ~running => done = 1

(* When canopen_sdo_write returns success, the node holds the value, as    *)
(* long as nothing outlives the call it belongs to.                        *)
WriteSuccessIsReal ==
  [][timely => \A c \in Clients :
       pc[c] = "taken" /\ pc'[c] = "idle" /\ req.cmd = "write" /\ result = "ok"
         => store[req.node][req.id] = req.value]_vars

(* What a successful canopen_sdo_read has put into the caller's buffer is  *)
(* what the entry of that node holds, as long as nothing outlives its call. *)
ReadDataIsCurrent ==
  [][timely => \A c \in Clients :
       pc[c] = "taken" /\ pc'[c] = "idle" /\ req.cmd = "read" /\ result = "ok" /\ buf[c] # NoData
         => buf[c] = store[req.node][req.id]]_vars

(* The mutex is released by every call, whatever becomes of its frames.    *)
EveryCallReturns == \A c \in Clients : mx = c ~> mx = NoClient

(* A call as its caller sees it: in progress from the mutex to the return, *)
(* with the buffer its own until then.                                     *)
Exchange == INSTANCE SdoExchange WITH
  caller <- mx,
  op <- [cmd |-> req.cmd, node |-> req.node, id |-> req.id, value |-> req.value],
  data <- [c \in Clients |-> IF mx = c THEN NoData ELSE buf[c]]

(* Callers, runner, handler and node together do nothing but exchanges:    *)
(* calls of canopen_sdo_read and canopen_sdo_write exclude each other, each *)
(* returns, and on a timely bus writes nothing that it was not asked to and *)
(* reports nothing that is not so.                                         *)
ImplementsExchange == Exchange!FairSpec

(* What the comment in canopen_sdo_read says of its wait, "until the       *)
(* request either completes or fails": a read that returns success has     *)
(* been answered.                                                          *)
ReadSuccessHasData ==
  [][\A c \in Clients :
       pc[c] = "taken" /\ pc'[c] = "idle" /\ req.cmd = "read" /\ result = "ok"
         => buf[c] # NoData]_vars
=============================================================================
