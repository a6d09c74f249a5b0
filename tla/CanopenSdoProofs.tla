-------------------------- MODULE CanopenSdoProofs --------------------------
(***************************************************************************)
(* Proofs about the SDO protocol of CanopenSdo, for any number of callers, *)
(* nodes, entries and frames.                                              *)
(***************************************************************************)
EXTENDS CanopenSdo, TLAPS

(* The mutex is held by the one caller that is inside a call, the request  *)
(* it filled in stays its own until it leaves, and a write returns no data. *)
OneCaller ==
  /\ \A c \in Clients : pc[c] # "idle" <=> mx = c
  /\ mx \in Clients => req.output = mx /\ (req.cmd = "write" => buf[mx] = NoData)

Addressed == store[req.node][req.id]

(* A frame belongs to the outstanding call, and an answer tells the truth. *)
OfThisCall(f) ==
  /\ f.node = req.node /\ f.id = req.id
  /\ f.kind \in {"read", "data"} => req.cmd = "read"
  /\ f.kind \in {"write", "ack"} => req.cmd = "write"
  /\ f.kind = "write" => f.value = req.value
  /\ f.kind = "ack" => req.id \in Regs /\ Addressed = req.value
  /\ f.kind = "data" => f.value = Addressed

(* What holds of the bus and of the outcome as long as nothing outlives    *)
(* its call.                                                               *)
TimelyInv ==
  /\ mx = NoClient => net = {} /\ rx = NoFrame
  /\ \A f \in net : OfThisCall(f)
  /\ rx # NoFrame => OfThisCall(rx)
  /\ mx \in Clients /\ req.cmd = "write" /\ result = "ok"
       => req.id \in Regs /\ Addressed = req.value
  /\ mx \in Clients /\ req.cmd = "read" /\ buf[mx] # NoData => buf[mx] = Addressed

SafeInv == TypeOK /\ OneCaller /\ RunningOnlyInCall /\ NoLostWakeup

-----------------------------------------------------------------------------
(* The part that holds whatever the timing.                                *)

LEMMA InitSafe == Init => SafeInv
<1> SUFFICES ASSUME Init
             PROVE  SafeInv
  OBVIOUS
<1>1. req \in [cmd : {"read", "write"}, node : Nodes, id : Ids, output : Clients, value : Values]
  BY DEF Init
<1>2. TypeOK
  BY <1>1 DEF Init, TypeOK
<1>3. OneCaller /\ RunningOnlyInCall /\ NoLostWakeup
  BY SdoAssumption DEF Init, OneCaller, RunningOnlyInCall, NoLostWakeup
<1> QED
  BY <1>2, <1>3 DEF SafeInv

LEMMA FramesTyped ==
  ASSUME TypeOK, NEW f \in net
  PROVE  /\ f \in [kind : {"read", "write", "data", "ack", "abort"}, node : Nodes, id : Ids, value : Values]
         /\ f \in Requests \/ f \in Replies
  BY DEF TypeOK, Requests, Replies

LEMMA StepSafe == SafeInv /\ [Next]_vars => SafeInv'
<1> SUFFICES ASSUME SafeInv, [Next]_vars
             PROVE  SafeInv'
  OBVIOUS
<1> USE SdoAssumption DEF SafeInv
<1>1. ASSUME NEW c \in Clients, NEW cmd \in {"read", "write"}, NEW n \in Nodes, NEW i \in Ids,
             NEW v \in Values, Start(c, cmd, n, i, v)
      PROVE  SafeInv'
  BY <1>1 DEF Start, Goto, bus, world, TypeOK, OneCaller, RunningOnlyInCall, NoLostWakeup
<1>2. ASSUME NEW c \in Clients, Send(c)
      PROVE  SafeInv'
  <2>1. [kind |-> req.cmd, node |-> req.node, id |-> req.id, value |-> req.value] \in Requests
    BY DEF TypeOK, Requests
  <2> QED
    BY <1>2, <2>1 DEF Send, Goto, request, TypeOK, OneCaller, RunningOnlyInCall, NoLostWakeup
<1>3. ASSUME NEW c \in Clients, Take(c)
      PROVE  SafeInv'
  BY <1>3 DEF Take, Goto, bus, world, TypeOK, OneCaller, RunningOnlyInCall, NoLostWakeup
<1>4. ASSUME NEW c \in Clients, WaitExpires(c)
      PROVE  SafeInv'
  BY <1>4 DEF WaitExpires, Goto, request, bus, world, TypeOK, OneCaller, RunningOnlyInCall, NoLostWakeup
<1>5. ASSUME NEW c \in Clients, NEW from \in {"send", "taken", "expired"},
             NEW r \in {"ok", "failed"}, Goto(c, from, "idle"), Leave(c, r)
      PROVE  SafeInv'
  BY <1>5 DEF Leave, Goto, TypeOK, OneCaller, RunningOnlyInCall, NoLostWakeup
<1>6. CASE RunnerTimeout
  BY <1>6 DEF RunnerTimeout, bus, world, TypeOK, OneCaller, RunningOnlyInCall, NoLostWakeup
<1>7. CASE RxAct
  BY <1>7 DEF RxAct, RxData, RxAck, RxAbort, Complete, Replies,
              TypeOK, OneCaller, RunningOnlyInCall, NoLostWakeup
<1>8. ASSUME NEW f \in net, RxCheck(f)
      PROVE  SafeInv'
  BY <1>8 DEF RxCheck, request, TypeOK, OneCaller, RunningOnlyInCall, NoLostWakeup
<1>9. ASSUME NEW f \in net, NEW kind \in {"data", "ack", "abort"}, NEW v \in Values, Answer(f, kind, v),
             store' \in [Nodes -> [Ids -> Values]], UNCHANGED <<timely, pc, mx, request, buf, ret, rx>>
      PROVE  SafeInv'
  <2>1. [kind |-> kind, node |-> f.node, id |-> f.id, value |-> v] \in Replies
    BY FramesTyped DEF Replies
  <2> QED
    BY <1>9, <2>1 DEF Answer, request, TypeOK, OneCaller, RunningOnlyInCall, NoLostWakeup
<1>10. ASSUME NEW f \in net, ServeRead(f)
       PROVE  SafeInv'
  <2>1. store[f.node][f.id] \in Values /\ f.value \in Values
    BY FramesTyped DEF TypeOK
  <2>2. UNCHANGED <<timely, pc, mx, request, buf, ret, rx>> /\ store' = store
    BY <1>10 DEF ServeRead
  <2>3. Answer(f, "data", store[f.node][f.id]) \/ Answer(f, "abort", f.value)
    BY <1>10 DEF ServeRead
  <2>4. store' \in [Nodes -> [Ids -> Values]]
    BY <2>2 DEF TypeOK
  <2>5. CASE Answer(f, "data", store[f.node][f.id])
    BY <2>1, <2>2, <2>4, <2>5, <1>9
  <2>6. CASE Answer(f, "abort", f.value)
    BY <2>1, <2>2, <2>4, <2>6, <1>9
  <2> QED
    BY <2>3, <2>5, <2>6
<1>11. ASSUME NEW f \in net, ServeWrite(f)
       PROVE  SafeInv'
  <2>1. f.node \in Nodes /\ f.id \in Ids /\ f.value \in Values
    BY FramesTyped
  <2>2. store' \in [Nodes -> [Ids -> Values]]
    <3>1. store' = store \/ store' = [store EXCEPT ![f.node][f.id] = f.value]
      BY <1>11 DEF ServeWrite
    <3>2. store \in [Nodes -> [Ids -> Values]]
      BY DEF TypeOK
    <3> QED
      BY <2>1, <3>1, <3>2
  <2>3. UNCHANGED <<timely, pc, mx, request, buf, ret, rx>>
    BY <1>11 DEF ServeWrite
  <2>4. Answer(f, "ack", f.value) \/ Answer(f, "abort", f.value)
    BY <1>11 DEF ServeWrite
  <2> QED
    BY <2>1, <2>2, <2>3, <2>4, <1>9
<1>12. ASSUME NEW f \in net, Lose(f)
       PROVE  SafeInv'
  BY <1>12 DEF Lose, request, TypeOK, OneCaller, RunningOnlyInCall, NoLostWakeup
<1>13. CASE UNCHANGED vars
  BY <1>13 DEF vars, request, bus, world, TypeOK, OneCaller, RunningOnlyInCall, NoLostWakeup
<1>14. req.value \in Values
  BY DEF TypeOK
<1> QED
  BY <1>1, <1>2, <1>3, <1>4, <1>5, <1>6, <1>7, <1>8, <1>10, <1>11, <1>12, <1>13, <1>14
     DEF Next, Call, Bus, SendFails, Finish, GiveUp

(* canopen.c, canopen_sdo_read and _write, handler and runner: the state   *)
(* stays well formed.                                                      *)
THEOREM SdoTypeCorrect == Spec => []TypeOK
<1>1. SafeInv => TypeOK
  BY DEF SafeInv
<1> QED
  BY InitSafe, StepSafe, <1>1, PTL DEF Spec

(* No request is outstanding outside a call, and it is the call's own.     *)
THEOREM RequestsBelongToCalls == Spec => []RunningOnlyInCall
<1>1. SafeInv => RunningOnlyInCall
  BY DEF SafeInv
<1> QED
  BY InitSafe, StepSafe, <1>1, PTL DEF Spec

(* Whoever ends a request wakes its caller.                                *)
THEOREM WakeupsAreNotLost == Spec => []NoLostWakeup
<1>1. SafeInv => NoLostWakeup
  BY DEF SafeInv
<1> QED
  BY InitSafe, StepSafe, <1>1, PTL DEF Spec

-----------------------------------------------------------------------------
(* The part that needs every frame to end with its call.                   *)

LEMMA InitTimely == Init => TimelyInv
  BY SdoAssumption DEF Init, TimelyInv

(* A frame of this call stays one while request and entry stay.            *)
LEMMA SameCall ==
  ASSUME UNCHANGED <<req, store>>, NEW f, OfThisCall(f)
  PROVE  OfThisCall(f)'
  BY DEF OfThisCall, Addressed

LEMMA StepTimely ==
  ASSUME timely, SafeInv, TimelyInv, [Next]_vars
  PROVE  TimelyInv'
<1> USE SdoAssumption DEF SafeInv
<1>1. ASSUME NEW c \in Clients, NEW cmd \in {"read", "write"}, NEW n \in Nodes, NEW i \in Ids,
             NEW v \in Values, Start(c, cmd, n, i, v)
      PROVE  TimelyInv'
  <2>1. net' = {} /\ rx' = NoFrame /\ mx' = c
    BY <1>1 DEF Start, bus, world, TimelyInv
  <2>2. req'.cmd = "write" => result' # "ok"
    BY <1>1 DEF Start
  <2>3. buf'[c] = NoData
    BY <1>1 DEF Start, TypeOK
  <2> QED
    BY <2>1, <2>2, <2>3 DEF TimelyInv
<1>2. ASSUME NEW c \in Clients, Send(c)
      PROVE  TimelyInv'
  <2> DEFINE f == [kind |-> req.cmd, node |-> req.node, id |-> req.id, value |-> req.value]
  <2>1. mx = c /\ UNCHANGED <<mx, req, running, result, done, buf, rx, store>> /\ net' \subseteq net \cup {f}
    BY <1>2 DEF Send, Goto, request, OneCaller
  <2>2. OfThisCall(f)
    BY DEF OfThisCall, TypeOK
  <2> HIDE DEF f
  <2>3. \A g \in net' : OfThisCall(g)'
    BY <2>1, <2>2, SameCall DEF TimelyInv
  <2>4. rx' # NoFrame => OfThisCall(rx)'
    BY <2>1, SameCall DEF TimelyInv
  <2> QED
    BY <2>1, <2>3, <2>4 DEF TimelyInv, Addressed
<1>3. ASSUME UNCHANGED <<mx, req, result, buf, rx, net, store>>
      PROVE  TimelyInv'
  BY <1>3 DEF TimelyInv, OfThisCall, Addressed
<1>4. ASSUME NEW c \in Clients, Take(c) \/ WaitExpires(c)
      PROVE  TimelyInv'
  BY <1>3, <1>4 DEF Take, WaitExpires, request, bus, world
<1>5. ASSUME NEW c \in Clients, NEW r, Leave(c, r)
      PROVE  TimelyInv'
  BY <1>5 DEF Leave, TimelyInv
<1>6. CASE RunnerTimeout
  BY <1>6 DEF RunnerTimeout, bus, world, TimelyInv, OfThisCall, Addressed
<1>7. CASE RxAct
  <2>1. rx # NoFrame /\ rx' = NoFrame /\ OfThisCall(rx) /\ UNCHANGED <<mx, req, net, store>>
    BY <1>7 DEF RxAct, TimelyInv
  <2>2. \A g \in net' : OfThisCall(g)'
    BY <2>1, SameCall DEF TimelyInv
  <2>3. mx \in Clients /\ mx # NoClient
    BY <2>1 DEF TimelyInv, TypeOK
  <2>4. CASE RxData
    <3>1. req.cmd = "read" /\ rx.value = Addressed /\ req.output = mx
      BY <2>1, <2>3, <2>4 DEF RxData, OfThisCall, OneCaller
    <3>2. buf' = [buf EXCEPT ![mx] = Addressed]
      BY <2>1, <2>4, <3>1 DEF RxData, OfThisCall
    <3>3. buf'[mx] = Addressed
      BY <2>3, <3>2 DEF TypeOK
    <3> QED
      BY <2>1, <2>2, <2>3, <3>1, <3>3 DEF TimelyInv, Addressed
  <2>5. CASE RxAck \/ RxAbort
    BY <2>1, <2>2, <2>3, <2>5 DEF RxAck, RxAbort, Complete, OfThisCall, TimelyInv, Addressed
  <2> QED
    BY <1>7, <2>4, <2>5 DEF RxAct
<1>8. ASSUME NEW f \in net, RxCheck(f)
      PROVE  TimelyInv'
  <2>1. UNCHANGED <<mx, req, result, buf, store>> /\ net' \subseteq net /\ rx' \in {f, NoFrame}
    BY <1>8 DEF RxCheck, request
  <2>2. \A g \in net' : OfThisCall(g)'
    BY <2>1, SameCall DEF TimelyInv
  <2>3. OfThisCall(f)'
    BY <2>1, SameCall DEF TimelyInv
  <2>4. mx # NoClient
    BY DEF TimelyInv
  <2> QED
    BY <2>1, <2>2, <2>3, <2>4 DEF TimelyInv, Addressed, OfThisCall
<1>9. ASSUME NEW f \in net, ServeRead(f)
      PROVE  TimelyInv'
  <2>1. OfThisCall(f) /\ mx # NoClient
    BY DEF TimelyInv
  <2>2. UNCHANGED <<mx, req, result, buf, rx, store>>
    BY <1>9 DEF ServeRead, request
  <2> f.node \in Nodes /\ f.id \in Ids /\ f.value \in Values /\ store[f.node][f.id] \in Values
    BY DEF TypeOK, SafeInv, Requests, Replies
  <2>3. PICK kind \in {"data", "abort"}, v \in Values :
          Answer(f, kind, v) /\ f.kind = "read" /\ (kind = "data" => v = store[f.node][f.id])
    BY <1>9 DEF ServeRead
  <2> DEFINE g == [kind |-> kind, node |-> f.node, id |-> f.id, value |-> v]
  <2>4. OfThisCall(g)
    BY <2>1, <2>3 DEF OfThisCall, Addressed
  <2>5. net' \subseteq net \cup {g}
    BY <2>3 DEF Answer
  <2> HIDE DEF g
  <2>6. \A h \in net' : OfThisCall(h)'
    BY <2>2, <2>4, <2>5, SameCall DEF TimelyInv
  <2> QED
    BY <2>1, <2>2, <2>6 DEF TimelyInv, Addressed, OfThisCall
<1>10. ASSUME NEW f \in net, ServeWrite(f)
       PROVE  TimelyInv'
  <2>1. OfThisCall(f) /\ mx # NoClient /\ f.kind = "write" /\ req.cmd = "write" /\ f.value = req.value
    BY <1>10 DEF TimelyInv, ServeWrite, OfThisCall
  <2>2. UNCHANGED <<mx, req, result, buf, rx>>
    BY <1>10 DEF ServeWrite, request
  <2>3. store' = store \/ store' = [store EXCEPT ![req.node][req.id] = req.value]
    BY <1>10, <2>1 DEF ServeWrite, OfThisCall
  <2>4. Addressed' = Addressed \/ Addressed' = req.value
    BY <2>2, <2>3 DEF TypeOK, Addressed
  <2>5. ASSUME NEW g, OfThisCall(g)
        PROVE  OfThisCall(g)'
    BY <2>1, <2>2, <2>4, <2>5 DEF OfThisCall
  <2>6. PICK kind \in {"ack", "abort"} :
          Answer(f, kind, f.value) /\ (kind = "ack" => req.id \in Regs /\ Addressed' = req.value)
    <3>1. CASE f.id \in Regs
      <4>1. Answer(f, "ack", f.value) /\ store' = [store EXCEPT ![req.node][req.id] = req.value]
        BY <1>10, <2>1, <3>1 DEF ServeWrite, OfThisCall
      <4>2. Addressed' = req.value /\ req.id \in Regs
        BY <2>1, <2>2, <3>1, <4>1 DEF TypeOK, Addressed, OfThisCall
      <4> QED
        BY <4>1, <4>2
    <3>2. CASE f.id \notin Regs
      BY <1>10, <3>2 DEF ServeWrite
    <3> QED
      BY <3>1, <3>2
  <2> DEFINE g == [kind |-> kind, node |-> f.node, id |-> f.id, value |-> f.value]
  <2>7. OfThisCall(g)'
    BY <2>1, <2>2, <2>6 DEF OfThisCall
  <2>8. net' \subseteq net \cup {g}
    BY <2>6 DEF Answer
  <2> HIDE DEF g
  <2>9. \A h \in net' : OfThisCall(h)'
    BY <2>5, <2>7, <2>8 DEF TimelyInv
  <2>10. rx' # NoFrame => OfThisCall(rx)'
    BY <2>2, <2>5 DEF TimelyInv
  <2> QED
    BY <2>1, <2>2, <2>4, <2>9, <2>10 DEF TimelyInv
<1>11. ASSUME NEW f \in net, Lose(f)
       PROVE  TimelyInv'
  BY <1>11 DEF Lose, request, TimelyInv, OfThisCall, Addressed
<1>12. CASE UNCHANGED vars
  BY <1>3, <1>12 DEF vars, request, bus, world
<1>13. req.value \in Values
  BY DEF TypeOK
<1> QED
  BY <1>1, <1>2, <1>4, <1>5, <1>6, <1>7, <1>8, <1>9, <1>10, <1>11, <1>12, <1>13
     DEF Next, Call, Bus, SendFails, Finish, GiveUp

LEMMA TimelyInvariance == Spec => [](SafeInv /\ (timely => TimelyInv))
<1>1. Init => SafeInv /\ (timely => TimelyInv)
  BY InitSafe, InitTimely
<1>2. [Next]_vars => timely' = timely
  BY DEF Next, Start, Call, Send, SendFails, Take, WaitExpires, Finish, GiveUp, Leave, RunnerTimeout, RxAct,
         Bus, RxCheck, ServeRead, ServeWrite, Lose, world, vars
<1>3. SafeInv /\ (timely => TimelyInv) /\ [Next]_vars => (SafeInv /\ (timely => TimelyInv))'
  BY <1>2, StepSafe, StepTimely
<1> QED
  BY <1>1, <1>3, PTL DEF Spec

(* A write that canopen_sdo_write reports as done has been done, whatever  *)
(* is lost or times out, as long as nothing outlives its call.             *)
THEOREM WritesAreReal == Spec => WriteSuccessIsReal
<1> DEFINE Real ==
      timely => \A c \in Clients :
        pc[c] = "taken" /\ pc'[c] = "idle" /\ req.cmd = "write" /\ result = "ok"
          => store[req.node][req.id] = req.value
<1>1. SafeInv /\ (timely => TimelyInv) /\ [Next]_vars => [Real]_vars
  <2> SUFFICES ASSUME SafeInv, TimelyInv, NEW c \in Clients, pc[c] = "taken",
                      req.cmd = "write", result = "ok"
               PROVE  store[req.node][req.id] = req.value
    OBVIOUS
  <2>1. mx = c
    BY DEF SafeInv, OneCaller
  <2> QED
    BY <2>1 DEF TimelyInv, Addressed
<1> QED
  BY <1>1, TimelyInvariance, PTL DEF Spec, WriteSuccessIsReal

(* What a successful read has put into the buffer is what the entry holds. *)
THEOREM ReadsAreCurrent == Spec => ReadDataIsCurrent
<1> DEFINE Current ==
      timely => \A c \in Clients :
        pc[c] = "taken" /\ pc'[c] = "idle" /\ req.cmd = "read" /\ result = "ok" /\ buf[c] # NoData
          => buf[c] = store[req.node][req.id]
<1>1. SafeInv /\ (timely => TimelyInv) /\ [Next]_vars => [Current]_vars
  <2> SUFFICES ASSUME SafeInv, TimelyInv, NEW c \in Clients, pc[c] = "taken",
                      req.cmd = "read", buf[c] # NoData
               PROVE  buf[c] = store[req.node][req.id]
    OBVIOUS
  <2>1. mx = c
    BY DEF SafeInv, OneCaller
  <2> QED
    BY <2>1 DEF TimelyInv, Addressed
<1> QED
  BY <1>1, TimelyInvariance, PTL DEF Spec, ReadDataIsCurrent

-----------------------------------------------------------------------------
(* The exchanges that the callers see.                                     *)

(* The call, the outcome and the buffer as module SdoExchange has them.    *)
Op == [cmd |-> req.cmd, node |-> req.node, id |-> req.id, value |-> req.value]
Data == [c \in Clients |-> IF mx = c THEN NoData ELSE buf[c]]

LEMMA InitExchange == Init => Exchange!Init
<1> SUFFICES ASSUME Init
             PROVE  Exchange!Init
  OBVIOUS
<1>1. Op \in Exchange!Ops
  BY DEF Init, Op, Exchange!Ops
<1>2. Data = [c \in Clients |-> NoData]
  BY DEF Init, Data
<1> QED
  BY <1>1, <1>2 DEF Init, Op, Data, Exchange!Init

(* Nothing that a caller can tell apart has changed.                       *)
LEMMA ExchangeStutters ==
  ASSUME UNCHANGED <<timely, mx, req, ret, store>>,
         mx \in Clients \/ UNCHANGED buf, \A c \in Clients : c # mx => buf'[c] = buf[c]
  PROVE  UNCHANGED Exchange!vars
<1>1. UNCHANGED Op
  BY DEF Op
<1>2. UNCHANGED Data
  BY DEF Data
<1> QED
  BY <1>1, <1>2 DEF Op, Data, Exchange!vars

(* canopen_sdo_read and _write taking the mutex begin an exchange.         *)
LEMMA StartBegins ==
  ASSUME SafeInv, NEW c \in Clients, NEW cmd \in {"read", "write"}, NEW n \in Nodes, NEW i \in Ids,
         NEW v \in Values, Start(c, cmd, n, i, v)
  PROVE  Exchange!Next
<1>1. Op' = [cmd |-> cmd, node |-> n, id |-> i, value |-> v] /\ Op' \in Exchange!Ops
  BY DEF Start, Op, Exchange!Ops
<1>2. Data' = [Data EXCEPT ![c] = NoData]
  BY SdoAssumption DEF Start, Data, SafeInv, TypeOK
<1>3. Exchange!Begin(c, [cmd |-> cmd, node |-> n, id |-> i, value |-> v])
  BY <1>1, <1>2 DEF Start, Op, Data, world, bus, Exchange!Begin
<1>4. [cmd |-> cmd, node |-> n, id |-> i, value |-> v] \in Exchange!Ops
  BY <1>1
<1>5. \E o \in Exchange!Ops : Exchange!Begin(c, o)
  BY <1>3, <1>4
<1> QED
  BY <1>5 DEF Exchange!Next

(* What the call returns is what the exchange promises.                    *)
LEMMA LeaveReturns ==
  ASSUME SafeInv, timely => TimelyInv, NEW c \in Clients, NEW r \in {"ok", "failed"},
         pc[c] # "idle", r = "ok" => result = "ok", Leave(c, r)
  PROVE  Exchange!Next
<1>1. mx = c /\ mx' = NoClient /\ mx' # c
  BY SdoAssumption DEF SafeInv, OneCaller, Leave
<1>2. Data' = [Data EXCEPT ![c] = buf[c]]
  BY <1>1, SdoAssumption DEF Leave, Data
<1>3. buf[c] \in Values \cup {NoData}
  BY DEF SafeInv, TypeOK
<1>4. timely => /\ Op.cmd = "write" => buf[c] = NoData /\ (r = "ok" => Op.id \in Regs /\ Addressed = Op.value)
                /\ buf[c] # NoData => buf[c] = Addressed
  <2>1. req.cmd \in {"read", "write"}
    BY DEF SafeInv, TypeOK
  <2> QED
    BY <1>1, <2>1 DEF Op, SafeInv, OneCaller, TimelyInv
<1>5. Exchange!Addressed = Addressed
  BY DEF Exchange!Addressed, Addressed
<1>6. UNCHANGED Op /\ ret' = [ret EXCEPT ![c] = r] /\ UNCHANGED <<timely, store>>
  BY DEF Leave, Op
<1>7. PICK d \in Values \cup {NoData} : d = buf[c]
  BY <1>3
<1>8. Exchange!Return(c, r, d)
  BY <1>1, <1>2, <1>4, <1>5, <1>6, <1>7 DEF Exchange!Return, Op, Data
<1> QED
  BY <1>8 DEF Exchange!Next, Exchange!Returns

(* The node performs a write: the one that is asked for, on a timely bus.  *)
LEMMA ServeWritePerforms ==
  ASSUME SafeInv, timely => TimelyInv, NEW f \in net, ServeWrite(f), f.id \in Regs
  PROVE  Exchange!Next
<1>1. f.node \in Nodes /\ f.id \in Ids /\ f.value \in Values
  BY FramesTyped DEF SafeInv
<1>2. UNCHANGED <<timely, mx, req, ret, buf>> /\ store' = [store EXCEPT ![f.node][f.id] = f.value]
  BY DEF ServeWrite, request
<1>3. timely => mx \in Clients /\ Op = [cmd |-> "write", node |-> f.node, id |-> f.id, value |-> f.value]
  <2> SUFFICES ASSUME timely
               PROVE  mx \in Clients /\ Op = [cmd |-> "write", node |-> f.node, id |-> f.id, value |-> f.value]
    OBVIOUS
  <2>1. mx \in Clients
    BY DEF TimelyInv, SafeInv, TypeOK
  <2>2. OfThisCall(f) /\ f.kind = "write"
    BY DEF TimelyInv, ServeWrite
  <2> QED
    BY <2>1, <2>2 DEF OfThisCall, Op
<1>4. UNCHANGED <<Op, Data>>
  BY <1>2 DEF Op, Data
<1>5. Exchange!Perform(f.node, f.id, f.value)
  BY <1>2, <1>3, <1>4 DEF Op, Data, Exchange!Perform
<1>6. \E n \in Nodes, i \in Ids, v \in Values : Exchange!Perform(n, i, v)
  BY <1>1, <1>5
<1> QED
  BY <1>6 DEF Exchange!Next

(* The handler fills a buffer: the caller's own, unless it is late.        *)
LEMMA RxActKeepsToItsCall ==
  ASSUME SafeInv, timely => TimelyInv, RxAct
  PROVE  [Exchange!Next]_(Exchange!vars)
<1>1. UNCHANGED <<timely, mx, req, ret, store>>
  BY DEF RxAct
<1>2. CASE UNCHANGED buf
  BY <1>1, <1>2, ExchangeStutters
<1>3. CASE ~UNCHANGED buf
  <2>1. RxData /\ buf' = [buf EXCEPT ![req.output] = rx.value]
    BY <1>3 DEF RxAct, RxData, RxAck, RxAbort
  <2>2. req.output \in Clients /\ rx.value \in Values /\ buf \in [Clients -> Values \cup {NoData}]
    BY DEF RxAct, SafeInv, TypeOK, Replies
  <2>3. CASE mx \in Clients
    <3>1. req.output = mx
      BY <2>3 DEF SafeInv, OneCaller
    <3> QED
      BY <1>1, <2>1, <2>2, <2>3, <3>1, ExchangeStutters
  <2>4. CASE mx \notin Clients
    <3>1. mx = NoClient /\ ~timely
      BY <2>4 DEF SafeInv, TypeOK, TimelyInv, RxAct
    <3>2. Data' = [Data EXCEPT ![req.output] = rx.value] /\ UNCHANGED Op
      BY <1>1, <2>1, <2>2, <2>4 DEF Data, Op
    <3>3. PICK c \in Clients : c = req.output
      BY <2>2
    <3>4. PICK d \in Values : d = rx.value
      BY <2>2
    <3>5. Exchange!Overwrite(c, d)
      BY <1>1, <2>2, <2>4, <3>1, <3>2, <3>3, <3>4 DEF Op, Data, Exchange!Overwrite
    <3> QED
      BY <3>5 DEF Exchange!Next
  <2> QED
    BY <2>3, <2>4
<1> QED
  BY <1>2, <1>3

LEMMA StepExchange ==
  SafeInv /\ (timely => TimelyInv) /\ [Next]_vars => [Exchange!Next]_(Exchange!vars)
<1> SUFFICES ASSUME SafeInv, timely => TimelyInv, [Next]_vars
             PROVE  [Exchange!Next]_(Exchange!vars)
  OBVIOUS
<1>1. ASSUME UNCHANGED <<timely, mx, req, ret, buf, store>>
      PROVE  [Exchange!Next]_(Exchange!vars)
  BY <1>1, ExchangeStutters
<1>2. ASSUME NEW c \in Clients, NEW cmd \in {"read", "write"}, NEW n \in Nodes, NEW i \in Ids,
             NEW v \in Values, Start(c, cmd, n, i, v)
      PROVE  [Exchange!Next]_(Exchange!vars)
  BY <1>2, StartBegins
<1>3. ASSUME NEW c \in Clients, Send(c) \/ Take(c) \/ WaitExpires(c)
      PROVE  [Exchange!Next]_(Exchange!vars)
  BY <1>1, <1>3 DEF Send, Take, WaitExpires, request, world, bus
<1>4. ASSUME NEW c \in Clients, SendFails(c) \/ Finish(c) \/ GiveUp(c)
      PROVE  [Exchange!Next]_(Exchange!vars)
  <2>1. pc[c] # "idle"
    BY <1>4 DEF SendFails, Finish, GiveUp, Goto
  <2>2. Leave(c, "failed") \/ (result = "ok" /\ Leave(c, "ok"))
    BY <1>4 DEF SendFails, Finish, GiveUp
  <2> QED
    BY <2>1, <2>2, LeaveReturns
<1>5. CASE RunnerTimeout
  BY <1>1, <1>5 DEF RunnerTimeout, world, bus
<1>6. CASE RxAct
  BY <1>6, RxActKeepsToItsCall
<1>7. ASSUME NEW f \in net, RxCheck(f) \/ ServeRead(f) \/ Lose(f)
      PROVE  [Exchange!Next]_(Exchange!vars)
  BY <1>1, <1>7 DEF RxCheck, ServeRead, Lose, request
<1>8. ASSUME NEW f \in net, ServeWrite(f)
      PROVE  [Exchange!Next]_(Exchange!vars)
  <2>1. CASE f.id \in Regs
    BY <1>8, <2>1, ServeWritePerforms
  <2>2. CASE f.id \notin Regs
    BY <1>1, <1>8, <2>2 DEF ServeWrite, request
  <2> QED
    BY <2>1, <2>2
<1>9. CASE UNCHANGED vars
  BY <1>1, <1>9 DEF vars, request, world, bus
<1>10. req.value \in Values
  BY DEF SafeInv, TypeOK
<1> QED
  BY <1>2, <1>3, <1>4, <1>5, <1>6, <1>7, <1>8, <1>9, <1>10 DEF Next, Call, Bus

(* The callers, the handler, the runner and the node implement exchanges:  *)
(* whatever number of callers, whatever is lost, and whoever overtakes whom. *)
THEOREM SdoImplementsExchange == Spec => Exchange!Spec
  BY InitExchange, TimelyInvariance, StepExchange, PTL DEF Spec, Exchange!Spec
=============================================================================
