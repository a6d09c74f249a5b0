---------------------------- MODULE CanPortProofs ----------------------------
(***************************************************************************)
(* Theorems about module CanPort, for every number of threads and          *)
(* mailboxes and every length of the queues.                               *)
(***************************************************************************)
EXTENDS CanPort, FiniteSetTheorems, WellFoundedInduction, TLAPS

-----------------------------------------------------------------------------
(* Counting the occurrences of a frame in a queue.                         *)

LEMMA PlacesFinite ==
  ASSUME NEW q \in Seq(Frames), NEW f
  PROVE  /\ IsFiniteSet(Places(q, f))
         /\ Cardinality(Places(q, f)) \in 0 .. Len(q)
<1>1. Len(q) \in Nat
  OBVIOUS
<1>2. IsFiniteSet(1 .. Len(q)) /\ Cardinality(1 .. Len(q)) = Len(q)
  BY <1>1, FS_Interval
<1>3. Places(q, f) \in SUBSET (1 .. Len(q))
  BY DEF Places
<1>4. IsFiniteSet(Places(q, f)) /\ Cardinality(Places(q, f)) <= Len(q)
  BY <1>2, <1>3, FS_Subset
<1> QED
  BY <1>1, <1>4, FS_CardinalityType

LEMMA CountAppended ==
  ASSUME NEW q \in Seq(Frames), NEW x \in Frames, NEW f
  PROVE  Cardinality(Places(Append(q, x), f))
           = Cardinality(Places(q, f)) + (IF x = f THEN 1 ELSE 0)
<1>1. Len(q) \in Nat /\ Len(q) + 1 \notin Places(q, f)
  BY DEF Places
<1>2. IsFiniteSet(Places(q, f)) /\ Cardinality(Places(q, f)) \in Nat
  BY PlacesFinite, FS_CardinalityType
<1>3. CASE x = f
  <2>1. Places(Append(q, x), f) = Places(q, f) \cup {Len(q) + 1}
    BY <1>1, <1>3 DEF Places
  <2> QED
    BY <1>1, <1>2, <1>3, <2>1, FS_AddElement
<1>4. CASE x # f
  <2>1. Places(Append(q, x), f) = Places(q, f)
    BY <1>1, <1>4 DEF Places
  <2> QED
    BY <1>2, <1>4, <2>1
<1> QED
  BY <1>3, <1>4

(* All places but the first move by one when the head is taken.            *)
LEMMA CountTaken ==
  ASSUME NEW q \in Seq(Frames), q # <<>>, NEW f
  PROVE  Cardinality(Places(Tail(q), f))
           = Cardinality(Places(q, f)) - (IF Head(q) = f THEN 1 ELSE 0)
<1> DEFINE Rest == Places(q, f) \ {1}
<1> DEFINE Back == [i \in Rest |-> i - 1]
<1>1. Len(q) \in Nat \ {0} /\ Len(Tail(q)) = Len(q) - 1 /\ Head(q) = q[1]
  OBVIOUS
<1>2. \A i \in 1 .. Len(q) - 1 : Tail(q)[i] = q[i + 1]
  OBVIOUS
<1>3. IsFiniteSet(Places(q, f)) /\ Cardinality(Places(q, f)) \in Nat
  BY PlacesFinite, FS_CardinalityType
<1>4. /\ IsFiniteSet(Rest)
      /\ Cardinality(Rest) = Cardinality(Places(q, f)) - (IF 1 \in Places(q, f) THEN 1 ELSE 0)
  BY <1>3, FS_RemoveElement
<1>5. 1 \in Places(q, f) <=> Head(q) = f
  BY <1>1 DEF Places
<1>6. Back \in Bijection(Rest, Places(Tail(q), f))
  <2>1. \A i \in Rest : i - 1 \in Places(Tail(q), f)
    BY <1>1, <1>2 DEF Places
  <2>2. \A i, j \in Rest : i - 1 = j - 1 => i = j
    BY DEF Places
  <2>3. \A i \in Places(Tail(q), f) : i + 1 \in Rest /\ i = (i + 1) - 1
    BY <1>1, <1>2 DEF Places
  <2>4. Back \in Injection(Rest, Places(Tail(q), f))
    BY <2>1, <2>2 DEF Injection, IsInjective
  <2>5. Back \in Surjection(Rest, Places(Tail(q), f))
    BY <2>1, <2>3 DEF Surjection
  <2> QED
    BY <2>4, <2>5 DEF Bijection
<1>7. Cardinality(Places(Tail(q), f)) = Cardinality(Rest)
  BY <1>4, <1>6, FS_Bijection DEF ExistsBijection
<1> QED
  BY <1>4, <1>5, <1>7

-----------------------------------------------------------------------------
(* Counting the mailboxes that hold a frame.                               *)

Holding(mb, f) == {m \in Mailboxes : mb[m] = f}

LEMMA HoldingFinite ==
  ASSUME NEW mb, NEW f
  PROVE  /\ IsFiniteSet(Holding(mb, f))
         /\ Cardinality(Holding(mb, f)) \in 0 .. Cardinality(Mailboxes)
<1>1. IsFiniteSet(Mailboxes) /\ Holding(mb, f) \in SUBSET Mailboxes
  BY PortAssumption DEF Holding
<1>2. /\ IsFiniteSet(Holding(mb, f))
      /\ Cardinality(Holding(mb, f)) <= Cardinality(Mailboxes)
  BY <1>1, FS_Subset
<1> QED
  BY <1>1, <1>2, FS_CardinalityType

(* A mailbox that did not hold f is loaded with x.                         *)
LEMMA MailboxLoaded ==
  ASSUME NEW mb \in [Mailboxes -> Frames \cup {Empty}], NEW m \in Mailboxes, mb[m] = Empty,
         NEW x \in Frames, NEW f \in Frames
  PROVE  Cardinality(Holding([mb EXCEPT ![m] = x], f))
           = Cardinality(Holding(mb, f)) + (IF x = f THEN 1 ELSE 0)
<1>1. f # Empty /\ m \notin Holding(mb, f)
  BY PortAssumption DEF Holding
<1>2. IsFiniteSet(Holding(mb, f)) /\ Cardinality(Holding(mb, f)) \in Nat
  BY HoldingFinite, FS_CardinalityType
<1>3. CASE x = f
  <2>1. Holding([mb EXCEPT ![m] = x], f) = Holding(mb, f) \cup {m}
    BY <1>3 DEF Holding
  <2> QED
    BY <1>1, <1>2, <1>3, <2>1, FS_AddElement
<1>4. CASE x # f
  <2>1. Holding([mb EXCEPT ![m] = x], f) = Holding(mb, f)
    BY <1>1, <1>4 DEF Holding
  <2> QED
    BY <1>2, <1>4, <2>1
<1> QED
  BY <1>3, <1>4

LEMMA MailboxEmptied ==
  ASSUME NEW mb \in [Mailboxes -> Frames \cup {Empty}], NEW m \in Mailboxes, NEW f \in Frames
  PROVE  Cardinality(Holding([mb EXCEPT ![m] = Empty], f))
           = Cardinality(Holding(mb, f)) - (IF mb[m] = f THEN 1 ELSE 0)
<1>1. f # Empty
  BY PortAssumption
<1>2. IsFiniteSet(Holding(mb, f)) /\ Cardinality(Holding(mb, f)) \in Nat
  BY HoldingFinite, FS_CardinalityType
<1>3. Holding([mb EXCEPT ![m] = Empty], f) = Holding(mb, f) \ {m}
  BY <1>1 DEF Holding
<1>4. m \in Holding(mb, f) <=> mb[m] = f
  BY DEF Holding
<1>5. Cardinality(Holding(mb, f) \ {m})
        = IF m \in Holding(mb, f) THEN Cardinality(Holding(mb, f)) - 1 ELSE Cardinality(Holding(mb, f))
  BY <1>2, FS_RemoveElement
<1>6. CASE mb[m] = f
  BY <1>2, <1>3, <1>4, <1>5, <1>6
<1>7. CASE mb[m] # f
  <2>1. Holding([mb EXCEPT ![m] = Empty], f) = Holding(mb, f)
    BY <1>3, <1>4, <1>7
  <2> QED
    BY <1>2, <1>7, <2>1
<1> QED
  BY <1>6, <1>7

LEMMA LowestFree ==
  ASSUME Free # {}
  PROVE  Lowest(Free) \in Free
<1>1. Free \subseteq Nat
  BY PortAssumption DEF Free
<1>2. PICK x \in Free : \A y \in Free : ~(<<y, x>> \in OpToRel(<, Nat))
  BY <1>1, NatLessThanWellFounded, WFMin
<1>3. \A y \in Free : ~(y < x)
  BY <1>1, <1>2 DEF OpToRel
<1>4. \A y \in Free : x <= y
  BY <1>1, <1>3
<1> QED
  BY <1>4 DEF Lowest

-----------------------------------------------------------------------------
(* Types.                                                                  *)

LEMMA PortConstants ==
  /\ Dispatcher \in Threads
  /\ Zero \in Frames /\ Empty \notin Frames
  /\ TxLen \in Nat \ {0} /\ RxLen \in Nat \ {0}
BY PortAssumption DEF Threads

LEMMA PortInit == Init => TypeOK
<1> SUFFICES ASSUME Init PROVE TypeOK
  OBVIOUS
<1>1. tx_queue \in Seq(Frames) /\ Len(tx_queue) <= TxLen
  BY PortConstants DEF Init
<1>2. wire \in Frames \X {0, 1}
  BY PortConstants DEF Init
<1>3. frame \in [Threads -> Frames] /\ mailbox \in [Mailboxes -> Frames \cup {Empty}]
  BY PortConstants DEF Init
<1>4. rx_queue \in 0 .. RxLen
  BY PortConstants DEF Init
<1>6. {tmeie, ier, stir, passive} \subseteq BOOLEAN
  BY Zenon DEF Init
<1>5. pc \in [Threads -> {"idle", "handle", "lock", "zero", "put", "load", "store", "enable", "raise", "unlock"}]
  BY DEF Init
<1> QED
  BY <1>1, <1>2, <1>3, <1>4, <1>5, <1>6 DEF Init, TypeOK

(* Only four steps touch the queue, and none makes it longer than it may be. *)
LEMMA ThreadTypes ==
  ASSUME TypeOK, NEW t \in Threads, Lock(t) \/ Write(t)
  PROVE  TypeOK'
<1> USE PortConstants DEF TypeOK, Goto, controller
<1>1. CASE Lock(t)
  BY <1>1 DEF Lock
<1>2. CASE PutZero(t)
  <2>1. tx_queue' \in Seq(Frames) /\ Len(tx_queue') <= TxLen
    BY <1>2 DEF PutZero, Fits
  <2> QED
    BY <1>2, <2>1 DEF PutZero
<1>3. CASE Put(t)
  <2>1. tx_queue' \in Seq(Frames) /\ Len(tx_queue') <= TxLen
    BY <1>3 DEF Put, Fits
  <2> QED
    BY <1>3, <2>1 DEF Put
<1>4. CASE PutTimesOut(t)
  BY <1>4 DEF PutTimesOut
<1>5. CASE LoadIer(t)
  BY <1>5 DEF LoadIer
<1>6. CASE StoreIer(t)
  BY <1>6 DEF StoreIer
<1>7. CASE EnableTme(t)
  BY <1>7 DEF EnableTme
<1>8. CASE Raise(t)
  BY <1>8 DEF Raise
<1>9. CASE Unlock(t)
  BY <1>9 DEF Unlock
<1> QED
  BY <1>1, <1>2, <1>3, <1>4, <1>5, <1>6, <1>7, <1>8, <1>9 DEF Write

LEMMA TailFits ==
  /\ TxLen \in Nat
  /\ \A q \in Seq(Frames) : q # <<>> /\ Len(q) <= TxLen =>
       Head(q) \in Frames /\ Tail(q) \in Seq(Frames) /\ Len(Tail(q)) <= TxLen
<1>1. TxLen \in Nat
  BY PortConstants
<1> SUFFICES ASSUME NEW q \in Seq(Frames), q # <<>>, Len(q) <= TxLen
             PROVE  Head(q) \in Frames /\ Tail(q) \in Seq(Frames) /\ Len(Tail(q)) <= TxLen
  BY <1>1
<1>2. Len(q) \in Nat \ {0} /\ Len(Tail(q)) = Len(q) - 1
  OBVIOUS
<1> QED
  BY <1>1, <1>2

LEMMA TxIsrTypes ==
  ASSUME TypeOK, TxIsr
  PROVE  TypeOK'
<1> USE PortConstants DEF TypeOK, TxIsr, controller
<1>1. CASE Free = {} \/ tx_queue = <<>>
  BY <1>1
<1>2. CASE Free # {} /\ tx_queue # <<>>
  <2>1. Lowest(Free) \in Mailboxes
    BY <1>2, LowestFree DEF Free
  <2>2. Head(tx_queue) \in Frames /\ tx_queue' \in Seq(Frames) /\ Len(tx_queue') <= TxLen
    <3>1. tx_queue \in Seq(Frames) /\ Len(tx_queue) <= TxLen /\ tx_queue' = Tail(tx_queue)
      BY <1>2
    <3> QED
      BY <1>2, <3>1, TailFits, PortConstants, Zenon
  <2>3. mailbox' \in [Mailboxes -> Frames \cup {Empty}] /\ rqcp' \subseteq Mailboxes
    BY <1>2, <2>1, <2>2
  <2> QED
    BY <1>2, <2>2, <2>3
<1> QED
  BY <1>1, <1>2

LEMMA PortTypes == TypeOK /\ [Next]_vars => TypeOK'
<1> SUFFICES ASSUME TypeOK, [Next]_vars PROVE TypeOK'
  OBVIOUS
<1> USE PortConstants
<1>1. CASE \E t \in Threads, f \in Frames \ {Zero} : Send(t, f)
  BY <1>1 DEF Send, Goto, TypeOK, controller
<1>2. CASE \E t \in Threads : Lock(t) \/ Write(t)
  BY <1>2, ThreadTypes
<1>3. CASE TxIsr
  BY <1>3, TxIsrTypes
<1>4. CASE RxIsr
  BY <1>4 DEF RxIsr, TypeOK, controller
<1>5. CASE Receive \/ Handled
  BY <1>5 DEF Receive, Handled, Goto, TypeOK, controller
<1>6. CASE \E m \in Mailboxes : Transmit(m)
  <2>1. PICK m \in Mailboxes : Transmit(m)
    BY <1>6
  <2>2. wire[2] \in {0, 1} /\ mailbox[m] \in Frames
    BY <2>1 DEF Transmit, TypeOK
  <2>3. wire' \in Frames \X {0, 1}
    BY <2>1, <2>2 DEF Transmit
  <2> QED
    BY <2>1, <2>3 DEF Transmit, TypeOK
<1>7. CASE BusChanges
  BY <1>7 DEF BusChanges, TypeOK
<1>8. CASE UNCHANGED vars
  BY <1>8 DEF vars, controller, TypeOK
<1> QED
  BY <1>1, <1>2, <1>3, <1>4, <1>5, <1>6, <1>7, <1>8 DEF Next

(* The queue never holds more frames than it has room for, and the         *)
(* mailboxes hold frames only, whatever threads, handlers and bus do.      *)
THEOREM PortTypeCorrect == Spec => []TypeOK
BY PortInit, PortTypes, PTL DEF Spec

-----------------------------------------------------------------------------
(* The lock.                                                               *)

Writing == {"zero", "put", "load", "store", "enable", "raise", "unlock"}

(* One writer at a time is between can_send's lock and unlock, and only    *)
(* the thread there holds the lock: the enable register, which a thread    *)
(* loads in one step and stores in another, is copied by one at a time.    *)
OneWriter == \A t \in Threads : At(t, Writing) <=> lock = t

LEMMA NobodyIsNoThread == NoThread \notin Threads
BY PortAssumption DEF Threads

(* A thread that moves leaves the others where they are.                   *)
LEMMA OthersStay ==
  ASSUME TypeOK, NEW t \in Threads, NEW from, NEW to, Goto(t, from, to)
  PROVE  /\ pc[t] = from /\ pc'[t] = to
         /\ \A u \in Threads \ {t} : pc'[u] = pc[u]
BY DEF TypeOK, Goto

LEMMA WriterAlone ==
  ASSUME TypeOK, OneWriter, NEW t \in Threads, NEW from, NEW to, Goto(t, from, to),
         \/ from \notin Writing /\ to \notin Writing /\ lock' = lock
         \/ from \in Writing /\ to \in Writing /\ lock' = lock
         \/ from \notin Writing /\ to \in Writing /\ lock = NoThread /\ lock' = t
         \/ from \in Writing /\ to \notin Writing /\ lock' = NoThread
  PROVE  OneWriter'
<1>1. /\ pc[t] = from /\ pc'[t] = to
      /\ \A u \in Threads \ {t} : pc'[u] = pc[u]
  BY OthersStay
<1> QED
  BY <1>1, NobodyIsNoThread DEF OneWriter, At

LEMMA LockKept == TypeOK /\ OneWriter /\ [Next]_vars => OneWriter'
<1> SUFFICES ASSUME TypeOK, OneWriter, [Next]_vars PROVE OneWriter'
  OBVIOUS
<1>1. CASE \E t \in Threads, f \in Frames \ {Zero} : Send(t, f)
  BY <1>1, WriterAlone DEF Send, Writing
<1>2. CASE \E t \in Threads : Lock(t)
  BY <1>2, WriterAlone DEF Lock, Writing
<1>3. CASE \E t \in Threads : Write(t)
  <2>1. PICK t \in Threads : Write(t)
    BY <1>3
  <2>2. CASE PutZero(t)
    BY <2>2, WriterAlone DEF PutZero, Writing
  <2>3. CASE Put(t)
    BY <2>3, WriterAlone DEF Put, Writing
  <2>4. CASE PutTimesOut(t)
    BY <2>4, WriterAlone DEF PutTimesOut, Writing
  <2>5. CASE LoadIer(t)
    BY <2>5, WriterAlone DEF LoadIer, Writing
  <2>6. CASE StoreIer(t)
    BY <2>6, WriterAlone DEF StoreIer, Writing
  <2>7. CASE EnableTme(t)
    BY <2>7, WriterAlone DEF EnableTme, Writing
  <2>8. CASE Raise(t)
    BY <2>8, WriterAlone DEF Raise, Writing
  <2>9. CASE Unlock(t)
    BY <2>9, WriterAlone DEF Unlock, Writing
  <2> QED
    BY <2>1, <2>2, <2>3, <2>4, <2>5, <2>6, <2>7, <2>8, <2>9 DEF Write
<1>4. CASE Receive \/ Handled
  <2>1. Dispatcher \in Threads
    BY PortConstants
  <2> QED
    BY <1>4, <2>1, WriterAlone DEF Receive, Handled, Writing
<1>5. CASE UNCHANGED <<pc, lock>>
  BY <1>5 DEF OneWriter, At
<1>6. TxIsr \/ RxIsr \/ (\E m \in Mailboxes : Transmit(m)) \/ BusChanges \/ UNCHANGED vars
        => UNCHANGED <<pc, lock>>
  BY DEF TxIsr, RxIsr, Transmit, BusChanges, vars
<1> QED
  BY <1>1, <1>2, <1>3, <1>4, <1>5, <1>6 DEF Next

(* Whatever the number of threads, the lock excludes: between can_send's   *)
(* lock and unlock there is one thread, the holder, also after a write     *)
(* that timed out and on a port that is error passive.                     *)
THEOREM OneWriterAtATime == Spec => []OneWriter
<1>1. Init => OneWriter
  BY NobodyIsNoThread DEF Init, OneWriter, At, Writing
<1> QED
  BY <1>1, LockKept, PortTypeCorrect, PTL DEF Spec

-----------------------------------------------------------------------------
(* No wake-up is lost.                                                     *)

(* NoFrameForgotten is not inductive: it does not say that the interrupt   *)
(* is enabled when the handler is pending, nor that there is a cause for   *)
(* it when it is enabled.  With a frame in the queue there are both, or a  *)
(* writer who will see to the one that is missing.                         *)
Armed ==
  tx_queue # <<>> => tmeie \/ \E t \in Threads : At(t, {"load", "store", "enable"})

Caused ==
  tx_queue # <<>> =>
    \/ stir \/ rqcp # {} \/ Occupied # {}
    \/ \E t \in Threads : At(t, {"load", "store", "enable", "raise"})

(* A thread that stays on its way to the raise is as good a reason after   *)
(* the step as before.                                                     *)
LEMMA WriterAwake ==
  ASSUME TypeOK, Armed, Caused, NEW t \in Threads, Lock(t) \/ Write(t)
  PROVE  Armed' /\ Caused'
<1>1. /\ \A from, to : Goto(t, from, to) =>
           /\ pc[t] = from /\ pc'[t] = to
           /\ \A u \in Threads \ {t} : pc'[u] = pc[u]
  BY OthersStay
<1>2. UNCHANGED controller => rqcp' = rqcp /\ Occupied' = Occupied
  BY DEF controller, Occupied
<1> USE <1>1, <1>2 DEF Armed, Caused, At
<1>3. CASE Lock(t)
  BY <1>3 DEF Lock
<1>4. CASE PutZero(t)
  BY <1>4 DEF PutZero
<1>5. CASE Put(t)
  BY <1>5 DEF Put
<1>6. CASE PutTimesOut(t)
  BY <1>6 DEF PutTimesOut
<1>7. CASE LoadIer(t)
  BY <1>7 DEF LoadIer
<1>8. CASE StoreIer(t)
  BY <1>8 DEF StoreIer
<1>9. CASE EnableTme(t)
  BY <1>9 DEF EnableTme
<1>10. CASE Raise(t)
  BY <1>10 DEF Raise
<1>11. CASE Unlock(t)
  BY <1>11 DEF Unlock
<1> QED
  BY <1>3, <1>4, <1>5, <1>6, <1>7, <1>8, <1>9, <1>10, <1>11 DEF Write

(* The handler takes the cause away; it leaves a frame in a mailbox or the *)
(* mailboxes full, and disables itself only with an empty queue.           *)
LEMMA HandlerAwake ==
  ASSUME TypeOK, Armed, Caused, TxIsr
  PROVE  Armed' /\ Caused'
<1>1. pc' = pc
  BY DEF TxIsr
<1>2. CASE Free = {}
  <2>1. Occupied' # {}
    BY <1>2, PortAssumption DEF TxIsr, Free, Occupied
  <2> QED
    BY <1>1, <1>2, <2>1 DEF TxIsr, Armed, Caused, At
<1>3. CASE Free # {} /\ tx_queue = <<>>
  <2>1. tx_queue' = <<>>
    BY <1>3 DEF TxIsr
  <2> QED
    BY <2>1 DEF Armed, Caused
<1>4. CASE Free # {} /\ tx_queue # <<>>
  <2>1. Lowest(Free) \in Mailboxes
    BY <1>4, LowestFree DEF Free
  <2>2. Head(tx_queue) \in Frames /\ Empty \notin Frames
    BY <1>4, TailFits, PortConstants DEF TypeOK
  <2>3. mailbox' = [mailbox EXCEPT ![Lowest(Free)] = Head(tx_queue)] /\ tmeie' = tmeie
    BY <1>4 DEF TxIsr
  <2>4. Lowest(Free) \in Occupied'
    BY <2>1, <2>2, <2>3 DEF Occupied, TypeOK
  <2> QED
    BY <1>1, <1>4, <2>3, <2>4 DEF Armed, Caused, At
<1> QED
  BY <1>2, <1>3, <1>4

LEMMA StaysAwake ==
  TypeOK /\ Armed /\ Caused /\ [Next]_vars => Armed' /\ Caused'
<1> SUFFICES ASSUME TypeOK, Armed, Caused, [Next]_vars PROVE Armed' /\ Caused'
  OBVIOUS
<1> USE PortConstants
<1>1. CASE \E t \in Threads : Lock(t) \/ Write(t)
  BY <1>1, WriterAwake
<1>2. CASE TxIsr
  BY <1>2, HandlerAwake
<1>3. CASE \E m \in Mailboxes : Transmit(m)
  BY <1>3 DEF Transmit, Armed, Caused, At
<1>4. CASE \E t \in Threads, f \in Frames \ {Zero} : Send(t, f)
  <2>1. PICK t \in Threads : \E f \in Frames : Send(t, f)
    BY <1>4
  <2>2. /\ pc[t] \in {"handle", "idle"} /\ \A u \in Threads \ {t} : pc'[u] = pc[u]
        /\ UNCHANGED <<tx_queue, tmeie, stir, rqcp, mailbox>>
    BY <2>1, OthersStay DEF Send, controller
  <2> QED
    BY <2>2 DEF Armed, Caused, At, Occupied
<1>5. CASE Receive \/ Handled
  <2>1. /\ pc[Dispatcher] \in {"handle", "idle"}
        /\ \A u \in Threads \ {Dispatcher} : pc'[u] = pc[u]
        /\ UNCHANGED <<tx_queue, tmeie, stir, rqcp, mailbox>>
    BY <1>5, OthersStay DEF Receive, Handled, controller
  <2> QED
    BY <2>1 DEF Armed, Caused, At, Occupied
<1>6. CASE RxIsr \/ BusChanges \/ UNCHANGED vars
  <2>1. UNCHANGED <<pc, tx_queue, tmeie, stir, rqcp, mailbox>>
    BY <1>6 DEF RxIsr, BusChanges, vars, controller
  <2> QED
    BY <2>1 DEF Armed, Caused, At, Occupied
<1> QED
  BY <1>1, <1>2, <1>3, <1>4, <1>5, <1>6 DEF Next

(* However the writers' loads and stores of the enable register fall       *)
(* between the handler's, no frame waits in the queue without an interrupt *)
(* to come: what a thread writes back stale, the same thread sets again.   *)
THEOREM PortForgetsNoFrame == Spec => []NoFrameForgotten
<1>1. Init => Armed /\ Caused
  BY DEF Init, Armed, Caused
<1>2. Armed /\ Caused => NoFrameForgotten
  BY DEF Armed, Caused, NoFrameForgotten, At
<1> QED
  BY <1>1, <1>2, StaysAwake, PortTypeCorrect, PTL DEF Spec

-----------------------------------------------------------------------------
(* What goes in comes out.                                                 *)

InflightFacts ==
  \A f \in Frames :
    /\ Inflight[f] = InQueue(f) + InMailbox(f)
    /\ InQueue(f) \in 0 .. TxLen
    /\ InMailbox(f) \in 0 .. Cardinality(Mailboxes)

LEMMA InflightIs == TypeOK => InflightFacts
<1> SUFFICES ASSUME TypeOK, NEW f \in Frames
             PROVE  /\ Inflight[f] = InQueue(f) + InMailbox(f)
                    /\ InQueue(f) \in 0 .. TxLen
                    /\ InMailbox(f) \in 0 .. Cardinality(Mailboxes)
  BY DEF InflightFacts
<1>1. Inflight[f] = InQueue(f) + InMailbox(f)
  BY DEF Inflight
<1>2. tx_queue \in Seq(Frames) /\ Len(tx_queue) \in Nat /\ Len(tx_queue) <= TxLen /\ TxLen \in Nat
  BY PortConstants DEF TypeOK
<1>3. InQueue(f) \in 0 .. Len(tx_queue)
  BY <1>2, PlacesFinite DEF InQueue
<1>4. InQueue(f) \in 0 .. TxLen
  BY <1>2, <1>3
<1>5. InMailbox(f) \in 0 .. Cardinality(Mailboxes)
  BY HoldingFinite DEF InMailbox, Holding
<1> QED
  BY <1>1, <1>4, <1>5

LEMMA OneChanges ==
  ASSUME NEW F \in [Frames -> Int], NEW G \in [Frames -> Int], NEW x \in Frames, NEW n \in Int,
         G[x] = n, \A f \in Frames \ {x} : G[f] = F[f]
  PROVE  G = [F EXCEPT ![x] = n]
OBVIOUS

(* A step that leaves queue, mailboxes and wire alone is not seen.         *)
LEMMA Unseen ==
  ASSUME UNCHANGED <<tx_queue, mailbox, wire>>
  PROVE  UNCHANGED Channel!vars
BY DEF Channel!vars, Inflight, InQueue, InMailbox

LEMMA Accepted ==
  ASSUME TypeOK, TypeOK', NEW x \in Frames,
         tx_queue' = Append(tx_queue, x), UNCHANGED <<mailbox, wire>>
  PROVE  Channel!Accept(x)
<1>1. \A f \in Frames : InQueue(f)' = InQueue(f) + (IF x = f THEN 1 ELSE 0)
  BY CountAppended DEF InQueue, TypeOK
<1>2. \A f \in Frames : InMailbox(f)' = InMailbox(f)
  BY DEF InMailbox
<1>3. \A f \in Frames : Inflight[f] = InQueue(f) + InMailbox(f) /\ InQueue(f) \in Nat /\ InMailbox(f) \in Nat
  BY InflightIs DEF InflightFacts
<1>4. Inflight' = [f \in Frames |-> InQueue(f)' + InMailbox(f)']
  BY DEF Inflight
<1>5. Inflight' = [Inflight EXCEPT ![x] = @ + 1]
  <2>1. \A f \in Frames : Inflight'[f] = Inflight[f] + (IF x = f THEN 1 ELSE 0)
    BY <1>1, <1>2, <1>3, <1>4
  <2>2. Inflight \in [Frames -> Int]
    BY <1>3 DEF Inflight
  <2>3. Inflight' \in [Frames -> Int]
    BY <1>1, <1>2, <1>3, <1>4
  <2>4. Inflight'[x] = Inflight[x] + 1 /\ Inflight[x] + 1 \in Int
    BY <2>1, <2>2
  <2>5. \A f \in Frames \ {x} : Inflight'[f] = Inflight[f]
    BY <2>1, <2>2
  <2> QED
    BY <2>2, <2>3, <2>4, <2>5, OneChanges
<1>6. /\ InQueue(x)' \in 0 .. TxLen
      /\ InMailbox(x)' \in 0 .. Cardinality(Mailboxes)
      /\ Inflight'[x] = InQueue(x)' + InMailbox(x)'
  <2>1. InflightFacts'
    BY InflightIs, PTL
  <2> QED
    BY <2>1 DEF InflightFacts
<1>7. TxLen \in Nat /\ Cardinality(Mailboxes) \in Nat
  BY PortAssumption, FS_CardinalityType
<1>8. Inflight'[x] <= TxLen + Cardinality(Mailboxes)
  BY <1>6, <1>7
<1> QED
  BY <1>5, <1>8 DEF Channel!Accept

(* The handler moves a frame; it is in flight before and after.            *)
LEMMA HandlerUnseen ==
  ASSUME TypeOK, TxIsr
  PROVE  UNCHANGED Channel!vars
<1>1. CASE Free = {} \/ tx_queue = <<>>
  <2>1. UNCHANGED <<tx_queue, mailbox, wire>>
    BY <1>1 DEF TxIsr
  <2> QED
    BY <2>1, Unseen
<1>2. CASE Free # {} /\ tx_queue # <<>>
  <2>1. /\ tx_queue' = Tail(tx_queue)
        /\ mailbox' = [mailbox EXCEPT ![Lowest(Free)] = Head(tx_queue)]
        /\ UNCHANGED wire
    BY <1>2 DEF TxIsr
  <2>2. Lowest(Free) \in Mailboxes /\ mailbox[Lowest(Free)] = Empty
    BY <1>2, LowestFree DEF Free
  <2>3. /\ mailbox \in [Mailboxes -> Frames \cup {Empty}]
        /\ tx_queue \in Seq(Frames) /\ Head(tx_queue) \in Frames
    BY <1>2, TailFits DEF TypeOK
  <2>4. \A f \in Frames : InQueue(f)' = InQueue(f) - (IF Head(tx_queue) = f THEN 1 ELSE 0)
    BY <1>2, <2>1, <2>3, CountTaken DEF InQueue
  <2>5. \A f \in Frames : InMailbox(f)' = InMailbox(f) + (IF Head(tx_queue) = f THEN 1 ELSE 0)
    BY <2>1, <2>2, <2>3, MailboxLoaded DEF InMailbox, Holding
  <2>6. \A f \in Frames : InQueue(f) \in Int /\ InMailbox(f) \in Int
    BY InflightIs DEF InflightFacts
  <2>7. \A f \in Frames : InQueue(f)' + InMailbox(f)' = InQueue(f) + InMailbox(f)
    BY <2>4, <2>5, <2>6
  <2>8. Inflight' = Inflight
    BY <2>7 DEF Inflight
  <2> QED
    BY <2>1, <2>8 DEF Channel!vars
<1> QED
  BY <1>1, <1>2

LEMMA Transmitted ==
  ASSUME TypeOK, NEW m \in Mailboxes, Transmit(m)
  PROVE  mailbox[m] \in Frames /\ Channel!Transmit(mailbox[m])
<1> DEFINE x == mailbox[m]
<1>1. /\ mailbox \in [Mailboxes -> Frames \cup {Empty}] /\ x \in Frames
      /\ mailbox' = [mailbox EXCEPT ![m] = Empty]
      /\ wire' = <<x, 1 - wire[2]>> /\ UNCHANGED tx_queue
  BY DEF Transmit, TypeOK
<1>2. \A f \in Frames : InQueue(f)' = InQueue(f)
  BY <1>1 DEF InQueue
<1>3. \A f \in Frames : InMailbox(f)' = InMailbox(f) - (IF x = f THEN 1 ELSE 0)
  BY <1>1, MailboxEmptied DEF InMailbox, Holding
<1>4. \A f \in Frames : Inflight[f] = InQueue(f) + InMailbox(f) /\ InQueue(f) \in Nat /\ InMailbox(f) \in Nat
  BY InflightIs DEF InflightFacts
<1>5. Inflight' = [f \in Frames |-> InQueue(f)' + InMailbox(f)']
  BY DEF Inflight
<1>6. Inflight' = [Inflight EXCEPT ![x] = @ - 1]
  <2>1. \A f \in Frames : Inflight'[f] = Inflight[f] - (IF x = f THEN 1 ELSE 0)
    BY <1>2, <1>3, <1>4, <1>5
  <2>2. Inflight \in [Frames -> Int]
    BY <1>4 DEF Inflight
  <2>3. Inflight' \in [Frames -> Int]
    BY <1>2, <1>3, <1>4, <1>5
  <2>4. Inflight'[x] = Inflight[x] - 1 /\ Inflight[x] - 1 \in Int
    BY <1>1, <2>1, <2>2
  <2>5. \A f \in Frames \ {x} : Inflight'[f] = Inflight[f]
    BY <2>1, <2>2
  <2> QED
    BY <1>1, <2>2, <2>3, <2>4, <2>5, OneChanges
<1>7. Inflight[x] > 0
  <2>1. m \in Holding(mailbox, x)
    BY DEF Holding
  <2>2. InMailbox(x) # 0
    BY <2>1, HoldingFinite, FS_EmptySet DEF InMailbox, Holding
  <2> QED
    BY <1>1, <1>4, <2>2
<1> QED
  BY <1>1, <1>6, <1>7 DEF Channel!Transmit

LEMMA StepAccepted ==
  ASSUME TypeOK, TypeOK', [Next]_vars
  PROVE  [Channel!Next]_(Channel!vars)
<1>1. CASE \E t \in Threads : PutZero(t)
  <2>1. PICK t \in Threads : PutZero(t)
    BY <1>1
  <2>2. CASE Fits
    <3>1. tx_queue' = Append(tx_queue, Zero) /\ UNCHANGED <<mailbox, wire>>
      BY <2>1, <2>2 DEF PutZero, controller
    <3> QED
      BY <3>1, Accepted, PortConstants DEF Channel!Next
  <2>3. CASE ~Fits
    <3>1. UNCHANGED <<tx_queue, mailbox, wire>>
      BY <2>1, <2>3 DEF PutZero, controller
    <3> QED
      BY <3>1, Unseen
  <2> QED
    BY <2>2, <2>3
<1>2. CASE \E t \in Threads : Put(t)
  <2>1. PICK t \in Threads : Put(t)
    BY <1>2
  <2>2. /\ frame[t] \in Frames
        /\ tx_queue' = Append(tx_queue, frame[t]) /\ UNCHANGED <<mailbox, wire>>
    BY <2>1 DEF Put, controller, TypeOK
  <2> QED
    BY <2>2, Accepted DEF Channel!Next
<1>3. CASE TxIsr
  BY <1>3, HandlerUnseen
<1>4. CASE \E m \in Mailboxes : Transmit(m)
  BY <1>4, Transmitted DEF Channel!Next
<1>5. CASE /\ ~\E t \in Threads : PutZero(t) \/ Put(t)
           /\ ~TxIsr /\ ~\E m \in Mailboxes : Transmit(m)
  <2>1. UNCHANGED <<tx_queue, mailbox, wire>>
    BY <1>5 DEF Next, Write, Send, Lock, PutTimesOut, LoadIer, StoreIer, EnableTme, Raise, Unlock,
                RxIsr, Receive, Handled, BusChanges, vars, controller
  <2> QED
    BY <2>1, Unseen
<1> QED
  BY <1>1, <1>2, <1>3, <1>4, <1>5

LEMMA InitAccepted == Init => Channel!Init
<1> SUFFICES ASSUME Init PROVE Channel!Init
  OBVIOUS
<1>1. \A f \in Frames : Places(tx_queue, f) = {} /\ {m \in Mailboxes : mailbox[m] = f} = {}
  BY PortConstants DEF Init, Places
<1>2. \A f \in Frames : InQueue(f) = 0 /\ InMailbox(f) = 0
  BY <1>1, FS_EmptySet DEF InQueue, InMailbox
<1>3. Inflight = [f \in Frames |-> 0]
  BY <1>2 DEF Inflight
<1>4. wire \in Frames \X {0, 1}
  BY PortConstants DEF Init
<1> QED
  BY <1>3, <1>4 DEF Channel!Init

(* For every number of threads and mailboxes and every length of the       *)
(* queue, the driver is a channel: a frame that was accepted is in flight  *)
(* until it has gone out, and goes out once.                               *)
THEOREM PortKeepsFrames == Spec => ImplementsChannel
<1>1. TypeOK /\ TypeOK' /\ [Next]_vars => [Channel!Next]_(Channel!vars)
  BY StepAccepted
<1> QED
  BY <1>1, InitAccepted, PortTypeCorrect, PTL DEF Spec, ImplementsChannel, Channel!Spec
=============================================================================
