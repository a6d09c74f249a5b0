------------------------------ MODULE CanPort -------------------------------
(***************************************************************************)
(* The CAN driver of the STM32F4 and the dispatcher                        *)
(* (src/src/system/stm32f4xx/stm32_can.c, src/src/system/can.c): threads   *)
(* that write frames to a queue, the transmit interrupt that moves them to *)
(* the mailboxes of the controller, and the dispatcher's thread, which     *)
(* takes what the receive interrupt has queued and may have to answer.     *)
(*                                                                         *)
(* The interrupt level is that of the request-completed flags: a mailbox   *)
(* that was never used does not raise it, so each write raises it by       *)
(* software.  The interrupt enable register is read, modified and written  *)
(* back by threads while interrupt handlers do the same.  Interrupts may   *)
(* be held off for a while; handlers do not interrupt each other.          *)
(***************************************************************************)
EXTENDS Naturals, Sequences, FiniteSets

CONSTANTS
  Senders,    \* threads that send of their own accord
  Dispatcher, \* the thread of the dispatcher
  Frames,     \* frames that are sent; which is which of one kind does not matter
  Zero,       \* the empty frame with which an error passive port tries the bus
  TxLen,      \* length of the transmit queue
  RxLen,      \* length of the receive queue
  Mailboxes   \* 0 .. 2

Empty == "empty"
NoThread == "none"

ASSUME PortAssumption ==
  /\ Dispatcher \notin Senders /\ NoThread \notin Senders \cup {Dispatcher}
  /\ Zero \in Frames /\ Empty \notin Frames
  /\ TxLen \in Nat \ {0} /\ RxLen \in Nat \ {0}
  /\ Mailboxes \subseteq Nat /\ IsFiniteSet(Mailboxes) /\ Mailboxes # {}

Threads == Senders \cup {Dispatcher}

VARIABLES
  pc,        \* where each thread is
  frame,     \* the frame that each thread sends
  lock,      \* the holder of self->lock
  tx_queue,  \* self->tx_queue
  mailbox,   \* the controller's mailboxes
  rqcp,      \* those whose last request is completed: TSR.RQCP0..2
  tmeie,     \* IER.TMEIE
  ier,       \* TMEIE as a thread has loaded it to write it back
  stir,      \* the transmit interrupt is made pending by software
  passive,   \* ESR.EPVF: the port is error passive, the bus does not work
  rx_queue,  \* how many frames wait in self->rx_queue
  wire       \* history: the last frame transmitted, and a bit that tells it from the one before

controller == <<mailbox, rqcp, passive, wire>>
vars == <<pc, frame, lock, tx_queue, controller, tmeie, ier, stir, rx_queue>>

Init ==
  /\ pc = [t \in Threads |-> "idle"]
  /\ frame = [t \in Threads |-> Zero]
  /\ lock = NoThread
  /\ tx_queue = <<>>
  /\ mailbox = [m \in Mailboxes |-> Empty]
  /\ rqcp = {} /\ tmeie = TRUE /\ ier = FALSE /\ stir = FALSE
  /\ passive = FALSE /\ rx_queue = 0
  /\ wire = <<Zero, 0>>

Goto(t, from, to) == pc[t] = from /\ pc' = [pc EXCEPT ![t] = to]

-----------------------------------------------------------------------------
(* can_send.                                                               *)

(* A sender, or the listener that answers the frame it is called with.     *)
Send(t, f) ==
  /\ Goto(t, IF t = Dispatcher THEN "handle" ELSE "idle", "lock")
  /\ frame' = [frame EXCEPT ![t] = f]
  /\ UNCHANGED <<lock, tx_queue, controller, tmeie, ier, stir, rx_queue>>

Lock(t) ==
  /\ lock = NoThread /\ lock' = t
  /\ Goto(t, "lock", IF passive THEN "zero" ELSE "put")
  /\ UNCHANGED <<frame, tx_queue, controller, tmeie, ier, stir, rx_queue>>

(* Mutant: one frame too many.                                             *)
FitsOneMore == Len(tx_queue) <= TxLen

Fits == Len(tx_queue) < TxLen

(* On an error passive port the frame is replaced by an empty one, which   *)
(* is queued if there is room.                                             *)
PutZero(t) ==
  /\ Goto(t, "zero", "enable")
  /\ tx_queue' = IF Fits THEN Append(tx_queue, Zero) ELSE tx_queue
  /\ frame' = [frame EXCEPT ![t] = Zero]
  /\ UNCHANGED <<lock, controller, tmeie, ier, stir, rx_queue>>

Put(t) ==
  /\ Goto(t, "put", "load") /\ Fits
  /\ tx_queue' = Append(tx_queue, frame[t])
  /\ frame' = [frame EXCEPT ![t] = Zero]
  /\ UNCHANGED <<lock, controller, tmeie, ier, stir, rx_queue>>

(* Mutant: a write that times out keeps the lock.                          *)
PutTimesOutLocked(t) ==
  /\ Goto(t, "put", "idle") /\ ~Fits
  /\ frame' = [frame EXCEPT ![t] = Zero]
  /\ UNCHANGED <<lock, tx_queue, controller, tmeie, ier, stir, rx_queue>>

(* The queue stays full for as long as the caller wants to wait.           *)
PutTimesOut(t) ==
  /\ Goto(t, "put", "unlock") /\ ~Fits
  /\ frame' = [frame EXCEPT ![t] = Zero]
  /\ UNCHANGED <<lock, tx_queue, controller, tmeie, ier, stir, rx_queue>>

(* The error interrupts are enabled: the register is loaded ...            *)
LoadIer(t) ==
  /\ Goto(t, "load", "store")
  /\ ier' = tmeie
  /\ UNCHANGED <<frame, lock, tx_queue, controller, tmeie, stir, rx_queue>>

(* ... and stored with TMEIE as it was then.                               *)
StoreIer(t) ==
  /\ Goto(t, "store", "enable")
  /\ tmeie' = ier /\ ier' = FALSE
  /\ UNCHANGED <<frame, lock, tx_queue, controller, stir, rx_queue>>

(* Mutant: the interrupt stays disabled if it was when it was loaded.      *)
EnableTmeMissing(t) ==
  /\ Goto(t, "enable", "raise")
  /\ UNCHANGED <<frame, lock, tx_queue, controller, tmeie, ier, stir, rx_queue>>

EnableTme(t) ==
  /\ Goto(t, "enable", "raise")
  /\ tmeie' = TRUE
  /\ UNCHANGED <<frame, lock, tx_queue, controller, ier, stir, rx_queue>>

(* Mutant: only the controller raises the interrupt.                       *)
RaiseNothing(t) ==
  /\ Goto(t, "raise", "unlock")
  /\ UNCHANGED <<frame, lock, tx_queue, controller, tmeie, ier, stir, rx_queue>>

Raise(t) ==
  /\ Goto(t, "raise", "unlock")
  /\ stir' = TRUE
  /\ UNCHANGED <<frame, lock, tx_queue, controller, tmeie, ier, rx_queue>>

Unlock(t) ==
  /\ Goto(t, "unlock", "idle")
  /\ lock' = NoThread
  /\ UNCHANGED <<frame, tx_queue, controller, tmeie, ier, stir, rx_queue>>

-----------------------------------------------------------------------------
(* The interrupts.                                                         *)

Free == {m \in Mailboxes : mailbox[m] = Empty}
Lowest(s) == CHOOSE m \in s : \A n \in s : m <= n

(* Mutant: the handler does not look whether a mailbox is free.            *)
TxIsrBlind ==
  /\ stir \/ (tmeie /\ rqcp # {})
  /\ stir' = FALSE
  /\ IF tx_queue = <<>> THEN tmeie' = FALSE /\ UNCHANGED <<tx_queue, mailbox, rqcp>>
     ELSE /\ tx_queue' = Tail(tx_queue)
          /\ IF Free = {} THEN UNCHANGED <<mailbox, rqcp>>
             ELSE /\ mailbox' = [mailbox EXCEPT ![Lowest(Free)] = Head(tx_queue)]
                  /\ rqcp' = rqcp \ {Lowest(Free)}
          /\ UNCHANGED tmeie
  /\ UNCHANGED <<pc, frame, lock, passive, wire, ier, rx_queue>>

(* _can_tx_isr: with a mailbox free, the next frame goes into the lowest   *)
(* of them, which withdraws its completion; without a frame the interrupt  *)
(* is disabled.                                                            *)
TxIsr ==
  /\ stir \/ (tmeie /\ rqcp # {})
  /\ stir' = FALSE
  /\ CASE Free = {} -> UNCHANGED <<tx_queue, mailbox, rqcp, tmeie>>
       [] Free # {} /\ tx_queue = <<>> -> tmeie' = FALSE /\ UNCHANGED <<tx_queue, mailbox, rqcp>>
       [] Free # {} /\ tx_queue # <<>> ->
            /\ tx_queue' = Tail(tx_queue)
            /\ mailbox' = [mailbox EXCEPT ![Lowest(Free)] = Head(tx_queue)]
            /\ rqcp' = rqcp \ {Lowest(Free)}
            /\ UNCHANGED tmeie
  /\ UNCHANGED <<pc, frame, lock, passive, wire, ier, rx_queue>>

(* A frame comes in, and is dropped if the queue is full.                  *)
RxIsr ==
  /\ rx_queue' = IF rx_queue < RxLen THEN rx_queue + 1 ELSE rx_queue
  /\ UNCHANGED <<pc, frame, lock, tx_queue, controller, tmeie, ier, stir>>

-----------------------------------------------------------------------------
(* The dispatcher's loop.                                                  *)

Receive ==
  /\ rx_queue > 0 /\ rx_queue' = rx_queue - 1
  /\ Goto(Dispatcher, "idle", "handle")
  /\ UNCHANGED <<frame, lock, tx_queue, controller, tmeie, ier, stir>>

(* The listeners have nothing to send.                                     *)
Handled ==
  /\ Goto(Dispatcher, "handle", "idle")
  /\ UNCHANGED <<frame, lock, tx_queue, controller, tmeie, ier, stir, rx_queue>>

-----------------------------------------------------------------------------
(* The controller and the bus.  An error passive port repeats its frames;  *)
(* with a working bus it transmits the frame of any mailbox, since other   *)
(* identifiers may go first.                                               *)

Transmit(m) ==
  /\ mailbox[m] # Empty /\ ~passive
  /\ mailbox' = [mailbox EXCEPT ![m] = Empty]
  /\ rqcp' = rqcp \cup {m}
  /\ wire' = <<mailbox[m], 1 - wire[2]>>
  /\ UNCHANGED <<pc, frame, lock, tx_queue, passive, tmeie, ier, stir, rx_queue>>

BusChanges ==
  /\ passive' = ~passive
  /\ UNCHANGED <<pc, frame, lock, tx_queue, mailbox, rqcp, wire, tmeie, ier, stir, rx_queue>>

-----------------------------------------------------------------------------
Write(t) ==
  \/ PutZero(t) \/ Put(t) \/ PutTimesOut(t)
  \/ LoadIer(t) \/ StoreIer(t) \/ EnableTme(t) \/ Raise(t) \/ Unlock(t)

Next ==
  \/ \E t \in Threads, f \in Frames \ {Zero} : Send(t, f)
  \/ \E t \in Threads : Lock(t) \/ Write(t)
  \/ TxIsr \/ RxIsr
  \/ Receive \/ Handled
  \/ \E m \in Mailboxes : Transmit(m)
  \/ BusChanges

Spec == Init /\ [][Next]_vars

(* Threads run and interrupts are delivered.  The senders are periodic     *)
(* threads that sleep without the lock, so whoever waits for it gets it.   *)
(* A working bus transmits.                                                *)
Fairness ==
  /\ \A t \in Threads : WF_vars(Write(t)) /\ SF_vars(Lock(t))
  /\ WF_vars(Receive) /\ WF_vars(Handled \/ \E f \in Frames : Send(Dispatcher, f))
  /\ WF_vars(TxIsr)
  /\ \A m \in Mailboxes : WF_vars(Transmit(m))

FairSpec == Spec /\ Fairness

-----------------------------------------------------------------------------
(* Properties.                                                             *)

TypeOK ==
  /\ pc \in [Threads -> {"idle", "handle", "lock", "zero", "put", "load", "store", "enable", "raise", "unlock"}]
  /\ frame \in [Threads -> Frames]
  /\ lock \in Threads \cup {NoThread}
  /\ tx_queue \in Seq(Frames) /\ Len(tx_queue) <= TxLen
  /\ mailbox \in [Mailboxes -> Frames \cup {Empty}]
  /\ rqcp \subseteq Mailboxes
  /\ {tmeie, ier, stir, passive} \subseteq BOOLEAN
  /\ rx_queue \in 0 .. RxLen
  /\ wire \in Frames \X {0, 1}

Places(q, f) == {i \in 1 .. Len(q) : q[i] = f}

InQueue(f) == Cardinality(Places(tx_queue, f))
InMailbox(f) == Cardinality({m \in Mailboxes : mailbox[m] = f})

Inflight == [f \in Frames |-> InQueue(f) + InMailbox(f)]

Channel == INSTANCE CanChannel WITH
  Capacity <- TxLen + Cardinality(Mailboxes), inflight <- Inflight

(* Between queue, mailboxes and wire no frame is lost or sent twice: the   *)
(* handler never takes a frame that no mailbox has room for (txdrop stays  *)
(* zero), however it falls between the writers' steps.                     *)
ImplementsChannel == Channel!Spec

At(t, labels) == pc[t] \in labels
Occupied == {m \in Mailboxes : mailbox[m] # Empty}

(* No wake-up is lost.  A frame in the queue has someone who will see to   *)
(* it: the handler is pending, or it is enabled and a mailbox has completed *)
(* or will complete, or a writer has yet to enable or to raise it.  So it  *)
(* is in every interleaving of the writers' loads and stores of the enable *)
(* register with the handler, which disables itself.                       *)
NoFrameForgotten ==
  tx_queue # <<>> =>
    \/ stir
    \/ tmeie /\ (rqcp # {} \/ Occupied # {})
    \/ \E t \in Threads : At(t, {"load", "store", "enable", "raise"})

Drained == tx_queue = <<>> /\ \A m \in Mailboxes : mailbox[m] = Empty
Resting == \A t \in Senders : pc[t] = "idle"

(* Frames do not wait for the next write: once nobody sends and the bus    *)
(* works, what is queued goes out, although the interrupt is disabled and  *)
(* enabled by a register that threads and handlers overwrite for each other. *)
QueueDrains ==
  <>[](~passive /\ Resting /\ pc[Dispatcher] \in {"idle", "handle"}) => <>[]Drained

(* The dispatcher always comes back to its queue, whatever the bus does:   *)
(* a sender that waits for room in the transmit queue holds the lock, but  *)
(* not for ever.                                                           *)
DispatcherMovesOn == []<>(pc[Dispatcher] = "idle")
=============================================================================
