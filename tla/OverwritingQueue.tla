-------------------------- MODULE OverwritingQueue --------------------------
(***************************************************************************)
(* What a ring buffer promises: a queue that keeps the latest items.  An   *)
(* item put into a full queue drives out the oldest one, and the caller is *)
(* told; items come out in the order in which they were put.               *)
(***************************************************************************)
EXTENDS Naturals, Sequences

CONSTANTS Items, Capacity

VARIABLES
  queue,    \* the items, the oldest first
  returned  \* what the last call returned

vars == <<queue, returned>>

Full == Len(queue) = Capacity

Init == queue = <<>> /\ returned = <<>>

Put(item) ==
  /\ queue' = Append(IF Full THEN Tail(queue) ELSE queue, item)
  /\ returned' = <<Full>>

PutUnlessFull(item) ==
  /\ queue' = IF Full THEN queue ELSE Append(queue, item)
  /\ returned' = <<Full>>

Get ==
  IF queue = <<>>
  THEN returned' = <<FALSE>> /\ UNCHANGED queue
  ELSE returned' = <<TRUE, Head(queue)>> /\ queue' = Tail(queue)

Ask ==
  /\ returned' = <<Len(queue), queue = <<>>, Full>>
  /\ UNCHANGED queue

Clear == queue' = <<>> /\ returned' = <<>>

Next ==
  \/ \E item \in Items : Put(item) \/ PutUnlessFull(item)
  \/ Get \/ Ask \/ Clear

Spec == Init /\ [][Next]_vars
=============================================================================
