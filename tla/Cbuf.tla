-------------------------------- MODULE Cbuf ---------------------------------
(***************************************************************************)
(* The ring buffer of the library (src/src/system/cbuf.c): head and tail   *)
(* run around an array of nitems, and are equal both when it is empty and  *)
(* when it is full; the flag full tells the two apart.                     *)
(***************************************************************************)
EXTENDS Naturals, Sequences

CONSTANTS
  Items,   \* what is stored
  nitems   \* the length of the array

ASSUME CbufAssumption == nitems \in Nat \ {0}

VARIABLES
  head, tail, full,
  data,            \* the array that the caller gives to cbuf_init
  cbuf_returned    \* what the last call returned

cbufVars == <<head, tail, full, data, cbuf_returned>>

Index == 0 .. nitems - 1

CbufInit ==
  /\ head = 0 /\ tail = 0 /\ full = FALSE
  /\ data \in [Index -> Items]
  /\ cbuf_returned = <<>>

(* cbuf_advance.  Mutant: a full buffer keeps its tail.                    *)
AdvanceKeepsTail ==
  /\ head' = (head + 1) % nitems
  /\ full' = (head' = tail)
  /\ UNCHANGED tail

Advance ==
  /\ tail' = IF full THEN (tail + 1) % nitems ELSE tail
  /\ head' = (head + 1) % nitems
  /\ full' = (head' = tail')

cbuf_put(item) ==
  /\ data' = [data EXCEPT ![head] = item]
  /\ Advance
  /\ cbuf_returned' = <<full>>

cbuf_put_unless_full(item) ==
  /\ IF full THEN UNCHANGED <<head, tail, full, data>>
             ELSE data' = [data EXCEPT ![head] = item] /\ Advance
  /\ cbuf_returned' = <<full>>

cbuf_empty == ~full /\ head = tail

cbuf_get ==
  IF cbuf_empty
  THEN cbuf_returned' = <<FALSE>> /\ UNCHANGED <<head, tail, full, data>>
  ELSE /\ cbuf_returned' = <<TRUE, data[tail]>>
       /\ full' = FALSE /\ tail' = (tail + 1) % nitems
       /\ UNCHANGED <<head, data>>

cbuf_size ==
  IF full THEN nitems
  ELSE IF head >= tail THEN head - tail ELSE (nitems + head) - tail

cbuf_ask ==
  /\ cbuf_returned' = <<cbuf_size, cbuf_empty, full>>
  /\ UNCHANGED <<head, tail, full, data>>

cbuf_clear ==
  /\ head' = 0 /\ tail' = 0 /\ full' = FALSE
  /\ cbuf_returned' = <<>>
  /\ UNCHANGED data

CbufNext ==
  \/ \E item \in Items : cbuf_put(item) \/ cbuf_put_unless_full(item)
  \/ cbuf_get \/ cbuf_ask \/ cbuf_clear

CbufSpec == CbufInit /\ [][CbufNext]_cbufVars

-----------------------------------------------------------------------------
(* Properties.                                                             *)

(* Where the i-th of the stored items is, counted from 1.                  *)
Slot(i) == IF tail + i <= nitems THEN (tail + i) - 1 ELSE ((tail + i) - 1) - nitems

Content == [i \in 1 .. cbuf_size |-> data[Slot(i)]]

Queue == INSTANCE OverwritingQueue WITH
  Capacity <- nitems, queue <- Content, returned <- cbuf_returned

(* Whatever the order of the calls, and however often head and tail have   *)
(* gone around, the buffer is a queue that keeps the latest items, and     *)
(* says of itself what is so.                                              *)
KeepsLatest == Queue!Spec
=============================================================================
