----------------------------- MODULE CanopenPdo -----------------------------
(***************************************************************************)
(* Process data objects of the CANopen driver                              *)
(* (src/src/driver/can/canopen.c): an entry of the profile's txpdo or      *)
(* rxpdo table, the dictionary writes that configure it, what a            *)
(* transmission reads by it and what a reception writes by it.             *)
(*                                                                         *)
(* A PDO carries no names: the producer fills the frame by its mapping and *)
(* the consumer takes it apart by its own.  Every mapped object here has   *)
(* two bytes, and every PDO type is CYCLIC(1): due on every SYNC.          *)
(***************************************************************************)
EXTENDS Naturals, Sequences, FiniteSets

CONSTANTS
  Objects,   \* what can be mapped
  MapSize,   \* CANOPEN_DEFAULT_PDO_MAP_COUNT
  NoObject   \* an empty slot of a mapping

ASSUME PdoAssumption == MapSize \in Nat /\ NoObject \notin Objects

Slots == 1 .. MapSize

(* The part of an entry that the driver acts upon; cob is known by whether *)
(* it was ever set and whether its highest bit disables it.                *)
Entries ==
  [cob : {"none", "disabled", "enabled"}, cyclic : BOOLEAN,
   map : [Slots -> Objects \cup {NoObject}], map_entries : 0 .. MapSize]

(* An entry after a restart: kzmalloc.                                     *)
Blank ==
  [cob |-> "none", cyclic |-> FALSE, map |-> [s \in Slots |-> NoObject], map_entries |-> 0]

(* _canopen_pdo_configure for the mapping m, which writes, in this order,  *)
(* cob_id with the disabled bit, the type, no entries, each slot, the      *)
(* number of entries, and cob_id.  The times that it writes too are used   *)
(* nowhere.                                                                *)
Steps(m) == 1 .. Len(m) + 5

(* Mutant: the number of entries is written before the slots.              *)
WrittenCountFirst(e, m, n) ==
  CASE n = 1 -> [e EXCEPT !.cob = "disabled"]
    [] n = 2 -> [e EXCEPT !.cyclic = TRUE]
    [] n = 3 -> [e EXCEPT !.map_entries = Len(m)]
    [] n \in 4 .. Len(m) + 3 -> [e EXCEPT !.map[n - 3] = m[n - 3]]
    [] n = Len(m) + 4 -> [e EXCEPT !.map_entries = Len(m)]
    [] n = Len(m) + 5 -> [e EXCEPT !.cob = "enabled"]

(* Mutant: the zero that ends the mapping is counted with it.              *)
WrittenCountsEnd(e, m, n) ==
  CASE n = 1 -> [e EXCEPT !.cob = "disabled"]
    [] n = 2 -> [e EXCEPT !.cyclic = TRUE]
    [] n = 3 -> [e EXCEPT !.map_entries = 0]
    [] n \in 4 .. Len(m) + 3 -> [e EXCEPT !.map[n - 3] = m[n - 3]]
    [] n = Len(m) + 4 -> [e EXCEPT !.map_entries = Len(m) + 1]
    [] n = Len(m) + 5 -> [e EXCEPT !.cob = "enabled"]

(* Mutant: the PDO is left disabled.                                       *)
WrittenDisabled(e, m, n) ==
  CASE n = 1 -> [e EXCEPT !.cob = "disabled"]
    [] n = 2 -> [e EXCEPT !.cyclic = TRUE]
    [] n = 3 -> [e EXCEPT !.map_entries = 0]
    [] n \in 4 .. Len(m) + 3 -> [e EXCEPT !.map[n - 3] = m[n - 3]]
    [] n = Len(m) + 4 -> [e EXCEPT !.map_entries = Len(m)]
    [] n = Len(m) + 5 -> e

Written(e, m, n) ==
  CASE n = 1 -> [e EXCEPT !.cob = "disabled"]
    [] n = 2 -> [e EXCEPT !.cyclic = TRUE]
    [] n = 3 -> [e EXCEPT !.map_entries = 0]
    [] n \in 4 .. Len(m) + 3 -> [e EXCEPT !.map[n - 3] = m[n - 3]]
    [] n = Len(m) + 4 -> [e EXCEPT !.map_entries = Len(m)]
    [] n = Len(m) + 5 -> [e EXCEPT !.cob = "enabled"]

(* _send_pending_pdos on a SYNC.  Whether the entry is disabled is not     *)
(* asked: the bit makes the identifier an extended one, of which receivers *)
(* look at the lower eleven bits.                                          *)
IsDue(e) == e.map_entries > 0 /\ e.cyclic /\ e.cob # "none"

(* The objects whose values make up the frame; an empty slot adds nothing. *)
Occupied(e) == {s \in 1 .. e.map_entries : e.map[s] # NoObject}
Place(e, s) == Cardinality({t \in Occupied(e) : t <= s})
Frame(e) ==
  [n \in 1 .. Cardinality(Occupied(e)) |-> e.map[CHOOSE s \in Occupied(e) : Place(e, s) = n]]

(* _canopen_handle_message: the slots up to the first empty one are filled *)
(* from the frame, whose length is not looked at.  Pairs of the object     *)
(* that was read and the object that is written.                           *)
Deliveries(e, frame) ==
  {<<IF s <= Len(frame) THEN frame[s] ELSE NoObject, e.map[s]>> :
     s \in {t \in 1 .. e.map_entries : e.cob = "enabled" /\ \A u \in 1 .. t : e.map[u] # NoObject}}
=============================================================================
