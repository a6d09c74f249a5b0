---------------------------- MODULE LibraryProofs ----------------------------
(***************************************************************************)
(* Theorems about modules YawTicks and Cbuf, for every range of the        *)
(* encoder, length of the circle, speed of the arm and distance travelled, *)
(* and for every length of the ring and all items.                         *)
(***************************************************************************)
EXTENDS YawTicks, Cbuf, TLAPS

-----------------------------------------------------------------------------
(* The yaw.                                                                *)


LEMMA DivModInt ==
  ASSUME NEW x \in Int, NEW m \in Nat \ {0}
  PROVE  \E q \in Int, r \in 0 .. m - 1 : r = x % m /\ x = q * m + r
<1>1. x \div m \in Int /\ x % m \in 0 .. m - 1
  OBVIOUS
<1>2. PICK q \in Int : q = x \div m
  BY <1>1
<1>3. PICK r \in 0 .. m - 1 : r = x % m
  BY <1>1
<1>4. x = q * m + r
  BY <1>2, <1>3
<1> QED
  BY <1>3, <1>4, Zenon

(* A multiple of m that lies within m of zero is zero.                     *)
LEMMA SmallMultiple ==
  ASSUME NEW p \in Int, NEW m \in Nat \ {0}, p * m < m, p * m > -m
  PROVE  p = 0
<1>1. CASE p >= 1
  BY <1>1
<1>2. CASE p <= -1
  BY <1>2
<1> QED
  BY <1>1, <1>2

(* The remainder is the only one.                                          *)
LEMMA ModUnique ==
  ASSUME NEW x \in Int, NEW m \in Nat \ {0}, NEW k \in Int, NEW r \in 0 .. m - 1, x = k * m + r
  PROVE  x % m = r
<1>1. PICK q \in Int, s \in 0 .. m - 1 : s = x % m /\ x = q * m + s
  BY DivModInt
<1>2. (q - k) * m = r - s
  BY <1>1
<1>3. q - k \in Int /\ r - s < m /\ r - s > -m
  BY <1>1
<1>4. q - k = 0
  BY <1>2, <1>3, SmallMultiple
<1>5. r - s = 0
  BY <1>2, <1>4
<1> QED
  BY <1>1, <1>5

LEMMA Constants ==
  /\ EncoderRange \in Nat \ {0} /\ EncoderRange = 2 * HalfRange
  /\ Turn \in Nat \ {0} /\ Turn = 2 * TicksPerPi
  /\ HalfRange \in Nat /\ TicksPerPi \in Nat
BY YawAssumption DEF EncoderRange, Turn

(* The difference of two readings, sign-extended from 16 bits, is what the *)
(* arm has turned between them, if that is less than half the range.       *)
LEMMA DifferenceIsExact ==
  ASSUME NEW a \in Int, NEW b \in Int, a - b < HalfRange, a - b > -HalfRange
  PROVE  Int16((a % EncoderRange) - (b % EncoderRange)) = a - b
<1>1. PICK q \in Int, r \in 0 .. EncoderRange - 1 : r = a % EncoderRange /\ a = q * EncoderRange + r
  BY DivModInt, Constants
<1>2. PICK p \in Int, s \in 0 .. EncoderRange - 1 : s = b % EncoderRange /\ b = p * EncoderRange + s
  BY DivModInt, Constants
<1>3. (p - q) * EncoderRange = (p * EncoderRange) - (q * EncoderRange)
  BY Constants
<1>4. (r - s) + HalfRange = (p - q) * EncoderRange + ((a - b) + HalfRange)
  BY <1>1, <1>2, <1>3, Constants
<1>5. (a - b) + HalfRange \in 0 .. EncoderRange - 1
  BY Constants
<1>6. ((r - s) + HalfRange) % EncoderRange = (a - b) + HalfRange
  BY <1>4, <1>5, ModUnique, Constants
<1>7. Int16(r - s) = a - b
  <2>1. Int16(r - s) = ((a - b) + HalfRange) - HalfRange
    BY <1>6, Zenon DEF Int16
  <2> QED
    BY <2>1, Constants
<1> QED
  BY <1>1, <1>2, <1>7, Zenon

-----------------------------------------------------------------------------
(* The yaw is the arm less a number of whole turns, and the encoder shows  *)
(* where the arm was seen.                                                 *)
YawInv ==
  /\ YawTypeOK
  /\ prev_yaw_ticks = seen % EncoderRange
  /\ \E k \in Int : yaw_ticks = seen + k * Turn

LEMMA YawStep ==
  ASSUME YawInv, YawPass
  PROVE  YawInv'
<1>1. Moved(arm % EncoderRange) = arm - seen
  <2>1. arm \in Int /\ seen \in Int /\ arm - seen < HalfRange /\ arm - seen > -HalfRange
    BY YawAssumption DEF YawInv, YawTypeOK
  <2>2. Int16((arm % EncoderRange) - (seen % EncoderRange)) = arm - seen
    BY <2>1, DifferenceIsExact
  <2> QED
    BY <2>2, Zenon DEF YawInv, Moved
<1>2. yaw_ticks' = Normalize(yaw_ticks + (arm - seen))
  BY <1>1 DEF YawPass
<1>3. PICK k \in Int : yaw_ticks = seen + k * Turn
  BY DEF YawInv
<1>4. PICK y \in Int : y = yaw_ticks + (arm - seen) /\ y = arm + k * Turn
  BY <1>3, Constants DEF YawInv, YawTypeOK
<1>5. (k - 1) * Turn = k * Turn - Turn /\ (k + 1) * Turn = k * Turn + Turn /\ k * Turn \in Int
  BY Constants
<1>6. Normalize(y) \in -TicksPerPi .. TicksPerPi
  BY <1>4, Constants, YawAssumption DEF Normalize, YawInv, YawTypeOK
<1>7. \E j \in Int : Normalize(y) = arm + j * Turn
  <2>1. CASE y > TicksPerPi
    <3>1. Normalize(y) = arm + (k - 1) * Turn
      BY <1>4, <1>5, <2>1, Constants DEF Normalize, YawInv, YawTypeOK
    <3> QED
      BY <3>1
  <2>2. CASE y < -TicksPerPi
    <3>1. Normalize(y) = arm + (k + 1) * Turn
      BY <1>4, <1>5, <2>2, Constants DEF Normalize, YawInv, YawTypeOK
    <3> QED
      BY <3>1
  <2>3. CASE ~(y > TicksPerPi) /\ ~(y < -TicksPerPi)
    BY <1>4, <2>3, Zenon DEF Normalize
  <2> QED
    BY <2>1, <2>2, <2>3
<1>8. arm' = arm /\ seen' = arm /\ prev_yaw_ticks' = arm % EncoderRange /\ yaw_ticks' = Normalize(y)
  BY <1>2, <1>4 DEF YawPass
<1>9. arm % EncoderRange \in 0 .. EncoderRange - 1 /\ arm - arm = 0
  BY Constants DEF YawInv, YawTypeOK
<1>10. YawTypeOK'
  BY <1>6, <1>8, <1>9, YawAssumption DEF YawInv, YawTypeOK
<1> QED
  BY <1>7, <1>8, <1>10 DEF YawInv

LEMMA YawInductive ==
  /\ YawInit => YawInv
  /\ YawInv /\ [YawNext]_yawVars => YawInv'
<1>1. ASSUME YawInit PROVE YawInv
  <2>1. 0 % EncoderRange = 0 /\ 0 \in 0 .. EncoderRange - 1
    BY Constants
  <2>2. 0 = 0 + 0 * Turn
    BY Constants
  <2>3. YawTypeOK
    BY <1>1, <2>1, YawAssumption DEF YawInit, YawTypeOK
  <2> QED
    BY <1>1, <2>1, <2>2, <2>3 DEF YawInit, YawInv
<1>2. ASSUME YawInv, [YawNext]_yawVars PROVE YawInv'
  <2>1. ASSUME NEW d \in {-1, 1}, TurnArm(d) PROVE YawInv'
    BY <1>2, <2>1 DEF YawInv, YawTypeOK, TurnArm
  <2>2. CASE YawPass
    BY <1>2, <2>2, YawStep
  <2>3. CASE UNCHANGED yawVars
    BY <1>2, <2>3 DEF YawInv, YawTypeOK, yawVars
  <2> QED
    BY <1>2, <2>1, <2>2, <2>3 DEF YawNext
<1> QED
  BY <1>1, <1>2

(* The yaw stays on the circle.                                            *)
THEOREM YawTypeCorrect == YawSpec => []YawTypeOK
<1>1. YawInv => YawTypeOK
  BY DEF YawInv
<1> QED
  BY <1>1, YawInductive, PTL DEF YawSpec

LEMMA WholeTurns ==
  ASSUME YawInv
  PROVE  YawIsTrue
<1>1. PICK k \in Int : yaw_ticks = seen + k * Turn
  BY DEF YawInv
<1>2. k * Turn \in Int
  BY Constants
<1>3. PICK x \in Int : x = yaw_ticks - seen /\ x = k * Turn + 0
  BY <1>1, <1>2 DEF YawInv, YawTypeOK
<1>4. x % Turn = 0
  <2>1. 0 \in 0 .. Turn - 1
    BY Constants
  <2> QED
    BY <1>3, <2>1, ModUnique, Constants
<1> QED
  BY <1>3, <1>4, Zenon DEF YawIsTrue

(* The yaw is where the arm was seen, up to whole turns, however often the *)
(* encoder has wrapped.                                                    *)
THEOREM YawIsTheArm == YawSpec => []YawIsTrue
BY WholeTurns, YawInductive, PTL DEF YawSpec

-----------------------------------------------------------------------------
(* The ring buffer.                                                        *)


(* The ring is well formed: only with head on tail it is full.             *)
CbufInv ==
  /\ head \in Index /\ tail \in Index
  /\ full \in BOOLEAN /\ (full => head = tail)
  /\ data \in [Index -> Items]

(* One place further around.                                               *)
Around(x) == IF x + 1 = nitems THEN 0 ELSE x + 1

LEMMA Wrap ==
  ASSUME NEW x \in Index
  PROVE  (x + 1) % nitems = Around(x) /\ Around(x) \in Index
<1>1. nitems \in Nat \ {0} /\ x \in 0 .. nitems - 1
  BY CbufAssumption DEF Index
<1>2. CASE x + 1 = nitems
  <2>1. nitems % nitems = 0
    BY <1>1
  <2> QED
    BY <1>1, <1>2, <2>1 DEF Around, Index
<1>3. CASE x + 1 # nitems
  <2>1. x + 1 \in 0 .. nitems - 1
    BY <1>1, <1>3
  <2>2. (x + 1) % nitems = x + 1
    BY <1>1, <2>1
  <2> QED
    BY <1>1, <1>3, <2>1, <2>2 DEF Around, Index
<1> QED
  BY <1>2, <1>3

LEMMA Inductive ==
  /\ CbufInit => CbufInv
  /\ CbufInv /\ [CbufNext]_cbufVars => CbufInv'
<1>1. ASSUME CbufInit PROVE CbufInv
  <2>1. 0 \in Index
    BY CbufAssumption DEF Index
  <2> QED
    BY <1>1, <2>1 DEF CbufInit, CbufInv
<1>2. ASSUME CbufInv, [CbufNext]_cbufVars PROVE CbufInv'
  <2>1. 0 \in Index
    BY CbufAssumption DEF Index
  <2>2. ASSUME NEW item \in Items, data' = [data EXCEPT ![head] = item], Advance
        PROVE  CbufInv'
    <3>1. head' \in Index /\ tail' \in Index
      BY <1>2, <2>2, Wrap DEF CbufInv, Advance
    <3> QED
      BY <1>2, <2>2, <3>1 DEF CbufInv, Advance
  <2>3. ASSUME NEW item \in Items, cbuf_put(item) PROVE CbufInv'
    BY <2>2, <2>3 DEF cbuf_put
  <2>4. ASSUME NEW item \in Items, cbuf_put_unless_full(item) PROVE CbufInv'
    <3>1. CASE full
      BY <1>2, <2>4, <3>1 DEF cbuf_put_unless_full, CbufInv
    <3>2. CASE ~full
      BY <2>2, <2>4, <3>2 DEF cbuf_put_unless_full
    <3> QED
      BY <3>1, <3>2
  <2>5. CASE cbuf_get
    BY <1>2, <2>5, Wrap DEF cbuf_get, CbufInv
  <2>6. CASE cbuf_ask \/ UNCHANGED cbufVars
    BY <1>2, <2>6 DEF cbuf_ask, cbufVars, CbufInv
  <2>7. CASE cbuf_clear
    BY <1>2, <2>1, <2>7 DEF cbuf_clear, CbufInv
  <2> QED
    BY <1>2, <2>3, <2>4, <2>5, <2>6, <2>7 DEF CbufNext
<1> QED
  BY <1>1, <1>2

-----------------------------------------------------------------------------
(* The content as a sequence.                                              *)

LEMMA SizeBounds ==
  ASSUME CbufInv
  PROVE  /\ cbuf_size \in 0 .. nitems
         /\ full <=> cbuf_size = nitems
         /\ cbuf_empty <=> cbuf_size = 0
BY CbufAssumption DEF CbufInv, Index, cbuf_size, cbuf_empty

LEMMA SlotBounds ==
  ASSUME CbufInv, NEW i \in 1 .. nitems
  PROVE  Slot(i) \in Index
BY CbufAssumption DEF CbufInv, Index, Slot

ContentFacts ==
  /\ cbuf_size \in Nat
  /\ Content \in Seq(Items) /\ Len(Content) = cbuf_size
  /\ \A i \in 1 .. cbuf_size : Content[i] = data[Slot(i)]

LEMMA ContentIs == CbufInv => ContentFacts
<1> SUFFICES ASSUME CbufInv PROVE ContentFacts
  OBVIOUS
<1>1. \A i \in 1 .. cbuf_size : data[Slot(i)] \in Items
  <2> TAKE i \in 1 .. cbuf_size
  <2>1. i \in 1 .. nitems
    BY SizeBounds, CbufAssumption
  <2> QED
    BY <2>1, SlotBounds DEF CbufInv
<1>2. cbuf_size \in Nat
  BY SizeBounds
<1>3. Content \in [1 .. cbuf_size -> Items]
  BY <1>1 DEF Content
<1>4. Content \in Seq(Items) /\ Len(Content) = cbuf_size
  BY <1>2, <1>3
<1> QED
  BY <1>2, <1>4 DEF Content, ContentFacts

(* Two sequences are equal item by item.                                   *)
LEMMA SameItems ==
  ASSUME NEW S, NEW s \in Seq(S), NEW t \in Seq(S), Len(s) = Len(t),
         \A i \in 1 .. Len(s) : s[i] = t[i]
  PROVE  s = t
OBVIOUS

(* With room, an item is appended.                                         *)
LEMMA Appends ==
  ASSUME CbufInv, CbufInv', NEW item \in Items, ~full,
         data' = [data EXCEPT ![head] = item], Advance
  PROVE  Content' = Append(Content, item)
<1>1. head' = Around(head) /\ tail' = tail /\ (full' <=> head' = tail)
  BY Wrap DEF CbufInv, Advance
<1>2. cbuf_size' = cbuf_size + 1
  BY <1>1, CbufAssumption DEF CbufInv, Index, cbuf_size, Around
<1>3. Slot(cbuf_size + 1) = head /\ \A i \in 1 .. cbuf_size : Slot(i) # head
  BY CbufAssumption DEF CbufInv, Index, cbuf_size, Slot
<1>4. \A i : Slot(i)' = Slot(i)
  BY <1>1 DEF Slot
<1>5. ContentFacts /\ ContentFacts'
  BY ContentIs, PTL
<1>6. /\ Content' \in Seq(Items) /\ Len(Content') = cbuf_size + 1
      /\ \A i \in 1 .. cbuf_size + 1 : Content'[i] = data'[Slot(i)]
  BY <1>2, <1>4, <1>5 DEF ContentFacts
<1>7. \A i \in 1 .. cbuf_size : data'[Slot(i)] = Content[i]
  BY <1>3, <1>5, SlotBounds, SizeBounds DEF ContentFacts, CbufInv
<1>8. data'[Slot(cbuf_size + 1)] = item
  BY <1>3 DEF CbufInv
<1> QED
  BY <1>5, <1>6, <1>7, <1>8, SameItems DEF ContentFacts

(* Without, the oldest goes.                                               *)
LEMMA DrivesOut ==
  ASSUME CbufInv, CbufInv', NEW item \in Items, full,
         data' = [data EXCEPT ![head] = item], Advance
  PROVE  Content' = Append(Tail(Content), item)
<1>1. head' = Around(head) /\ tail' = head' /\ head = tail /\ full'
  BY Wrap DEF CbufInv, Advance
<1>2. cbuf_size = nitems /\ cbuf_size' = nitems
  BY <1>1 DEF cbuf_size
<1>3. /\ Slot(nitems)' = head
      /\ \A i \in 1 .. nitems - 1 : Slot(i)' = Slot(i + 1) /\ Slot(i + 1) # head
  BY <1>1, CbufAssumption DEF CbufInv, Index, Slot, Around
<1>4. ContentFacts /\ ContentFacts'
  BY ContentIs, PTL
<1>5. \A i \in 1 .. nitems - 1 : Content'[i] = Content[i + 1]
  <2> TAKE i \in 1 .. nitems - 1
  <2>1. Slot(i + 1) \in Index /\ Slot(i + 1) # head
    BY <1>3, SlotBounds, CbufAssumption
  <2>2. data'[Slot(i + 1)] = data[Slot(i + 1)]
    BY <2>1 DEF CbufInv
  <2> QED
    BY <1>2, <1>3, <1>4, <2>2, CbufAssumption DEF ContentFacts
<1>6. Content'[nitems] = item
  BY <1>2, <1>3, <1>4, CbufAssumption DEF ContentFacts, CbufInv
<1>7. /\ Append(Tail(Content), item) \in Seq(Items)
      /\ Len(Append(Tail(Content), item)) = nitems
      /\ \A i \in 1 .. nitems - 1 : Append(Tail(Content), item)[i] = Content[i + 1]
      /\ Append(Tail(Content), item)[nitems] = item
  BY <1>2, <1>4, CbufAssumption DEF ContentFacts
<1> QED
  BY <1>2, <1>4, <1>5, <1>6, <1>7, SameItems, CbufAssumption DEF ContentFacts

(* An item that is taken is the oldest.                                    *)
LEMMA Takes ==
  ASSUME CbufInv, CbufInv', ~cbuf_empty, full' = FALSE, tail' = (tail + 1) % nitems,
         UNCHANGED <<head, data>>
  PROVE  Content # <<>> /\ Head(Content) = data[tail] /\ Content' = Tail(Content)
<1>1. tail' = Around(tail)
  BY Wrap DEF CbufInv
<1>2. cbuf_size \in Nat \ {0} /\ cbuf_size' = cbuf_size - 1
  BY <1>1, CbufAssumption DEF CbufInv, Index, cbuf_size, cbuf_empty, Around
<1>3. Slot(1) = tail /\ \A i \in 1 .. cbuf_size - 1 : Slot(i)' = Slot(i + 1)
  <2>1. Slot(1) = tail
    BY CbufAssumption DEF CbufInv, Index, Slot
  <2>2. ASSUME NEW i \in 1 .. cbuf_size - 1 PROVE Slot(i)' = Slot(i + 1)
    <3>1. i \in 1 .. nitems - 1
      BY <1>2, SizeBounds, CbufAssumption
    <3> QED
      BY <1>1, <3>1, CbufAssumption DEF CbufInv, Index, Slot, Around
  <2> QED
    BY <2>1, <2>2
<1>4. ContentFacts /\ ContentFacts'
  BY ContentIs, PTL
<1>5. Content # <<>> /\ Head(Content) = data[tail]
  BY <1>2, <1>3, <1>4 DEF ContentFacts
<1>6. Tail(Content) \in Seq(Items) /\ Len(Tail(Content)) = cbuf_size - 1
  BY <1>2, <1>4 DEF ContentFacts
<1>7. \A i \in 1 .. cbuf_size - 1 : Content'[i] = Tail(Content)[i]
  <2> TAKE i \in 1 .. cbuf_size - 1
  <2>1. Tail(Content)[i] = Content[i + 1]
    BY <1>2, <1>4 DEF ContentFacts
  <2>2. Content[i + 1] = data[Slot(i + 1)] /\ Content'[i] = data'[Slot(i)']
    BY <1>2, <1>4 DEF ContentFacts
  <2> QED
    BY <1>3, <2>1, <2>2
<1> QED
  BY <1>2, <1>4, <1>5, <1>6, <1>7, SameItems DEF ContentFacts

LEMMA Emptied ==
  ASSUME CbufInv
  PROVE  /\ cbuf_size = 0 <=> Content = <<>>
         /\ full = Queue!Full
         /\ cbuf_empty = (Content = <<>>)
         /\ cbuf_size = Len(Content)
<1>1. ContentFacts
  BY ContentIs
<1>2. cbuf_size = 0 <=> Content = <<>>
  BY <1>1 DEF ContentFacts
<1>3. full <=> Queue!Full
  BY <1>1, SizeBounds DEF ContentFacts, Queue!Full
<1>4. full = Queue!Full
  BY <1>3, Zenon DEF CbufInv, Queue!Full
<1>5. cbuf_empty <=> Content = <<>>
  BY <1>2, SizeBounds
<1>6. cbuf_empty = (Content = <<>>)
  BY <1>5, Zenon DEF cbuf_empty
<1> QED
  BY <1>1, <1>2, <1>4, <1>6 DEF ContentFacts

-----------------------------------------------------------------------------
(* Step by step, the ring buffer is the queue.                             *)

LEMMA InitRefines ==
  ASSUME CbufInit
  PROVE  Queue!Init
<1>1. CbufInv
  BY Inductive
<1>2. cbuf_size = 0
  BY CbufAssumption DEF CbufInit, cbuf_size
<1> QED
  BY <1>1, <1>2, Emptied DEF CbufInit, Queue!Init

LEMMA StepRefines ==
  ASSUME CbufInv, CbufInv', [CbufNext]_cbufVars
  PROVE  [Queue!Next]_<<Content, cbuf_returned>>
<1>1. ASSUME NEW item \in Items, cbuf_put(item) PROVE Queue!Put(item)
  <2>1. CASE full
    BY <1>1, <2>1, DrivesOut, Emptied DEF cbuf_put, Queue!Put
  <2>2. CASE ~full
    <3>1. Content' = Append(Content, item)
      BY <1>1, <2>2, Appends DEF cbuf_put
    <3>2. ~Queue!Full
      BY <2>2, Emptied
    <3> QED
      BY <1>1, <2>2, <3>1, <3>2, Emptied DEF cbuf_put, Queue!Put
  <2> QED
    BY <2>1, <2>2
<1>2. ASSUME UNCHANGED <<head, tail, full, data>> PROVE Content' = Content
  BY <1>2 DEF Content, cbuf_size, Slot
<1>3. ASSUME NEW item \in Items, cbuf_put_unless_full(item) PROVE Queue!PutUnlessFull(item)
  <2>1. CASE full
    BY <1>2, <1>3, <2>1, Emptied DEF cbuf_put_unless_full, Queue!PutUnlessFull
  <2>2. CASE ~full
    <3>1. Content' = Append(Content, item)
      BY <1>3, <2>2, Appends DEF cbuf_put_unless_full
    <3>2. ~Queue!Full
      BY <2>2, Emptied
    <3> QED
      BY <1>3, <2>2, <3>1, <3>2, Emptied DEF cbuf_put_unless_full, Queue!PutUnlessFull
  <2> QED
    BY <2>1, <2>2
<1>4. CASE cbuf_get
  <2>1. CASE cbuf_empty
    BY <1>2, <1>4, <2>1, Emptied DEF cbuf_get, Queue!Get, Queue!Next
  <2>2. CASE ~cbuf_empty
    BY <1>4, <2>2, Takes DEF cbuf_get, Queue!Get, Queue!Next
  <2> QED
    BY <2>1, <2>2
<1>5. CASE cbuf_ask
  BY <1>2, <1>5, Emptied DEF cbuf_ask, Queue!Ask, Queue!Next
<1>6. CASE cbuf_clear
  <2>1. cbuf_size' = 0
    BY <1>6, CbufAssumption DEF cbuf_clear, cbuf_size
  <2>2. ContentFacts'
    BY ContentIs, PTL
  <2>3. Content' = <<>>
    BY <2>1, <2>2 DEF ContentFacts
  <2> QED
    BY <1>6, <2>3 DEF cbuf_clear, Queue!Clear, Queue!Next
<1>7. CASE UNCHANGED cbufVars
  BY <1>2, <1>7 DEF cbufVars
<1> QED
  BY <1>1, <1>3, <1>4, <1>5, <1>6, <1>7 DEF CbufNext, Queue!Next

(* The ring buffer of any length is a queue that keeps the latest items    *)
(* and answers truly how many they are and whether it is full or empty.    *)
THEOREM CbufKeepsLatest == CbufSpec => KeepsLatest
<1>1. CbufSpec => []CbufInv
  BY Inductive, PTL DEF CbufSpec
<1>2. CbufInit => Queue!Init
  BY InitRefines
<1>3. CbufInv /\ CbufInv' /\ [CbufNext]_cbufVars => [Queue!Next]_<<Content, cbuf_returned>>
  BY StepRefines
<1> QED
  BY <1>1, <1>2, <1>3, PTL DEF CbufSpec, KeepsLatest, Queue!Spec, Queue!vars
=============================================================================
