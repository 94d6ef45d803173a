----------------------------- MODULE FaultProofs -----------------------------
(***************************************************************************)
(* Proofs about FaultInjection for every window, index space, request,     *)
(* number of faults and sessions, and any loss on the line.                *)
(***************************************************************************)
EXTENDS FaultInjection, TLAPS, SequenceTheorems, WellFoundedInduction

-----------------------------------------------------------------------------
(* Remainders. *)

LEMMA SmallMultiple ==
  ASSUME NEW m \in Nat \ {0}, NEW x \in Int, x * m < m, x * m > -m
  PROVE  x = 0
<1>1. CASE x >= 1
  <2>1. x * m = m + (x - 1) * m
    OBVIOUS
  <2>2. (x - 1) * m >= 0
    BY <1>1
  <2> QED
    BY <2>1, <2>2
<1>2. CASE x <= -1
  <2>1. x * m = (x + 1) * m - m
    OBVIOUS
  <2>2. (x + 1) * m <= 0
    BY <1>2
  <2> QED
    BY <2>1, <2>2
<1> QED
  BY <1>1, <1>2

LEMMA Division ==
  ASSUME NEW m \in Nat \ {0}, NEW a \in Int
  PROVE  a \div m \in Int /\ a = (a \div m) * m + (a % m)
OBVIOUS

(* Numbers closer than the modulus have different remainders. *)
LEMMA SameRemainder ==
  ASSUME NEW m \in Nat \ {0}, NEW a \in Int, NEW b \in Int,
         a - b < m, b - a < m, a % m = b % m
  PROVE  a = b
<1>1. PICK qa \in Int : a = qa * m + (a % m)
  BY Division
<1>2. PICK qb \in Int : b = qb * m + (b % m)
  BY Division
<1>3. a % m \in Int
  OBVIOUS
<1> DEFINE d == qa - qb
<1>4. d \in Int /\ d * m = qa * m - qb * m /\ qa * m \in Int /\ qb * m \in Int
  OBVIOUS
<1> HIDE DEF d
<1>5. d * m = a - b /\ d * m \in Int
  BY <1>1, <1>2, <1>3, <1>4
<1>6. d = 0
  BY <1>4, <1>5, SmallMultiple
<1> QED
  BY <1>5, <1>6

LEMMA RemainderRange ==
  ASSUME NEW m \in Nat \ {0}, NEW a \in Int
  PROVE  a % m \in 0 .. m - 1
OBVIOUS

LEMMA RemainderSmall ==
  ASSUME NEW m \in Nat \ {0}, NEW a \in 0 .. m - 1
  PROVE  a % m = a
OBVIOUS

LEMMA LeastNatural ==
  ASSUME NEW T, T \subseteq Nat, T # {}
  PROVE  \E x \in T : \A y \in T : x <= y
<1> DEFINE R == {ss \in Nat \X Nat : ss[1] < ss[2]}
<1>1. IsWellFoundedOn(R, Nat)
  BY NatLessThanWellFounded DEF OpToRel
<1>2. \E x \in T : \A y \in T : <<y, x>> \notin R
  <2> HIDE DEF R
  <2> QED
    BY <1>1, WFMin
<1>3. PICK x \in T : \A y \in T : <<y, x>> \notin R
  BY <1>2
<1>4. \A y \in T : <<y, x>> \in Nat \X Nat
  OBVIOUS
<1>5. \A y \in T : ~(y < x)
  BY <1>3, <1>4
<1> QED
  BY <1>5

-----------------------------------------------------------------------------
(* The tracker and one frame. *)

Trackers == [in_frame : BOOLEAN, wire_bytes : Nat, pauses : Nat]

LEMMA TrackerExcept ==
  ASSUME NEW t \in Trackers, NEW v
  PROVE  /\ [t EXCEPT !.wire_bytes = v] =
              [in_frame |-> t.in_frame, wire_bytes |-> v, pauses |-> t.pauses]
         /\ [t EXCEPT !.pauses = v] =
              [in_frame |-> t.in_frame, wire_bytes |-> t.wire_bytes, pauses |-> v]
BY DEF Trackers

LEMMA NoteTypes ==
  ASSUME NEW t \in Trackers
  PROVE  /\ NoteFrameByte(t) \in Trackers
         /\ \A n \in Nat : NoteBytes(t, n) \in Trackers
         /\ [t EXCEPT !.pauses = 0] \in Trackers
<1>1. /\ t.wire_bytes \in Nat /\ t.pauses \in Nat
      /\ t = [in_frame |-> t.in_frame, wire_bytes |-> t.wire_bytes, pauses |-> t.pauses]
  BY DEF Trackers
<1>2. t.in_frame \in BOOLEAN
  BY DEF Trackers
<1>3. \A f \in BOOLEAN, w \in Nat, q \in Nat :
        [in_frame |-> f, wire_bytes |-> w, pauses |-> q] \in Trackers
  BY DEF Trackers
<1>4. TRUE \in BOOLEAN /\ FALSE \in BOOLEAN /\ 0 \in Nat /\ 1 \in Nat
  OBVIOUS
<1>5. NoteFrameByte(t) \in Trackers
  <2>1. CASE t.in_frame
    <3> DEFINE q == t.pauses + IF t.wire_bytes + 1 <= SmallFrame THEN 1 ELSE 0
    <3>1. q \in Nat
      BY <1>1
    <3>2. NoteFrameByte(t) = [in_frame |-> FALSE, wire_bytes |-> 0, pauses |-> q]
      BY <2>1 DEF NoteFrameByte
    <3> HIDE DEF q
    <3> QED
      BY <1>3, <1>4, <3>1, <3>2
  <2>2. CASE ~t.in_frame
    <3>1. NoteFrameByte(t) = [in_frame |-> TRUE, wire_bytes |-> 1, pauses |-> t.pauses]
      <4>1. NoteFrameByte(t) = [t EXCEPT !.in_frame = TRUE, !.wire_bytes = 1]
        BY <2>2 DEF NoteFrameByte
      <4> QED
        BY <1>1, <4>1
    <3> QED
      BY <1>1, <1>3, <1>4, <3>1
  <2> QED
    BY <2>1, <2>2
<1>6. ASSUME NEW n \in Nat PROVE NoteBytes(t, n) \in Trackers
  <2>1. [t EXCEPT !.wire_bytes = @ + n] =
          [in_frame |-> t.in_frame, wire_bytes |-> t.wire_bytes + n, pauses |-> t.pauses]
    BY <1>1
  <2>2. t.wire_bytes + n \in Nat
    BY <1>1
  <2>3. [t EXCEPT !.wire_bytes = @ + n] \in Trackers
    BY <1>1, <1>2, <1>3, <2>1, <2>2
  <2> QED
    BY <2>3 DEF NoteBytes
<1>7. [t EXCEPT !.pauses = 0] \in Trackers
  <2>1. [t EXCEPT !.pauses = 0] =
          [in_frame |-> t.in_frame, wire_bytes |-> t.wire_bytes, pauses |-> 0]
    BY <1>1
  <2> QED
    BY <1>1, <1>2, <1>3, <1>4, <2>1
<1> QED
  BY <1>5, <1>6, <1>7

(* A whole frame, sent while the tracker is idle: one pause behind it if   *)
(* it is small, and the tracker is idle again.                             *)
LEMMA WholeFrame ==
  ASSUME tracker = OutOfFrame, NEW wire \in Nat, wire >= 3
  PROVE  LET before == BeforeClosing(wire, {})
             end == AfterClosing(wire, {})
         IN  /\ [end EXCEPT !.pauses = 0] = OutOfFrame
             /\ before.pauses = 0
             /\ end.pauses - before.pauses = IF wire <= SmallFrame THEN 1 ELSE 0
<1> DEFINE opened == [in_frame |-> TRUE, wire_bytes |-> 1, pauses |-> 0]
           filled == [in_frame |-> TRUE, wire_bytes |-> wire - 1, pauses |-> 0]
           small == IF wire <= SmallFrame THEN 1 ELSE 0
           closed == [in_frame |-> FALSE, wire_bytes |-> 0, pauses |-> small]
<1>1. AfterOpening({}) = opened
  BY DEF AfterOpening, NoteFrameByte, OutOfFrame
<1>2. wire - 2 - 0 = wire - 2 /\ 1 + (wire - 2) = wire - 1 /\ (wire - 1) + 1 = wire
  OBVIOUS
<1>3. BeforeClosing(wire, {}) = filled
  <2>1. BeforeClosing(wire, {}) = NoteBytes(opened, wire - 2 - 0)
    BY <1>1 DEF BeforeClosing
  <2>2. PICK t \in Trackers : t = opened
    BY DEF Trackers
  <2>3. t.in_frame = TRUE /\ t.wire_bytes = 1 /\ t.pauses = 0
    BY <2>2
  <2>4. \A v : [t EXCEPT !.wire_bytes = v] =
                 [in_frame |-> TRUE, wire_bytes |-> v, pauses |-> 0]
    BY <2>3, TrackerExcept
  <2>5. NoteBytes(t, wire - 2 - 0) = [t EXCEPT !.wire_bytes = t.wire_bytes + (wire - 2 - 0)]
    BY <2>3 DEF NoteBytes
  <2> QED
    BY <1>2, <2>1, <2>2, <2>3, <2>4, <2>5
<1>4. AfterClosing(wire, {}) = closed
  <2>1. AfterClosing(wire, {}) = NoteFrameByte(filled)
    BY <1>3 DEF AfterClosing
  <2>2. filled.in_frame /\ filled.wire_bytes = wire - 1 /\ filled.pauses = 0
    OBVIOUS
  <2>3. 0 + small = small
    OBVIOUS
  <2>4. NoteFrameByte(filled) = [in_frame |-> FALSE, wire_bytes |-> 0, pauses |-> 0 + small]
    <3> HIDE DEF filled
    <3> QED
      BY <1>2, <2>2 DEF NoteFrameByte
  <2> QED
    BY <2>1, <2>3, <2>4
<1>5. [closed EXCEPT !.pauses = 0] = OutOfFrame
  <2>1. small \in Nat
    OBVIOUS
  <2>2. PICK t \in Trackers : t = closed
    <3> HIDE DEF small
    <3> QED
      BY <2>1 DEF Trackers
  <2>3. t.in_frame = FALSE /\ t.wire_bytes = 0
    BY <2>2
  <2>4. [t EXCEPT !.pauses = 0] = [in_frame |-> FALSE, wire_bytes |-> 0, pauses |-> 0]
    BY <2>3, TrackerExcept
  <2> QED
    BY <2>2, <2>4 DEF OutOfFrame
<1>6. filled.pauses = 0 /\ closed.pauses = small /\ small - 0 = small
  OBVIOUS
<1> QED
  BY <1>3, <1>4, <1>5, <1>6

LEMMA EmitsMeans ==
  ASSUME tracker \in Trackers, NEW wire \in Nat, wire >= 3, clean \in BOOLEAN,
         clean => tracker = OutOfFrame,
         NEW p, NEW first, NEW fault, Emits(p, first, fault, wire)
  PROVE  /\ tracker' \in Trackers /\ clean' \in BOOLEAN
         /\ tx'.p = p /\ tx'.first = first /\ tx'.fault = fault /\ tx'.wire = wire
         /\ clean' => /\ tracker' = OutOfFrame /\ tx'.inside = 0
                      /\ tx'.after = IF wire <= SmallFrame THEN 1 ELSE 0
<1>1. PICK unwritten \in SUBSET {"open", "body", "close"} :
        LET missing == unwritten \cup (IF fault = "truncate_tail" THEN {"close"} ELSE {})
            before == BeforeClosing(wire, missing)
            end == AfterClosing(wire, missing)
        IN  /\ clean' = (clean /\ missing = {})
            /\ tracker' = [end EXCEPT !.pauses = 0]
            /\ tx' = [p |-> p, first |-> first, fault |-> fault, wire |-> wire,
                      inside |-> before.pauses, after |-> end.pauses - before.pauses]
  BY DEF Emits
<1> DEFINE missing == unwritten \cup (IF fault = "truncate_tail" THEN {"close"} ELSE {})
<1>2. /\ clean' = (clean /\ missing = {})
      /\ tracker' = [AfterClosing(wire, missing) EXCEPT !.pauses = 0]
      /\ tx' = [p |-> p, first |-> first, fault |-> fault, wire |-> wire,
                inside |-> BeforeClosing(wire, missing).pauses,
                after |-> AfterClosing(wire, missing).pauses - BeforeClosing(wire, missing).pauses]
  BY <1>1
<1> HIDE DEF missing
<1>3. AfterOpening(missing) \in Trackers
  BY NoteTypes DEF AfterOpening
<1>4. wire - 2 - 1 \in Nat /\ wire - 2 - 0 \in Nat
  OBVIOUS
<1>5. BeforeClosing(wire, missing) \in Trackers
  BY <1>3, <1>4, NoteTypes DEF BeforeClosing
<1>6. AfterClosing(wire, missing) \in Trackers
  BY <1>5, NoteTypes DEF AfterClosing
<1>7. tracker' \in Trackers
  BY <1>2, <1>6, NoteTypes
<1>8. clean' \in BOOLEAN /\ (clean' => clean /\ missing = {})
  BY <1>2
<1>9. ASSUME clean'
      PROVE  /\ tracker' = OutOfFrame /\ tx'.inside = 0
             /\ tx'.after = IF wire <= SmallFrame THEN 1 ELSE 0
  <2>1. tracker = OutOfFrame /\ missing = {}
    BY <1>8, <1>9
  <2> QED
    BY <1>2, <2>1, WholeFrame
<1>10. tx'.p = p /\ tx'.first = first /\ tx'.fault = fault /\ tx'.wire = wire
  BY <1>2
<1> QED
  BY <1>7, <1>8, <1>9, <1>10

-----------------------------------------------------------------------------
(* The invariant. *)

CountInv ==
  /\ configured_count \in 0 .. MaxCount /\ remaining_count \in 0 .. MaxCount
  /\ injected_count \in 0 .. MaxCount
  /\ remaining_count + injected_count = configured_count
  /\ kind \in Kinds

TrackInv ==
  /\ open \in BOOLEAN /\ clean \in BOOLEAN /\ tracker \in Trackers
  /\ ~open \/ clean => tracker = OutOfFrame
  /\ ~open => tx = NoTx

(* What is in the window of the library is noted in its slot, and nothing  *)
(* not yet sent is.                                                        *)
SlotType == [sent : BOOLEAN, index : 0 .. MAX_FRAME_INDEX - 1]
WindowInv ==
  /\ request \in Seq(RequestFrame) /\ Len(request) <= MAX_FRAME_INDEX
  /\ base \in Nat /\ next \in Nat /\ base <= next
  /\ next <= Len(request) /\ next <= base + WINDOW_SIZE
  /\ send_window \in [Slots -> SlotType]
  /\ \A s \in Slots : send_window[s].sent => send_window[s].index < next
  /\ \A p \in base .. next - 1 :
       send_window[p % WINDOW_SIZE].sent /\ send_window[p % WINDOW_SIZE].index = p

(* The device holds frames that were sent, and every confirmed one. *)
StoredInv ==
  /\ \A f \in stored : f.at = f.p /\ f.p \in 0 .. next - 1
  /\ \A i \in 0 .. base - 1 : \E f \in stored : f.at = i

(* The first frames of a session take the faults. *)
SpentInv ==
  open /\ kind # "none" =>
    injected_count = IF next < configured_count THEN next ELSE configured_count

FaultInv ==
  /\ CountInv /\ TrackInv /\ WindowInv /\ StoredInv /\ SpentInv
  /\ FaultsHitFirstCopies /\ PausesAfterSmallFrames

LEMMA Windows ==
  /\ WINDOW_SIZE \in Nat \ {0} /\ MAX_FRAME_INDEX \in Nat \ {0}
  /\ MAX_FRAME_INDEX >= 2 * WINDOW_SIZE + 3
BY FaultSizes

LEMMA IndexOfPosition ==
  ASSUME WindowInv, NEW p \in Nat, p < Len(request)
  PROVE  Idx(p) = p /\ p \in 0 .. MAX_FRAME_INDEX - 1 /\ p % WINDOW_SIZE \in Slots
<1>1. Len(request) \in Nat
  BY LenProperties DEF WindowInv
<1>2. p \in 0 .. MAX_FRAME_INDEX - 1
  BY <1>1, Windows DEF WindowInv
<1>3. p % WINDOW_SIZE \in Slots
  <2>1. p \in Int /\ WINDOW_SIZE \in Nat \ {0}
    BY Windows
  <2>2. p % WINDOW_SIZE \in 0 .. WINDOW_SIZE - 1
    BY <2>1, RemainderRange
  <2> QED
    BY <2>2 DEF Slots
<1> QED
  BY <1>2, <1>3, Windows, RemainderSmall DEF Idx

(* A first copy is spoiled while faults are left, a repeated one never. *)
LEMMA FirstMalforms ==
  ASSUME CountInv, WindowInv, SpentInv, open, next < Len(request)
  PROVE  Malforms(next) <=> kind # "none" /\ next < configured_count
<1>1. next \in Nat /\ Idx(next) = next /\ next % WINDOW_SIZE \in Slots
  BY IndexOfPosition DEF WindowInv
<1>2. ~(send_window[next % WINDOW_SIZE].sent /\ send_window[next % WINDOW_SIZE].index = next)
  BY <1>1 DEF WindowInv
<1>3. kind # "none" => (remaining_count > 0 <=> next < configured_count)
  <2>1. /\ configured_count \in Int /\ remaining_count \in Int /\ injected_count \in Int
        /\ remaining_count + injected_count = configured_count
    BY FaultBounds DEF CountInv
  <2> QED
    BY <1>1, <2>1 DEF SpentInv
<1> QED
  BY <1>1, <1>2, <1>3 DEF Malforms

LEMMA AgainIntact ==
  ASSUME WindowInv, NEW p \in base .. next - 1
  PROVE  ~Malforms(p) /\ p \in Nat /\ p < Len(request)
<1>1. p \in Nat /\ p < Len(request)
  BY LenProperties DEF WindowInv
<1>2. Idx(p) = p
  BY <1>1, IndexOfPosition
<1>3. send_window[p % WINDOW_SIZE].sent /\ send_window[p % WINDOW_SIZE].index = p
  BY DEF WindowInv
<1> QED
  BY <1>1, <1>2, <1>3 DEF Malforms

LEMMA KindsAreFaults ==
  /\ Len(kKinds) = 8
  /\ \A i \in 1 .. 8 : kKinds[i] # "none"
<1>1. Len(kKinds) = 8
  BY DEF kKinds
<1>2. ASSUME NEW i \in 1 .. 8 PROVE kKinds[i] # "none"
  <2>1. i = 1 \/ i = 2 \/ i = 3 \/ i = 4 \/ i = 5 \/ i = 6 \/ i = 7 \/ i = 8
    OBVIOUS
  <2> QED
    BY <2>1 DEF kKinds
<1> QED
  BY <1>1, <1>2

(* What the device has in order lies between what is confirmed and what    *)
(* was sent.                                                               *)
LEMMA CompleteBetween ==
  ASSUME WindowInv, StoredInv
  PROVE  /\ Complete \in base .. next
         /\ \A i \in 0 .. Complete - 1 : \E f \in stored : f.at = i
<1>1. /\ base \in Nat /\ next \in Nat /\ base <= next /\ next <= Len(request)
      /\ Len(request) \in Nat
  BY LenProperties DEF WindowInv
<1> DEFINE Held(n) == \E f \in stored : f.at = n
<1>2. ~Held(next) /\ \A i \in 0 .. base - 1 : Held(i)
  BY <1>1 DEF StoredInv
<1> HIDE DEF Held
<1> DEFINE T == {n \in Nat : ~Held(n)}
<1>3. T \subseteq Nat /\ next \in T
  BY <1>1, <1>2
<1>4. PICK n \in T : \A k \in T : n <= k
  <2> HIDE DEF T
  <2> QED
    BY <1>3, LeastNatural
<1>5. n \in Nat /\ n <= next /\ ~Held(n) /\ \A i \in 0 .. n - 1 : Held(i)
  <2>1. \A i \in 0 .. n - 1 : i \in Nat /\ ~(n <= i)
    OBVIOUS
  <2> QED
    BY <1>3, <1>4, <2>1
<1>6. \E m \in 0 .. Len(request) : (\A i \in 0 .. m - 1 : Held(i)) /\ ~Held(m)
  BY <1>1, <1>5
<1>7. Complete = CHOOSE m \in 0 .. Len(request) : (\A i \in 0 .. m - 1 : Held(i)) /\ ~Held(m)
  BY DEF Complete, Held
<1>8. PICK c : c = Complete
  OBVIOUS
<1>9. c \in 0 .. Len(request) /\ (\A i \in 0 .. c - 1 : Held(i)) /\ ~Held(c)
  BY <1>6, <1>7, <1>8
<1>10. c <= next
  BY <1>1, <1>2, <1>9
<1>11. base <= c
  BY <1>1, <1>2, <1>9
<1>12. c \in base .. next
  BY <1>1, <1>9, <1>10, <1>11
<1> QED
  BY <1>8, <1>9, <1>12 DEF Held

(* The device stores a frame at its own place, if it stores it at all: the *)
(* windows are too close for another frame of the same index, and an index *)
(* that jumped is outside of both.                                         *)
LEMMA TakesTrue ==
  ASSUME WindowInv, StoredInv, NEW p \in base .. next, p < base + WINDOW_SIZE,
         NEW index, index = Idx(p) \/ index = -1 \/ (index = JumpedIndex(p) /\ p = next)
  PROVE  \A f \in DeviceTakes(p, index) : f.at = f.p /\ f.p = p
<1> SUFFICES ASSUME NEW f \in DeviceTakes(p, index) PROVE f.at = f.p /\ f.p = p
  OBVIOUS
<1>1. /\ base \in Nat /\ next \in Nat /\ p \in Nat /\ next <= base + WINDOW_SIZE
      /\ WINDOW_SIZE \in Nat \ {0} /\ MAX_FRAME_INDEX \in Nat \ {0}
      /\ MAX_FRAME_INDEX >= 2 * WINDOW_SIZE + 3
  BY Windows DEF WindowInv
<1>2. PICK c : c = Complete
  OBVIOUS
<1>3. c \in base .. next
  BY <1>2, CompleteBetween
<1>4. PICK a \in c .. c + WINDOW_SIZE - 1 : Idx(a) = index /\ f = [at |-> a, p |-> p]
  BY <1>2 DEF DeviceTakes
<1>5. a \in Int /\ a <= c + WINDOW_SIZE - 1 /\ a >= c
  BY <1>1, <1>3
<1>6. Idx(a) \in 0 .. MAX_FRAME_INDEX - 1
  BY <1>1, <1>5, RemainderRange DEF Idx
<1>7. CASE index = Idx(p)
  <2>1. a - p < MAX_FRAME_INDEX /\ p - a < MAX_FRAME_INDEX
    BY <1>1, <1>3, <1>5
  <2>2. a % MAX_FRAME_INDEX = p % MAX_FRAME_INDEX
    BY <1>4, <1>7 DEF Idx
  <2>3. a = p
    <3>1. PICK m \in Nat \ {0} : m = MAX_FRAME_INDEX
      BY <1>1
    <3>2. a - p < m /\ p - a < m /\ a % m = p % m /\ p \in Int
      BY <1>1, <2>1, <2>2, <3>1
    <3> QED
      BY <1>5, <3>2, SameRemainder
  <2> QED
    BY <1>4, <2>3
<1>8. CASE index = JumpedIndex(p) /\ p = next
  <2> DEFINE b == p + WINDOW_SIZE + 3
  <2>1. PICK m \in Nat \ {0} : m = MAX_FRAME_INDEX
    BY <1>1
  <2>2. c \in Int /\ base <= c /\ c <= p
    BY <1>1, <1>3, <1>8
  <2>3. b \in Int /\ a < b
    BY <1>1, <1>5, <2>2
  <2>4. b - a <= 2 * WINDOW_SIZE + 2
    BY <1>1, <1>5, <2>2
  <2>5. b - a < m /\ a - b < m
    BY <1>1, <1>5, <2>1, <2>3, <2>4
  <2>6. a % m = b % m
    BY <1>4, <1>8, <2>1 DEF Idx, JumpedIndex
  <2> HIDE DEF b
  <2>7. a = b
    BY <1>5, <2>3, <2>5, <2>6, SameRemainder
  <2> QED
    BY <1>5, <2>3, <2>7
<1>9. CASE index = -1
  BY <1>1, <1>4, <1>6, <1>9
<1> QED
  BY <1>7, <1>8, <1>9

-----------------------------------------------------------------------------
(* One transmission. *)

(* What a transmission of frame p adds to the device's window is frame p   *)
(* at its own place.                                                       *)
LEMMA ArrivesTrue ==
  ASSUME WindowInv, StoredInv, NEW p \in base .. next, p < base + WINDOW_SIZE,
         NEW fault, fault = "none" \/ p = next, Arrives(p, fault)
  PROVE  /\ stored \subseteq stored'
         /\ \A f \in stored' : f \in stored \/ (f.at = f.p /\ f.p = p)
<1>1. CASE UNCHANGED stored
  BY <1>1
<1>2. ASSUME NEW index \in Arrivals(p, fault),
             stored' = stored \cup DeviceTakes(p, index)
      PROVE  /\ stored \subseteq stored'
             /\ \A f \in stored' : f \in stored \/ (f.at = f.p /\ f.p = p)
  <2>1. index = Idx(p) \/ index = -1 \/ (index = JumpedIndex(p) /\ p = next)
    <3>1. CASE fault = "none" \/ (fault = "crc_payload" /\ Frame(p).empty)
      BY <1>2, <3>1 DEF Arrivals
    <3>2. CASE ~(fault = "none" \/ (fault = "crc_payload" /\ Frame(p).empty))
      <4>1. CASE fault = "seq_jump"
        BY <1>2, <3>2, <4>1 DEF Arrivals
      <4>2. CASE fault = "truncate_tail"
        BY <1>2, <3>2, <4>2 DEF Arrivals
      <4>3. CASE fault # "seq_jump" /\ fault # "truncate_tail"
        BY <1>2, <3>2, <4>3 DEF Arrivals
      <4> QED
        BY <4>1, <4>2, <4>3
    <3> QED
      BY <3>1, <3>2
  <2> QED
    BY <1>2, <2>1, TakesTrue
<1> QED
  BY <1>1, <1>2 DEF Arrives

(* The library's note of a frame leaves the notes of the other frames of   *)
(* its window: their slots differ.                                         *)
LEMMA NotesInWindow ==
  ASSUME WindowInv, NEW p \in base .. next, p < base + WINDOW_SIZE, p < Len(request),
         UNCHANGED <<request, base>>,
         next' = IF p = next THEN next + 1 ELSE next,
         send_window' = [send_window EXCEPT ![Idx(p) % WINDOW_SIZE] =
                           [sent |-> TRUE, index |-> Idx(p)]]
  PROVE  WindowInv'
<1>1. /\ base \in Nat /\ next \in Nat /\ base <= next /\ next <= Len(request)
      /\ next <= base + WINDOW_SIZE /\ Len(request) \in Nat /\ p \in Nat
      /\ WINDOW_SIZE \in Nat \ {0}
  BY Windows, LenProperties DEF WindowInv
<1>2. /\ Idx(p) = p /\ p \in 0 .. MAX_FRAME_INDEX - 1 /\ p % WINDOW_SIZE \in Slots
  BY <1>1, IndexOfPosition
<1> DEFINE slot == p % WINDOW_SIZE
           note == [sent |-> TRUE, index |-> p]
<1>3. note \in SlotType
  BY <1>2 DEF SlotType
<1>4. /\ send_window' = [send_window EXCEPT ![slot] = note]
      /\ send_window \in [Slots -> SlotType] /\ slot \in Slots
  BY <1>2 DEF WindowInv
<1>5. send_window' \in [Slots -> SlotType]
  <2> HIDE DEF slot, note
  <2> QED
    BY <1>3, <1>4
<1>6. /\ next' \in Nat /\ base' <= next' /\ next' <= Len(request') /\ p < next'
      /\ next <= next' /\ next' <= base' + WINDOW_SIZE /\ base' \in Nat
  BY <1>1
<1>7. /\ send_window'[slot] = note
      /\ \A s \in Slots : s # slot => send_window'[s] = send_window[s]
  <2> HIDE DEF slot, note
  <2> QED
    BY <1>4
<1>8. note.sent /\ note.index = p
  OBVIOUS
<1>9. \A s \in Slots : send_window'[s].sent => send_window'[s].index < next'
  <2> SUFFICES ASSUME NEW s \in Slots, send_window'[s].sent
               PROVE  send_window'[s].index < next'
    OBVIOUS
  <2>1. CASE s = slot
    <3> HIDE DEF note
    <3> QED
      BY <1>6, <1>7, <1>8, <2>1
  <2>2. CASE s # slot
    <3>1. send_window'[s] = send_window[s]
      BY <1>7, <2>2
    <3>2. send_window[s].index < next /\ send_window[s].index \in Int
      BY <3>1 DEF WindowInv, SlotType
    <3> QED
      BY <1>1, <1>6, <3>1, <3>2
  <2> QED
    BY <2>1, <2>2
<1>10. \A q \in base' .. next' - 1 :
         send_window'[q % WINDOW_SIZE].sent /\ send_window'[q % WINDOW_SIZE].index = q
  <2> SUFFICES ASSUME NEW q \in base' .. next' - 1
               PROVE  /\ send_window'[q % WINDOW_SIZE].sent
                      /\ send_window'[q % WINDOW_SIZE].index = q
    OBVIOUS
  <2>1. CASE q = p
    <3> HIDE DEF note
    <3> QED
      BY <1>7, <1>8, <2>1
  <2>2. CASE q # p
    <3>1. q \in Nat /\ q \in base .. next - 1
      BY <1>1, <2>2
    <3>2. q % WINDOW_SIZE \in Slots
      <4>1. q < Len(request)
        BY <1>1, <3>1
      <4> QED
        BY <3>1, <4>1, IndexOfPosition
    <3>3. q % WINDOW_SIZE # slot
      <4>1. PICK m \in Nat \ {0} : m = WINDOW_SIZE
        BY <1>1
      <4>2. q - p < m /\ p - q < m /\ q \in Int /\ p \in Int
        BY <1>1, <3>1, <4>1
      <4>3. q % m # p % m
        BY <2>2, <4>2, SameRemainder
      <4> QED
        BY <4>1, <4>3
    <3>4. send_window'[q % WINDOW_SIZE] = send_window[q % WINDOW_SIZE]
      BY <1>7, <3>2, <3>3
    <3> QED
      BY <3>1, <3>4 DEF WindowInv
  <2> QED
    BY <2>1, <2>2
<1>11. request' \in Seq(RequestFrame) /\ Len(request') <= MAX_FRAME_INDEX
  BY DEF WindowInv
<1> QED
  BY <1>5, <1>6, <1>9, <1>10, <1>11 DEF WindowInv

LEMMA TransmitKeeps ==
  ASSUME FaultInv, open, NEW p \in base .. next, p < base + WINDOW_SIZE,
         p < Len(request), NEW first \in BOOLEAN, first <=> p = next,
         next' = IF p = next THEN next + 1 ELSE next, Transmits(p, first)
  PROVE  FaultInv'
<1>1. /\ base \in Nat /\ next \in Nat /\ base <= next /\ p \in Nat /\ next <= Len(request)
      /\ Len(request) \in Nat
  BY LenProperties DEF FaultInv, WindowInv
<1> DEFINE fault == IF Malforms(p) THEN EffectiveKind ELSE "none"
<1>2. /\ remaining_count' = remaining_count - IF Malforms(p) THEN 1 ELSE 0
      /\ injected_count' = injected_count + IF Malforms(p) THEN 1 ELSE 0
      /\ Emits(p, first, fault, Frame(p).wire)
      /\ Arrives(p, fault)
      /\ send_window' = [send_window EXCEPT ![Idx(p) % WINDOW_SIZE] =
                           [sent |-> TRUE, index |-> Idx(p)]]
      /\ UNCHANGED <<configured_count, kind, open, request, base>>
  BY DEF Transmits
<1>3. Malforms(p) <=> kind # "none" /\ p = next /\ p < configured_count
  <2>1. CASE p = next
    BY <2>1, FirstMalforms DEF FaultInv
  <2>2. CASE p # next
    <3>1. p \in base .. next - 1
      BY <1>1, <2>2
    <3> QED
      BY <2>2, <3>1, AgainIntact DEF FaultInv
  <2> QED
    BY <2>1, <2>2
<1>4. Malforms(p) => remaining_count > 0
  BY DEF Malforms
<1>5. /\ configured_count \in Nat /\ remaining_count \in Nat /\ injected_count \in Nat
      /\ remaining_count + injected_count = configured_count
      /\ configured_count <= MaxCount /\ MaxCount \in Nat /\ kind \in Kinds
  BY FaultBounds DEF FaultInv, CountInv
<1>6. CountInv'
  <2>1. CASE Malforms(p)
    BY <1>2, <1>4, <1>5, <2>1 DEF CountInv
  <2>2. CASE ~Malforms(p)
    BY <1>2, <1>5, <2>2 DEF CountInv
  <2> QED
    BY <2>1, <2>2
<1>7. Malforms(p) => injected_count = p
  BY <1>1, <1>3, <1>5 DEF FaultInv, SpentInv
<1>8. /\ Malforms(p) =>
           fault = IF kind = "all" THEN kKinds[(p % Len(kKinds)) + 1] ELSE kind
      /\ ~Malforms(p) => fault = "none"
  BY <1>7 DEF EffectiveKind
<1>9. fault # "none" <=> Malforms(p)
  <2>1. (p % Len(kKinds)) + 1 \in 1 .. 8
    BY <1>1, KindsAreFaults
  <2>2. kKinds[(p % Len(kKinds)) + 1] # "none"
    BY <2>1, KindsAreFaults
  <2> HIDE DEF fault
  <2> QED
    BY <1>3, <1>8, <2>2
<1> HIDE DEF fault
<1>10. Frame(p).wire \in Nat /\ Frame(p).wire >= 3
  <2>1. p + 1 \in 1 .. Len(request) /\ request \in Seq(RequestFrame)
    BY <1>1 DEF FaultInv, WindowInv
  <2>2. Frame(p) \in RequestFrame
    BY <2>1, ElementOfSeq DEF Frame
  <2> QED
    BY <2>2 DEF RequestFrame
<1>11. /\ tracker \in Trackers /\ clean \in BOOLEAN
       /\ clean => tracker = OutOfFrame
  BY DEF FaultInv, TrackInv
<1>12. /\ tracker' \in Trackers /\ clean' \in BOOLEAN
       /\ tx'.p = p /\ tx'.first = first /\ tx'.fault = fault /\ tx'.wire = Frame(p).wire
       /\ clean' => /\ tracker' = OutOfFrame /\ tx'.inside = 0
                    /\ tx'.after = IF Frame(p).wire <= SmallFrame THEN 1 ELSE 0
  BY <1>2, <1>10, <1>11, EmitsMeans
<1>13. TrackInv'
  <2>1. open'
    BY <1>2
  <2> QED
    BY <1>12, <2>1 DEF TrackInv
<1>14. WindowInv'
  BY <1>2, NotesInWindow DEF FaultInv
<1>15. StoredInv'
  <2>1. fault = "none" \/ p = next
    BY <1>3, <1>9
  <2>2. /\ stored \subseteq stored'
        /\ \A f \in stored' : f \in stored \/ (f.at = f.p /\ f.p = p)
    BY <1>2, <2>1, ArrivesTrue DEF FaultInv
  <2>3. p \in 0 .. next' - 1 /\ next <= next' /\ next' \in Nat /\ base' = base
    BY <1>1, <1>2
  <2>4. \A f \in stored' : f.at = f.p /\ f.p \in 0 .. next' - 1
    BY <1>1, <2>2, <2>3 DEF FaultInv, StoredInv
  <2> QED
    BY <2>2, <2>3, <2>4 DEF FaultInv, StoredInv
<1>16. SpentInv'
  <2> SUFFICES ASSUME kind # "none"
               PROVE  injected_count' = IF next' < configured_count THEN next' ELSE configured_count
    BY <1>2 DEF SpentInv
  <2>1. injected_count = IF next < configured_count THEN next ELSE configured_count
    BY DEF FaultInv, SpentInv
  <2>2. CASE p = next
    BY <1>1, <1>2, <1>3, <1>5, <2>1, <2>2
  <2>3. CASE p # next
    BY <1>1, <1>2, <1>3, <1>5, <2>1, <2>3
  <2> QED
    BY <2>2, <2>3
<1>17. FaultsHitFirstCopies'
  <2>1. tx'.fault # "none" <=> kind' # "none" /\ tx'.first /\ tx'.p < configured_count'
    <3>1. kind' = kind /\ configured_count' = configured_count
      BY <1>2
    <3> QED
      BY <1>3, <1>9, <1>12, <3>1
  <2>2. tx'.fault # "none" =>
          tx'.fault = IF kind' = "all" THEN kKinds[(tx'.p % Len(kKinds)) + 1] ELSE kind'
    <3>1. kind' = kind /\ tx'.p = p /\ tx'.fault = fault
      BY <1>2, <1>12
    <3> QED
      BY <1>8, <1>9, <3>1
  <2> QED
    BY <2>1, <2>2 DEF FaultsHitFirstCopies
<1>18. PausesAfterSmallFrames'
  BY <1>12 DEF PausesAfterSmallFrames
<1> QED
  BY <1>6, <1>13, <1>14, <1>15, <1>16, <1>17, <1>18 DEF FaultInv

-----------------------------------------------------------------------------
(* The specification. *)

LEMMA FaultInit == Init => FaultInv
<1> SUFFICES ASSUME Init PROVE FaultInv
  OBVIOUS
<1>1. CountInv
  BY FaultBounds DEF Init, CountInv, Kinds
<1>2. TrackInv
  BY DEF Init, TrackInv, Trackers, OutOfFrame
<1>3. WindowInv
  <2>1. request = << >> /\ request \in Seq(RequestFrame) /\ Len(request) = 0
    BY EmptySeq DEF Init
  <2>2. NotSent \in SlotType /\ ~NotSent.sent
    BY Windows DEF NotSent, SlotType
  <2>3. send_window \in [Slots -> SlotType] /\ \A s \in Slots : ~send_window[s].sent
    <3> HIDE DEF NotSent
    <3> QED
      BY <2>2 DEF Init
  <2> QED
    BY <2>1, <2>3, Windows DEF Init, WindowInv
<1>4. StoredInv /\ SpentInv /\ FaultsHitFirstCopies /\ PausesAfterSmallFrames
  BY DEF Init, StoredInv, SpentInv, FaultsHitFirstCopies, PausesAfterSmallFrames, NoTx
<1> QED
  BY <1>1, <1>2, <1>3, <1>4 DEF FaultInv

LEMMA FaultStep == FaultInv /\ [Next]_fvars => FaultInv'
<1> SUFFICES ASSUME FaultInv, [Next]_fvars PROVE FaultInv'
  OBVIOUS
<1> USE DEF FaultInv
<1>1. ASSUME NEW count \in 0 .. MaxCount, NEW k \in Kinds, Configures(count, k)
      PROVE  FaultInv'
  <2> USE <1>1 DEF Configures, library
  <2>1. CountInv'
    BY FaultBounds DEF CountInv, Kinds
  <2>2. ~open' /\ tx' = NoTx /\ tx' = tx
    BY DEF TrackInv
  <2>3. TrackInv'
    BY DEF TrackInv
  <2>4. WindowInv' /\ StoredInv'
    BY DEF WindowInv, StoredInv
  <2>5. SpentInv' /\ FaultsHitFirstCopies' /\ PausesAfterSmallFrames'
    BY <2>2 DEF SpentInv, FaultsHitFirstCopies, PausesAfterSmallFrames, NoTx
  <2> QED
    BY <2>1, <2>3, <2>4, <2>5
<1>2. ASSUME NEW r \in Requests, Opens(r) PROVE FaultInv'
  <2> USE <1>2 DEF Opens
  <2>1. CountInv'
    BY FaultBounds DEF CountInv
  <2>2. TrackInv'
    BY DEF TrackInv, Trackers, OutOfFrame
  <2>3. WindowInv'
    <3>1. r \in Seq(RequestFrame) /\ Len(r) <= MAX_FRAME_INDEX /\ Len(r) \in Nat
      BY FaultRequests, LenProperties
    <3>2. NotSent \in SlotType /\ ~NotSent.sent
      BY Windows DEF NotSent, SlotType
    <3>3. send_window' \in [Slots -> SlotType] /\ \A s \in Slots : ~send_window'[s].sent
      <4> HIDE DEF NotSent
      <4> QED
        BY <3>2
    <3> QED
      BY <3>1, <3>3, Windows DEF WindowInv
  <2>4. StoredInv'
    BY DEF StoredInv
  <2>5. SpentInv'
    BY FaultBounds DEF SpentInv, CountInv
  <2>6. FaultsHitFirstCopies' /\ PausesAfterSmallFrames'
    BY DEF FaultsHitFirstCopies, PausesAfterSmallFrames, NoTx
  <2> QED
    BY <2>1, <2>2, <2>3, <2>4, <2>5, <2>6
<1>3. ASSUME Closes PROVE FaultInv'
  <2> USE <1>3 DEF Closes, malform, library
  <2>1. CountInv' /\ WindowInv' /\ StoredInv' /\ SpentInv'
    BY DEF CountInv, WindowInv, StoredInv, SpentInv
  <2>2. TrackInv'
    BY DEF TrackInv, Trackers, OutOfFrame
  <2>3. FaultsHitFirstCopies' /\ PausesAfterSmallFrames'
    BY DEF FaultsHitFirstCopies, PausesAfterSmallFrames, NoTx
  <2> QED
    BY <2>1, <2>2, <2>3
<1>4. ASSUME SendsNew PROVE FaultInv'
  <2>1. /\ next < base + WINDOW_SIZE /\ next < Len(request)
        /\ next' = next + 1 /\ open /\ Transmits(next, TRUE)
    BY <1>4 DEF SendsNew
  <2>2. PICK first \in BOOLEAN : first = TRUE
    OBVIOUS
  <2>3. next \in base .. next
    BY DEF WindowInv
  <2> QED
    BY <2>1, <2>2, <2>3, TransmitKeeps
<1>5. ASSUME NEW p \in 0 .. Len(request) - 1, Resends(p) PROVE FaultInv'
  <2>1. p \in base .. next - 1 /\ open /\ Transmits(p, FALSE) /\ next' = next
    BY <1>5 DEF Resends
  <2>2. p \in base .. next /\ p < base + WINDOW_SIZE /\ p < Len(request) /\ p # next
    BY <2>1, LenProperties, Windows DEF WindowInv
  <2>3. PICK first \in BOOLEAN : first = FALSE
    OBVIOUS
  <2> QED
    BY <2>1, <2>2, <2>3, TransmitKeeps
<1>6. ASSUME SendsControl PROVE FaultInv'
  <2>1. /\ Emits(-1, FALSE, "none", SmallFrame) /\ open
        /\ UNCHANGED <<malform, open, library, stored, sessions, lost>>
    BY <1>6 DEF SendsControl
  <2>2. SmallFrame \in Nat /\ SmallFrame >= 3
    BY FaultBounds, FaultRequests
  <2>3. tracker \in Trackers /\ clean \in BOOLEAN
    BY DEF TrackInv
  <2>4. clean => tracker = OutOfFrame
    BY DEF TrackInv
  <2>5. /\ tracker' \in Trackers /\ clean' \in BOOLEAN
        /\ tx'.p = -1 /\ tx'.wire = SmallFrame
        /\ clean' => /\ tracker' = OutOfFrame /\ tx'.inside = 0
                     /\ tx'.after = IF SmallFrame <= SmallFrame THEN 1 ELSE 0
    BY <2>1, <2>2, <2>3, <2>4, EmitsMeans
  <2>6. CountInv' /\ WindowInv' /\ StoredInv' /\ SpentInv'
    BY <2>1 DEF CountInv, WindowInv, StoredInv, SpentInv, malform, library
  <2>7. TrackInv'
    BY <2>1, <2>5 DEF TrackInv
  <2>8. FaultsHitFirstCopies' /\ PausesAfterSmallFrames'
    BY <2>5 DEF FaultsHitFirstCopies, PausesAfterSmallFrames
  <2> QED
    BY <2>6, <2>7, <2>8
<1>7. ASSUME DeviceAcks PROVE FaultInv'
  <2>1. /\ base' = IF Complete < next THEN Complete ELSE next
        /\ UNCHANGED <<malform, open, request, next, send_window, tracker, tx, clean,
                       stored, sessions, lost, failed>>
    BY <1>7 DEF DeviceAcks
  <2>2. PICK c : c = Complete
    OBVIOUS
  <2>3. c \in base .. next /\ \A i \in 0 .. c - 1 : \E f \in stored : f.at = i
    BY <2>2, CompleteBetween
  <2>4. base' = c
    BY <2>1, <2>2, <2>3 DEF WindowInv
  <2>5. CountInv' /\ TrackInv' /\ SpentInv'
    BY <2>1 DEF CountInv, TrackInv, SpentInv, malform
  <2>6. WindowInv'
    <3>1. /\ base \in Nat /\ next \in Nat /\ WINDOW_SIZE \in Nat /\ c \in Nat
          /\ base <= c /\ c <= next /\ next <= c + WINDOW_SIZE
      BY <2>3, Windows DEF WindowInv
    <3>2. \A p \in base' .. next - 1 : p \in base .. next - 1
      BY <2>4, <3>1
    <3> QED
      BY <2>1, <2>4, <3>1, <3>2 DEF WindowInv
  <2>7. StoredInv'
    BY <2>1, <2>3, <2>4 DEF StoredInv
  <2>8. FaultsHitFirstCopies' /\ PausesAfterSmallFrames'
    BY <2>1 DEF FaultsHitFirstCopies, PausesAfterSmallFrames, malform
  <2> QED
    BY <2>5, <2>6, <2>7, <2>8
<1>8. ASSUME UNCHANGED fvars PROVE FaultInv'
  BY <1>8 DEF fvars, malform, library, CountInv, TrackInv, WindowInv, StoredInv,
              SpentInv, FaultsHitFirstCopies, PausesAfterSmallFrames
<1> QED
  BY <1>1, <1>2, <1>3, <1>4, <1>5, <1>6, <1>7, <1>8 DEF Next

LEMMA FaultInvariant == Spec => []FaultInv
BY FaultInit, FaultStep, PTL DEF Spec

(* The variables keep their types; the tracker is idle while the port is   *)
(* closed and between the frames of a session that lost no byte.           *)
THEOREM FaultTypeCorrect == Spec => []FaultTypeOK
<1>1. FaultInv => FaultTypeOK
  <2> SUFFICES ASSUME FaultInv PROVE FaultTypeOK
    OBVIOUS
  <2>1. Len(request) \in Nat
    BY LenProperties DEF FaultInv, WindowInv
  <2>2. base \in 0 .. Len(request) /\ next \in base .. Len(request)
    BY <2>1 DEF FaultInv, WindowInv
  <2>3. tracker.in_frame \in BOOLEAN /\ tracker.wire_bytes \in Nat
    BY DEF FaultInv, TrackInv, Trackers
  <2> QED
    BY <2>2, <2>3 DEF FaultInv, CountInv, TrackInv, WindowInv, SlotType, FaultTypeOK
<1> QED
  BY <1>1, FaultInvariant, PTL

(* A session spoils the first copies of its first configured_count frames, *)
(* and "all" goes through the kinds in their order.                        *)
THEOREM FaultsAreWhatWasAsked == Spec => []FaultsHitFirstCopies
<1>1. FaultInv => FaultsHitFirstCopies
  BY DEF FaultInv
<1> QED
  BY <1>1, FaultInvariant, PTL

(* The device takes no frame for another, whatever the faults do to it.    *)
THEOREM NoFrameForAnother == Spec => []DeviceTakesTrueFrames
<1>1. FaultInv => DeviceTakesTrueFrames
  BY DEF FaultInv, StoredInv, DeviceTakesTrueFrames
<1> QED
  BY <1>1, FaultInvariant, PTL

(* In a session that lost no byte the port pauses once after every small   *)
(* frame and nowhere else.                                                 *)
THEOREM PausesAreBehindFrames == Spec => []PausesAfterSmallFrames
<1>1. FaultInv => PausesAfterSmallFrames
  BY DEF FaultInv
<1> QED
  BY <1>1, FaultInvariant, PTL

=============================================================================
