---------------------------- MODULE SwpLinkProofs ----------------------------
(***************************************************************************)
(* Proofs about SwpLink for every window size, every index space at least  *)
(* twice the window, every response length and every amount of traffic.    *)
(***************************************************************************)
EXTENDS SwpLink, TLAPS, SequenceTheorems

-----------------------------------------------------------------------------
(* Modular arithmetic. *)

(* The remainder is the only residue in range: the reading of % that the   *)
(* other lemmas use.                                                       *)
LEMMA ModUnique ==
  ASSUME NEW m \in Nat \ {0}, NEW a \in Int, NEW r \in 0 .. m - 1,
         NEW q \in Int, a = q * m + r
  PROVE  a % m = r
OBVIOUS

(* Every integer has a quotient and a remainder in range. *)
LEMMA ModSplit ==
  ASSUME NEW m \in Nat \ {0}, NEW a \in Int
  PROVE  /\ a = (a \div m) * m + (a % m)
         /\ a % m \in 0 .. m - 1
         /\ a \div m \in Int
OBVIOUS

(* Multiplication distributes, stated alone to keep products out of the    *)
(* linear steps below.                                                     *)
LEMMA Distribute ==
  ASSUME NEW m \in Int, NEW x \in Int, NEW y \in Int, NEW z \in Int
  PROVE  (x - y + z) * m = x * m - y * m + z * m
OBVIOUS

(* The distance between two remainders is that between the numbers. *)
LEMMA ModDiff ==
  ASSUME NEW m \in Nat \ {0}, NEW a \in Int, NEW b \in Int
  PROVE  ((b % m) - (a % m)) % m = (b - a) % m
<1>1. PICK qa \in Int : a = qa * m + (a % m) /\ a % m \in 0 .. m - 1
  BY ModSplit
<1>2. PICK qb \in Int : b = qb * m + (b % m) /\ b % m \in 0 .. m - 1
  BY ModSplit
<1>3. PICK qd \in Int : /\ b - a = qd * m + ((b - a) % m)
                        /\ (b - a) % m \in 0 .. m - 1
  BY b - a \in Int, ModSplit
<1> DEFINE A  == qa * m
           B  == qb * m
           D  == qd * m
           ra == a % m
           rb == b % m
           rd == (b - a) % m
<1>4. A \in Int /\ B \in Int /\ D \in Int
  OBVIOUS
<1>5. (qd - qb + qa) * m = D - B + A
  BY Distribute
<1>6. a = A + ra /\ b = B + rb /\ b - a = D + rd
  BY <1>1, <1>2, <1>3
<1>7. ra \in Int /\ rb \in Int /\ rd \in 0 .. m - 1
  BY <1>1, <1>2, <1>3
<1>8. (rb - ra) % m = rd
  <2>1. qd - qb + qa \in Int
    OBVIOUS
  <2> HIDE DEF A, B, D, ra, rb, rd
  <2>2. rb - ra = (D - B + A) + rd
    BY <1>4, <1>6, <1>7
  <2>3. rb - ra = (qd - qb + qa) * m + rd
    BY <2>2, <1>5
  <2>4. rb - ra \in Int
    BY <1>7
  <2> QED
    BY <2>1, <2>3, <2>4, <1>7, ModUnique
<1> QED
  BY <1>8

(* The remainder of a successor. *)
LEMMA ModSucc ==
  ASSUME NEW m \in Nat \ {0}, NEW a \in Int
  PROVE  ((a % m) + 1) % m = (a + 1) % m
<1> DEFINE qa == a \div m
           qs == (a + 1) \div m
<1>1. a = qa * m + (a % m) /\ a % m \in 0 .. m - 1 /\ qa \in Int
  BY ModSplit
<1>2. /\ a + 1 = qs * m + ((a + 1) % m)
      /\ (a + 1) % m \in 0 .. m - 1
      /\ qs \in Int
  BY a + 1 \in Int, ModSplit
<1> HIDE DEF qa, qs
<1>3. (a % m) + 1 = (qs - qa) * m + ((a + 1) % m)
  BY <1>1, <1>2
<1>4. qs - qa \in Int /\ (a % m) + 1 \in Int
  BY <1>1, <1>2
<1> QED
  BY <1>2, <1>3, <1>4, ModUnique

(* Remainders of numbers within one modulus of zero. *)
LEMMA ModSmall ==
  ASSUME NEW m \in Nat \ {0}, NEW a \in 0 .. m - 1
  PROVE  a % m = a
BY ModUnique, a = 0 * m + a

(* The remainder of a number up to one modulus below zero. *)
LEMMA ModNegative ==
  ASSUME NEW m \in Nat \ {0}, NEW a \in -m .. -1
  PROVE  a % m = a + m
BY ModUnique, a = -1 * m + (a + m), a + m \in 0 .. m - 1

-----------------------------------------------------------------------------
(* Frame indices. *)

(* Indices are in range, and the index of a successor follows. *)
LEMMA IdxRange ==
  ASSUME NEW p \in Nat
  PROVE  /\ Idx(p) \in 0 .. MAX_FRAME_INDEX - 1
         /\ (Idx(p) + 1) % MAX_FRAME_INDEX = Idx(p + 1)
<1>1. MAX_FRAME_INDEX \in Nat \ {0} /\ p \in Int
  BY Sizes
<1>2. p % MAX_FRAME_INDEX \in 0 .. MAX_FRAME_INDEX - 1
  BY <1>1, ModSplit
<1>3. ((p % MAX_FRAME_INDEX) + 1) % MAX_FRAME_INDEX = (p + 1) % MAX_FRAME_INDEX
  BY <1>1, ModSucc
<1> QED
  BY <1>2, <1>3 DEF Idx

(* Less than one lap ahead, the distance between indices is the distance   *)
(* between positions.                                                      *)
LEMMA AheadForward ==
  ASSUME NEW p \in Nat, NEW q \in Nat, q - p \in 0 .. MAX_FRAME_INDEX - 1
  PROVE  Ahead(Idx(p), Idx(q)) = q - p
<1>1. MAX_FRAME_INDEX \in Nat \ {0}
  BY Sizes
<1>2. Ahead(Idx(p), Idx(q)) = (q - p) % MAX_FRAME_INDEX
  BY <1>1, p \in Int, q \in Int, ModDiff DEF Ahead, Idx
<1> QED
  BY <1>1, <1>2, ModSmall

(* A position up to one window behind is never mistaken for one in the     *)
(* window: this is where the index space must be twice the window.         *)
LEMMA AheadBehind ==
  ASSUME NEW p \in Nat, NEW q \in Nat, q - p \in -WINDOW_SIZE .. -1
  PROVE  Ahead(Idx(p), Idx(q)) \notin Slots
<1>1. MAX_FRAME_INDEX \in Nat \ {0} /\ WINDOW_SIZE \in Nat
  BY Sizes
<1>2. Ahead(Idx(p), Idx(q)) = (q - p) % MAX_FRAME_INDEX
  BY <1>1, p \in Int, q \in Int, ModDiff DEF Ahead, Idx
<1>3. q - p \in -MAX_FRAME_INDEX .. -1
  BY <1>1, Sizes
<1>4. (q - p) % MAX_FRAME_INDEX = (q - p) + MAX_FRAME_INDEX
  BY <1>1, <1>3, ModNegative
<1>5. (q - p) + MAX_FRAME_INDEX >= WINDOW_SIZE
  BY <1>1, Sizes
<1> QED
  BY <1>1, <1>2, <1>4, <1>5 DEF Slots
-----------------------------------------------------------------------------
(* The inductive invariant. *)

(* It holds initially. *)
LEMMA InitIInv == Init => IInv
<1> SUFFICES ASSUME Init PROVE IInv
  OBVIOUS
<1> USE DEF Init
<1>1. TypeOK
  BY Sizes, EmptySeq DEF TypeOK, EmptyWindow, Slots
<1>2. InOrder /\ WindowInv /\ SackedInv
  BY Sizes DEF InOrder, WindowInv, SackedInv, E
<1>3. AlignedInv
  <2>1. Idx(0) = 0
    BY Sizes, ModSmall DEF Idx
  <2> QED
    BY <2>1, Sizes DEF AlignedInv, Listening, EmptyWindow, Slots, E
<1>4. WireInv /\ SackInv
  BY DEF WireInv, SackInv
<1> QED
  BY <1>1, <1>2, <1>3, <1>4 DEF IInv

(* What Receive stores is aligned, and nothing held is lost: a frame that  *)
(* is stored is the one its slot stands for.                               *)
LEMMA StoreAligned ==
  ASSUME IInv, pc = "wait", toHost # << >>
  PROVE  LET p == Head(toHost) IN
           /\ Store(p) \in [Slots -> Nat \cup {NoFrame}]
           /\ \A i \in Slots : Store(p)[i] # NoFrame =>
                /\ Store(p)[i] = E + i
                /\ E + i < next
                /\ recv_window[i] = NoFrame => E + i = p
           /\ \A i \in Slots : recv_window[i] # NoFrame =>
                                 Store(p)[i] = recv_window[i]
<1> DEFINE p == Head(toHost)
           offset == Ahead(expected_frame_index, Idx(p))
<1>1. p \in Nat /\ E \in Nat /\ next \in Nat /\ base \in Nat
      /\ WINDOW_SIZE \in Nat /\ p \notin {NoFrame}
  BY HeadTailProperties, LenProperties, Sizes, NoFrameFresh DEF IInv, TypeOK, E
<1>2. p = toHost[1] /\ 1 \in 1 .. Len(toHost)
  BY LenProperties DEF IInv, TypeOK
<1>3. p < next /\ E <= p + WINDOW_SIZE
  BY <1>2 DEF IInv, WireInv
<1>4. p < E + WINDOW_SIZE
  BY <1>1, <1>3 DEF IInv, WindowInv
<1>5. expected_frame_index = Idx(E)
  BY DEF IInv, AlignedInv, Listening
<1>6. \A i \in Slots : recv_window[i] # NoFrame =>
        recv_window[i] = E + i /\ E + i < next
  BY DEF IInv, AlignedInv, Listening
<1>7. recv_window \in [Slots -> Nat \cup {NoFrame}]
  BY DEF IInv, TypeOK
<1>8. CASE p >= E
  <2>1. p - E \in 0 .. MAX_FRAME_INDEX - 1
    BY <1>1, <1>4, <1>8, Sizes
  <2>2. offset = p - E
    BY <1>1, <1>5, <2>1, AheadForward
  <2>3. offset \in Slots /\ E + offset = p
    BY <1>1, <1>4, <1>8, <2>2 DEF Slots
  <2>4. Store(p) = [recv_window EXCEPT ![offset] = p]
    BY <2>3 DEF Store
  <2> HIDE DEF offset, p
  <2> QED
    BY <1>1, <1>3, <1>6, <1>7, <2>3, <2>4 DEF p
<1>9. CASE p < E
  <2>1. p - E \in -WINDOW_SIZE .. -1
    BY <1>1, <1>3, <1>9
  <2>2. offset \notin Slots
    BY <1>1, <1>5, <2>1, AheadBehind
  <2>3. Store(p) = recv_window
    BY <2>2 DEF Store
  <2> QED
    BY <1>6, <1>7, <2>3
<1> QED
  BY <1>1, <1>8, <1>9

(* Types of the numbers the steps below compare. *)
LEMMA Numbers ==
  ASSUME TypeOK
  PROVE  /\ base \in Nat /\ next \in Nat /\ E \in Nat
         /\ WINDOW_SIZE \in Nat \ {0} /\ MAX_FRAME_INDEX \in Nat \ {0}
         /\ Len(toHost) \in Nat /\ Len(toDev) \in Nat
         /\ \A k \in 1 .. Len(toHost) : toHost[k] \in Nat
         /\ \A k \in 1 .. Len(toDev) : toDev[k] \in SackType
BY LenProperties, ElementOfSeq, Sizes DEF TypeOK, E

(* A frame appended to the line from the device's window keeps the line's  *)
(* invariant: everything sent before it is less than one window ahead.     *)
LEMMA SendKeepsWire ==
  ASSUME IInv, NEW p \in base .. next, toHost' = Append(toHost, p),
         next' \in Nat, next' >= next, p < next',
         UNCHANGED <<base, host>>
  PROVE  WireInv' /\ toHost' \in Seq(Nat)
<1>1. TypeOK /\ WireInv /\ WindowInv /\ AlignedInv
  BY DEF IInv
<1> USE <1>1, Numbers
<1>2. p \in Nat /\ toHost \in Seq(Nat)
  BY DEF TypeOK
<1>3. /\ toHost' \in Seq(Nat)
      /\ Len(toHost') = Len(toHost) + 1
      /\ \A k \in 1 .. Len(toHost) : toHost'[k] = toHost[k]
      /\ toHost'[Len(toHost) + 1] = p
  BY <1>2
<1>4. E' = E /\ E \in Nat /\ Listening' = Listening /\ recv_window' = recv_window
  BY DEF E, Listening, host
<1>5. p < next' /\ E <= p + WINDOW_SIZE
  BY <1>2 DEF WindowInv
<1>6. Listening => \A i \in Slots :
         recv_window[i] # NoFrame => E + i < p + WINDOW_SIZE
  BY <1>2 DEF WindowInv, AlignedInv, Slots
<1>7. \A j \in 1 .. Len(toHost) : toHost[j] < p + WINDOW_SIZE
  BY <1>2 DEF WindowInv, WireInv
<1>8. SUFFICES ASSUME NEW k \in 1 .. Len(toHost')
               PROVE  /\ toHost'[k] < next'
                      /\ E <= toHost'[k] + WINDOW_SIZE
                      /\ Listening => \A i \in Slots :
                           recv_window[i] # NoFrame => E + i < toHost'[k] + WINDOW_SIZE
                      /\ \A j \in 1 .. k - 1 : toHost'[j] < toHost'[k] + WINDOW_SIZE
  BY <1>3, <1>4 DEF WireInv
<1>9. CASE k = Len(toHost) + 1
  BY <1>3, <1>5, <1>6, <1>7, <1>9
<1>10. CASE k \in 1 .. Len(toHost)
  <2>1. toHost'[k] = toHost[k] /\ \A j \in 1 .. k - 1 : toHost'[j] = toHost[j]
    BY <1>3, <1>10
  <2>2. /\ toHost[k] < next
        /\ E <= toHost[k] + WINDOW_SIZE
        /\ Listening => \A i \in Slots :
             recv_window[i] # NoFrame => E + i < toHost[k] + WINDOW_SIZE
        /\ \A j \in 1 .. k - 1 : toHost[j] < toHost[k] + WINDOW_SIZE
    BY <1>10 DEF WireInv
  <2>3. toHost[k] < next'
    BY <2>2, <1>10
  <2> QED
    BY <2>1, <2>2, <2>3
<1>11. k = Len(toHost) + 1 \/ k \in 1 .. Len(toHost)
  BY <1>3
<1> HIDE Numbers, <1>1
<1> QED
  BY <1>9, <1>10, <1>11

(* DevSendNew: the frame joins the line; the host is untouched. *)
LEMMA DevSendNewKeeps ==
  ASSUME IInv, DevSendNew
  PROVE  IInv'
<1>1. TypeOK /\ InOrder /\ WireInv /\ WindowInv /\ AlignedInv /\ SackInv /\ SackedInv
  BY DEF IInv
<1> USE Numbers, <1>1 DEF DevSendNew
<1>2. next \in base .. next /\ next' = next + 1 /\ UNCHANGED <<base, host>>
  BY DEF WindowInv
<1>3. WireInv' /\ toHost' \in Seq(Nat)
  BY <1>2, SendKeepsWire
<1>4. TypeOK'
  BY <1>3 DEF TypeOK, host
<1>5. InOrder' /\ WindowInv'
  BY DEF InOrder, WindowInv, E, host
<1>6. AlignedInv'
  BY DEF AlignedInv, Listening, E, Slots, host
<1>7. SackInv' 
  <2>1. \A p : HostHas(p)' = HostHas(p)
    BY DEF HostHas, host
  <2> QED
    BY <2>1 DEF SackInv, SackType, E, Slots, host
<1>8. SackedInv'
  BY DEF SackedInv, HostHas, host
<1> QED
  BY <1>3, <1>4, <1>5, <1>6, <1>7, <1>8 DEF IInv

(* DevRetransmit: a copy of a frame of the window joins the line. *)
LEMMA DevRetransmitKeeps ==
  ASSUME IInv, NEW p \in base .. next - 1, DevRetransmit(p)
  PROVE  IInv'
<1>1. TypeOK /\ InOrder /\ WireInv /\ WindowInv /\ AlignedInv /\ SackInv /\ SackedInv
  BY DEF IInv
<1> USE Numbers, <1>1
<1>2. UNCHANGED <<base, next, sacked, toDev, host>>
  BY DEF DevRetransmit, device
<1>3. toHost' = Append(toHost, p)
  BY DEF DevRetransmit
<1>4. WireInv' /\ toHost' \in Seq(Nat)
  BY <1>2, <1>3, SendKeepsWire
<1>5. TypeOK'
  BY <1>2, <1>4 DEF TypeOK, host
<1>6. InOrder' /\ WindowInv' /\ AlignedInv' /\ SackInv' /\ SackedInv'
  BY <1>2 DEF InOrder, WindowInv, AlignedInv, SackInv, SackedInv, Listening,
              HostHas, E, host
<1> QED
  BY <1>4, <1>5, <1>6 DEF IInv

(* Removing the head of the line keeps its invariant. *)
LEMMA TailKeepsWire ==
  ASSUME TypeOK, WireInv, toHost # << >>, toHost' = Tail(toHost),
         UNCHANGED <<device, host>>
  PROVE  WireInv' /\ toHost' \in Seq(Nat)
<1> USE Numbers
<1>1. /\ toHost' \in Seq(Nat)
      /\ Len(toHost') = Len(toHost) - 1
      /\ \A i \in 1 .. Len(toHost') : toHost'[i] = toHost[i + 1]
  BY HeadTailProperties DEF TypeOK
<1>2. E' = E /\ Listening' = Listening /\ recv_window' = recv_window /\ next' = next
  BY DEF E, Listening, host, device
<1>3. SUFFICES ASSUME NEW k \in 1 .. Len(toHost')
               PROVE  /\ toHost'[k] < next
                      /\ E <= toHost'[k] + WINDOW_SIZE
                      /\ Listening => \A i \in Slots :
                           recv_window[i] # NoFrame => E + i < toHost'[k] + WINDOW_SIZE
                      /\ \A j \in 1 .. k - 1 : toHost'[j] < toHost'[k] + WINDOW_SIZE
  BY <1>1, <1>2 DEF WireInv
<1>4. k + 1 \in 1 .. Len(toHost) /\ toHost'[k] = toHost[k + 1]
  BY <1>1
<1>5. \A j \in 1 .. k - 1 : j + 1 \in 1 .. (k + 1) - 1 /\ toHost'[j] = toHost[j + 1]
  BY <1>1
<1> QED
  BY <1>4, <1>5 DEF WireInv

(* Removing the head of the SACK line keeps the claims of the others. *)
LEMMA TailKeepsSacks ==
  ASSUME TypeOK, SackInv, toDev # << >>, toDev' = Tail(toDev),
         base' \in Nat, base' <= toDev[1].at, next' = next, UNCHANGED host
  PROVE  SackInv' /\ toDev' \in Seq(SackType)
<1> USE Numbers
<1>1. /\ toDev' \in Seq(SackType)
      /\ Len(toDev') = Len(toDev) - 1
      /\ \A i \in 1 .. Len(toDev') : toDev'[i] = toDev[i + 1]
  BY HeadTailProperties DEF TypeOK
<1>2. E' = E /\ pc' = pc /\ \A p : HostHas(p)' = HostHas(p)
  BY DEF E, HostHas, host
<1>3. SUFFICES ASSUME NEW k \in 1 .. Len(toDev')
               PROVE  /\ toDev'[k].expected = Idx(toDev'[k].at)
                      /\ base' <= toDev'[k].at /\ toDev'[k].at <= E
                      /\ \A j \in 1 .. k - 1 : toDev'[j].at <= toDev'[k].at
                      /\ \A i \in toDev'[k].held :
                           /\ toDev'[k].at + i < next
                           /\ pc # "failed" => HostHas(toDev'[k].at + i)
  BY <1>1, <1>2 DEF SackInv
<1>4. k + 1 \in 1 .. Len(toDev) /\ toDev'[k] = toDev[k + 1]
  BY <1>1
<1>5. \A j \in 1 .. k - 1 : j + 1 \in 1 .. (k + 1) - 1 /\ toDev'[j] = toDev[j + 1]
  BY <1>1
<1>6. toDev[1].at <= toDev[k + 1].at
  BY <1>4 DEF SackInv
<1>7. base' <= toDev[k + 1].at
  <2>1. 1 \in 1 .. Len(toDev)
    BY <1>4
  <2>2. toDev[1].at \in Nat /\ toDev[k + 1].at \in Nat
    BY <1>4, <2>1 DEF SackType
  <2> QED
    BY <1>6, <2>2
<1> QED
  BY <1>4, <1>5, <1>7 DEF SackInv

(* LoseFrame: one frame fewer on the line. *)
LEMMA LoseFrameKeeps ==
  ASSUME IInv, LoseFrame
  PROVE  IInv'
<1>1. TypeOK /\ InOrder /\ WireInv /\ WindowInv /\ AlignedInv /\ SackInv /\ SackedInv
  BY DEF IInv
<1>2. WireInv' /\ toHost' \in Seq(Nat)
  BY <1>1, TailKeepsWire DEF LoseFrame
<1>3. UNCHANGED <<device, toDev, host>>
  BY DEF LoseFrame
<1>4. TypeOK'
  BY <1>1, <1>2, <1>3 DEF TypeOK, device, host
<1>5. InOrder' /\ WindowInv' /\ AlignedInv' /\ SackInv' /\ SackedInv'
  BY <1>1, <1>3 DEF InOrder, WindowInv, AlignedInv, SackInv, SackedInv,
                    Listening, HostHas, E, device, host
<1> QED
  BY <1>2, <1>4, <1>5 DEF IInv

(* LoseSack: one claim fewer on the line. *)
LEMMA LoseSackKeeps ==
  ASSUME IInv, LoseSack
  PROVE  IInv'
<1>1. TypeOK /\ InOrder /\ WireInv /\ WindowInv /\ AlignedInv /\ SackInv /\ SackedInv
  BY DEF IInv
<1>2. UNCHANGED <<device, toHost, host>> /\ base' = base /\ next' = next
  BY DEF LoseSack, device
<1>3. 1 \in 1 .. Len(toDev)
  BY <1>1, Numbers, EmptySeq DEF TypeOK, LoseSack
<1>4. SackInv' /\ toDev' \in Seq(SackType)
  BY <1>1, <1>2, <1>3, Numbers, TailKeepsSacks DEF LoseSack, SackInv
<1>5. TypeOK'
  BY <1>1, <1>2, <1>4 DEF TypeOK, device, host
<1>6. InOrder' /\ WindowInv' /\ AlignedInv' /\ WireInv' /\ SackedInv'
  BY <1>1, <1>2 DEF InOrder, WindowInv, AlignedInv, WireInv, SackedInv,
                    Listening, HostHas, E, device, host
<1> QED
  BY <1>4, <1>5, <1>6 DEF IInv

(* The device reads an index and advances by the distance it names: because *)
(* SACKs arrive in order, that is exactly the position the host meant.     *)
LEMMA SackMovesBase ==
  ASSUME IInv, DevHandleSack
  PROVE  /\ 1 \in 1 .. Len(toDev) /\ Head(toDev) = toDev[1]
         /\ base' = toDev[1].at
         /\ base' \in base .. E
<1>1. TypeOK /\ WindowInv /\ SackInv
  BY DEF IInv
<1> USE Numbers, <1>1
<1> DEFINE s == toDev[1]
<1>2. 1 \in 1 .. Len(toDev) /\ Head(toDev) = s /\ s \in SackType
  BY EmptySeq DEF TypeOK, DevHandleSack
<1>3. s.expected = Idx(s.at) /\ base <= s.at /\ s.at <= E /\ s.at \in Nat
  BY <1>2 DEF SackInv, SackType
<1>4. s.at - base \in 0 .. MAX_FRAME_INDEX - 1
  BY <1>3, Sizes DEF WindowInv
<1>5. Ahead(Idx(base), s.expected) = s.at - base
  BY <1>3, <1>4, AheadForward
<1>6. base' = base + Ahead(Idx(base), s.expected)
  BY <1>2 DEF DevHandleSack
<1> QED
  BY <1>2, <1>3, <1>5, <1>6

(* DevHandleSack: the device learns what the host has, and no more. *)
LEMMA DevHandleSackKeeps ==
  ASSUME IInv, DevHandleSack
  PROVE  IInv'
<1>1. TypeOK /\ InOrder /\ WireInv /\ WindowInv /\ AlignedInv /\ SackInv /\ SackedInv
  BY DEF IInv
<1> USE Numbers, <1>1
<1> DEFINE s == toDev[1]
<1>2. UNCHANGED <<next, toHost, host>> /\ toDev' = Tail(toDev) /\ toDev # << >>
  BY DEF DevHandleSack
<1>3. 1 \in 1 .. Len(toDev) /\ Head(toDev) = s /\ s \in SackType
  BY <1>2, EmptySeq DEF TypeOK
<1>4. /\ s.expected = Idx(s.at) /\ base <= s.at /\ s.at <= E /\ s.at \in Nat
      /\ \A i \in s.held : s.at + i < next /\ (pc # "failed" => HostHas(s.at + i))
  BY <1>3 DEF SackInv, SackType
<1>5. base' = s.at
  BY SackMovesBase
<1>6. sacked' = {p \in s.at .. next - 1 : p \in sacked \/ p - s.at \in s.held}
  BY <1>3, <1>5 DEF DevHandleSack
<1>7. SackInv' /\ toDev' \in Seq(SackType)
  BY <1>2, <1>4, <1>5, TailKeepsSacks
<1>8. TypeOK'
  BY <1>2, <1>4, <1>5, <1>6, <1>7 DEF TypeOK, host
<1>9. InOrder' /\ AlignedInv' /\ WireInv'
  BY <1>2 DEF InOrder, AlignedInv, WireInv, Listening, E, host
<1>10. WindowInv'
  BY <1>2, <1>4, <1>5, <1>6 DEF WindowInv, E, host
<1>11. SackedInv'
  <2> SUFFICES ASSUME pc # "failed", NEW p \in sacked'
               PROVE  HostHas(p)
    BY <1>2 DEF SackedInv, HostHas, host
  <2>1. CASE p \in sacked
    BY <2>1 DEF SackedInv
  <2>2. CASE p - s.at \in s.held
    <3>1. p = s.at + (p - s.at)
      BY <1>4, <1>6
    <3> QED
      BY <1>4, <2>2, <3>1
  <2> QED
    BY <1>6, <2>1, <2>2
<1> QED
  BY <1>7, <1>8, <1>9, <1>10, <1>11 DEF IInv

(* Receive: the old copy of a frame is ignored, any other goes to its slot, *)
(* and the frames still on the line stay within a window of it.            *)
LEMMA ReceiveKeeps ==
  ASSUME IInv, Receive
  PROVE  IInv'
<1>1. TypeOK /\ InOrder /\ WireInv /\ WindowInv /\ AlignedInv /\ SackInv /\ SackedInv
  BY DEF IInv
<1> USE Numbers, <1>1
<1> DEFINE p == Head(toHost)
<1>2. /\ pc = "wait" /\ pc' = "drain" /\ toHost # << >> /\ toHost' = Tail(toHost)
      /\ recv_window' = Store(p)
      /\ UNCHANGED <<device, toDev, expected_frame_index, delivered>>
  BY DEF Receive
<1>3. /\ recv_window' \in [Slots -> Nat \cup {NoFrame}]
      /\ \A i \in Slots : recv_window'[i] # NoFrame =>
           /\ recv_window'[i] = E + i
           /\ E + i < next
           /\ recv_window[i] = NoFrame => E + i = p
      /\ \A i \in Slots : recv_window[i] # NoFrame =>
                            recv_window'[i] = recv_window[i]
  BY <1>2, StoreAligned
<1>4. /\ toHost' \in Seq(Nat)
      /\ Len(toHost') = Len(toHost) - 1
      /\ \A i \in 1 .. Len(toHost') : toHost'[i] = toHost[i + 1]
  BY <1>2, HeadTailProperties DEF TypeOK
<1>5. E' = E /\ next' = next /\ base' = base /\ sacked' = sacked
  BY <1>2 DEF E, device
<1>6. TypeOK'
  BY <1>2, <1>3, <1>4 DEF TypeOK, device
<1>7. InOrder' /\ WindowInv'
  BY <1>2, <1>5 DEF InOrder, WindowInv
<1>8. AlignedInv'
  BY <1>2, <1>3, <1>5 DEF AlignedInv, Listening
<1>9. \A q \in Nat : HostHas(q) => HostHas(q)'
  <2> SUFFICES ASSUME NEW q \in Nat, HostHas(q)
               PROVE  HostHas(q)'
    OBVIOUS
  <2>1. CASE q < E
    BY <2>1, <1>5 DEF HostHas, E
  <2>2. CASE \E i \in Slots : recv_window[i] = q
    BY <2>2, <1>3, NoFrameFresh DEF HostHas
  <2> QED
    BY <2>1, <2>2 DEF HostHas, E
<1>10. SackInv'
  <2> SUFFICES ASSUME NEW k \in 1 .. Len(toDev), NEW i \in toDev[k].held
               PROVE  HostHas(toDev[k].at + i)'
    BY <1>2, <1>5 DEF SackInv
  <2>1. toDev[k].at + i \in Nat
    BY DEF SackType, Slots
  <2> QED
    BY <1>2, <1>9, <2>1 DEF SackInv
<1>11. SackedInv'
  BY <1>2, <1>5, <1>9 DEF SackedInv, TypeOK
<1>12. WireInv'
  <2> SUFFICES ASSUME NEW k \in 1 .. Len(toHost')
               PROVE  /\ toHost'[k] < next
                      /\ E <= toHost'[k] + WINDOW_SIZE
                      /\ \A i \in Slots :
                           recv_window'[i] # NoFrame => E + i < toHost'[k] + WINDOW_SIZE
                      /\ \A j \in 1 .. k - 1 : toHost'[j] < toHost'[k] + WINDOW_SIZE
    BY <1>5 DEF WireInv
  <2>1. k + 1 \in 1 .. Len(toHost) /\ toHost'[k] = toHost[k + 1]
    BY <1>4
  <2>2. ASSUME NEW j \in 1 .. k - 1
        PROVE  j + 1 \in 1 .. (k + 1) - 1 /\ toHost'[j] = toHost[j + 1]
    <3>1. j \in 1 .. Len(toHost')
      BY <1>4
    <3> QED
      BY <1>4, <3>1
  <2>3. p = toHost[1] /\ 1 \in 1 .. (k + 1) - 1
    BY <2>1 DEF TypeOK
  <2>4. p < toHost[k + 1] + WINDOW_SIZE
    BY <2>1, <2>3 DEF WireInv
  <2>5. ASSUME NEW i \in Slots, recv_window'[i] # NoFrame
        PROVE  E + i < toHost[k + 1] + WINDOW_SIZE
    <3>1. CASE recv_window[i] = NoFrame
      BY <1>3, <2>4, <2>5, <3>1
    <3>2. CASE recv_window[i] # NoFrame
      BY <1>2, <2>1, <3>2 DEF WireInv, Listening
    <3> QED
      BY <3>1, <3>2
  <2> QED
    BY <2>1, <2>2, <2>5 DEF WireInv
<1> QED
  BY <1>6, <1>7, <1>8, <1>10, <1>11, <1>12 DEF IInv

(* Pop: the frame in slot 0 is the one expected; the rest moves down. *)
LEMMA PopKeeps ==
  ASSUME IInv, Pop
  PROVE  IInv'
<1>1. TypeOK /\ InOrder /\ WireInv /\ WindowInv /\ AlignedInv /\ SackInv /\ SackedInv
  BY DEF IInv
<1> USE Numbers, <1>1
<1>2. /\ pc = "drain" /\ pc' = "drain"
      /\ recv_window[0] # NoFrame
      /\ delivered' = Append(delivered, recv_window[0])
      /\ recv_window' = ShiftedWindow
      /\ expected_frame_index' = (expected_frame_index + 1) % MAX_FRAME_INDEX
      /\ UNCHANGED <<device, toHost, toDev>>
  BY DEF Pop, Ready
<1>3. 0 \in Slots
  BY DEF Slots
<1>4. recv_window[0] = E /\ E < next /\ expected_frame_index = Idx(E)
  BY <1>2, <1>3 DEF AlignedInv, Listening
<1>5. /\ delivered' \in Seq(Nat) /\ E' = E + 1
      /\ \A i \in 1 .. E : delivered'[i] = delivered[i]
      /\ delivered'[E + 1] = E
  BY <1>2, <1>4 DEF TypeOK, E
<1>6. next' = next /\ base' = base /\ sacked' = sacked
  BY <1>2 DEF device
<1>7. /\ \A i \in Slots : recv_window'[i] # NoFrame =>
           i + 1 \in Slots /\ recv_window'[i] = recv_window[i + 1]
      /\ \A i \in Slots : i # 0 =>
           i - 1 \in Slots /\ recv_window'[i - 1] = recv_window[i]
  BY <1>2 DEF ShiftedWindow, Slots
<1>8. TypeOK'
  <2>1. recv_window' \in [Slots -> Nat \cup {NoFrame}]
    BY <1>2 DEF TypeOK, ShiftedWindow, Slots
  <2>2. expected_frame_index' \in 0 .. MAX_FRAME_INDEX - 1
    BY <1>2, <1>4, E + 1 \in Nat, IdxRange
  <2> QED
    BY <1>2, <1>5, <2>1, <2>2 DEF TypeOK, device
<1>9. InOrder'
  <2> SUFFICES ASSUME NEW i \in 1 .. E + 1
               PROVE  delivered'[i] = i - 1
    BY <1>5 DEF InOrder, E
  <2>1. CASE i = E + 1
    BY <1>5, <2>1
  <2>2. CASE i \in 1 .. E
    BY <1>5, <2>2 DEF InOrder, E
  <2> QED
    BY <2>1, <2>2
<1>10. WindowInv'
  BY <1>4, <1>5, <1>6 DEF WindowInv
<1>11. AlignedInv'
  <2>1. expected_frame_index' = Idx(E')
    BY <1>2, <1>4, <1>5, IdxRange
  <2>2. ASSUME NEW i \in Slots, recv_window'[i] # NoFrame
        PROVE  recv_window'[i] = (E + 1) + i /\ (E + 1) + i < next
    <3>1. i + 1 \in Slots /\ recv_window'[i] = recv_window[i + 1]
      BY <1>7, <2>2
    <3>2. recv_window[i + 1] = E + (i + 1) /\ E + (i + 1) < next
      BY <1>2, <2>2, <3>1 DEF AlignedInv, Listening
    <3> QED
      BY <3>1, <3>2 DEF Slots
  <2> QED
    BY <1>5, <1>6, <2>1, <2>2 DEF AlignedInv
<1>12. WireInv'
  <2> SUFFICES ASSUME NEW k \in 1 .. Len(toHost)
               PROVE  /\ toHost[k] < next
                      /\ E + 1 <= toHost[k] + WINDOW_SIZE
                      /\ \A i \in Slots :
                           recv_window'[i] # NoFrame =>
                             (E + 1) + i < toHost[k] + WINDOW_SIZE
                      /\ \A j \in 1 .. k - 1 : toHost[j] < toHost[k] + WINDOW_SIZE
    BY <1>2, <1>5, <1>6 DEF WireInv
  <2>1. \A i \in Slots : recv_window[i] # NoFrame => E + i < toHost[k] + WINDOW_SIZE
    BY <1>2 DEF WireInv, Listening
  <2>2. E + 1 <= toHost[k] + WINDOW_SIZE
    BY <1>2, <1>3, <2>1
  <2>3. ASSUME NEW i \in Slots, recv_window'[i] # NoFrame
        PROVE  (E + 1) + i < toHost[k] + WINDOW_SIZE
    <3>1. i + 1 \in Slots /\ recv_window[i + 1] # NoFrame
      BY <1>7, <2>3
    <3>2. E + (i + 1) < toHost[k] + WINDOW_SIZE
      BY <2>1, <3>1
    <3> QED
      BY <3>2 DEF Slots
  <2> QED
    BY <2>2, <2>3 DEF WireInv
<1>13. \A q \in Nat : HostHas(q) => HostHas(q)'
  <2> SUFFICES ASSUME NEW q \in Nat, HostHas(q)
               PROVE  q < E + 1 \/ \E i \in Slots : recv_window'[i] = q
    BY <1>5 DEF HostHas, E
  <2>1. CASE q < E
    BY <2>1
  <2>2. ASSUME NEW i \in Slots, recv_window[i] = q
        PROVE  q < E + 1 \/ \E j \in Slots : recv_window'[j] = q
    <3>1. CASE i = 0
      BY <1>4, <2>2, <3>1
    <3>2. CASE i # 0
      <4>1. i - 1 \in Slots /\ recv_window'[i - 1] = q
        BY <1>7, <2>2, <3>2
      <4> QED
        BY <4>1
    <3> QED
      BY <3>1, <3>2
  <2> QED
    BY <2>1, <2>2 DEF HostHas, E
<1>14. SackInv'
  <2> SUFFICES ASSUME NEW k \in 1 .. Len(toDev)
               PROVE  /\ toDev[k].at <= E + 1
                      /\ \A i \in toDev[k].held : HostHas(toDev[k].at + i)'
    BY <1>2, <1>5, <1>6 DEF SackInv
  <2>1. toDev[k].at <= E /\ toDev[k].at \in Nat
    BY DEF SackInv, SackType
  <2>2. \A i \in toDev[k].held : toDev[k].at + i \in Nat
    BY DEF SackType, Slots
  <2> QED
    BY <1>2, <1>13, <2>1, <2>2 DEF SackInv
<1>15. SackedInv'
  BY <1>2, <1>6, <1>13 DEF SackedInv, TypeOK
<1> QED
  BY <1>8, <1>9, <1>10, <1>11, <1>12, <1>14, <1>15 DEF IInv

(* SendSack: what the SACK claims is what the host has at this moment. *)
LEMMA SendSackKeeps ==
  ASSUME IInv, SendSack
  PROVE  IInv'
<1>1. TypeOK /\ InOrder /\ WireInv /\ WindowInv /\ AlignedInv /\ SackInv /\ SackedInv
  BY DEF IInv
<1> USE Numbers, <1>1
<1>2. /\ pc = "drain" /\ pc' = "wait"
      /\ toDev' = Append(toDev, Sack)
      /\ UNCHANGED <<device, toHost, recv_window, expected_frame_index, delivered>>
  BY DEF SendSack
<1>3. E' = E /\ next' = next /\ base' = base /\ sacked' = sacked
  BY <1>2 DEF E, device
<1>4. Sack \in SackType
  BY DEF Sack, SackType, TypeOK, E
<1>5. /\ Sack.expected = Idx(E) /\ Sack.at = E
      /\ \A i \in Sack.held : i \in Slots /\ recv_window[i] = E + i /\ E + i < next
  BY <1>2 DEF Sack, AlignedInv, Listening, E
<1>6. /\ toDev' \in Seq(SackType)
      /\ Len(toDev') = Len(toDev) + 1
      /\ \A k \in 1 .. Len(toDev) : toDev'[k] = toDev[k]
      /\ toDev'[Len(toDev) + 1] = Sack
  BY <1>2, <1>4 DEF TypeOK
<1>7. TypeOK'
  BY <1>2, <1>6 DEF TypeOK, device
<1>8. InOrder' /\ WindowInv' /\ AlignedInv' /\ WireInv' /\ SackedInv'
  BY <1>2, <1>3 DEF InOrder, WindowInv, AlignedInv, WireInv, SackedInv,
                    Listening, HostHas
<1>9. \A q : HostHas(q)' = HostHas(q)
  BY <1>2 DEF HostHas
<1>10. SackInv'
  <2> SUFFICES ASSUME NEW k \in 1 .. Len(toDev) + 1
               PROVE  /\ toDev'[k].expected = Idx(toDev'[k].at)
                      /\ base <= toDev'[k].at /\ toDev'[k].at <= E
                      /\ \A j \in 1 .. k - 1 : toDev'[j].at <= toDev'[k].at
                      /\ \A i \in toDev'[k].held :
                           toDev'[k].at + i < next /\ HostHas(toDev'[k].at + i)
    BY <1>2, <1>3, <1>6, <1>9 DEF SackInv
  <2>1. CASE k = Len(toDev) + 1
    <3>1. toDev'[k] = Sack
      BY <1>6, <2>1
    <3>2. \A i \in Sack.held : E + i < next /\ HostHas(E + i)
      BY <1>5 DEF HostHas
    <3>3. base <= E
      BY DEF WindowInv
    <3>4. \A j \in 1 .. k - 1 : toDev'[j].at <= E
      BY <1>6, <2>1 DEF SackInv
    <3> QED
      BY <1>5, <3>1, <3>2, <3>3, <3>4
  <2>2. CASE k \in 1 .. Len(toDev)
    <3>1. toDev'[k] = toDev[k] /\ \A j \in 1 .. k - 1 : toDev'[j] = toDev[j]
      BY <1>6, <2>2
    <3> QED
      BY <1>2, <2>2, <3>1 DEF SackInv
  <2> QED
    BY <2>1, <2>2
<1> QED
  BY <1>7, <1>8, <1>10 DEF IInv

(* Complete: the window stays as it is. *)
LEMMA CompleteKeeps ==
  ASSUME IInv, Complete
  PROVE  IInv'
<1>1. /\ pc = "wait" /\ pc' = "done"
      /\ UNCHANGED <<device, toHost, toDev, recv_window, expected_frame_index,
                     delivered>>
  BY DEF Complete
<1> QED
  BY <1>1 DEF IInv, TypeOK, InOrder, WindowInv, AlignedInv, WireInv, SackInv,
              SackedInv, Listening, HostHas, E, device

(* GiveUp: the window is thrown away and nothing is claimed any more. *)
LEMMA GiveUpKeeps ==
  ASSUME IInv, GiveUp
  PROVE  IInv'
<1>1. /\ pc' = "failed" /\ recv_window' = EmptyWindow /\ expected_frame_index' = 0
      /\ UNCHANGED <<device, toHost, toDev, delivered>>
  BY DEF GiveUp
<1>2. TypeOK'
  BY <1>1, Sizes DEF IInv, TypeOK, EmptyWindow, device
<1>3. InOrder' /\ WindowInv' /\ AlignedInv' /\ WireInv' /\ SackInv' /\ SackedInv'
  BY <1>1 DEF IInv, InOrder, WindowInv, AlignedInv, WireInv, SackInv, SackedInv,
              Listening, E, device
<1> QED
  BY <1>2, <1>3 DEF IInv

(* Every step keeps the inductive invariant. *)
LEMMA NextIInv == IInv /\ [Next]_vars => IInv'
<1> SUFFICES ASSUME IInv, [Next]_vars PROVE IInv'
  OBVIOUS
<1>1. CASE Next
  BY <1>1, DevSendNewKeeps, DevRetransmitKeeps, DevHandleSackKeeps, LoseFrameKeeps,
     LoseSackKeeps, ReceiveKeeps, PopKeeps, SendSackKeeps, CompleteKeeps,
     GiveUpKeeps DEF Next
<1>2. CASE UNCHANGED vars
  BY <1>2 DEF vars, device, host, IInv, TypeOK, InOrder, WindowInv, AlignedInv,
              WireInv, SackInv, SackedInv, Listening, HostHas, E
<1> QED
  BY <1>1, <1>2

-----------------------------------------------------------------------------
(* Theorems. *)

(* The inductive invariant holds in every behaviour of the link. *)
THEOREM InductiveInvariant == Spec => []IInv
<1>1. Init => IInv
  BY InitIInv
<1>2. IInv /\ [Next]_vars => IInv'
  BY NextIInv
<1> QED
  BY <1>1, <1>2, PTL DEF Spec

(* Type correctness of recv_window, the expected index and the line. *)
THEOREM TypeCorrect == Spec => []TypeOK
<1>1. IInv => TypeOK
  BY DEF IInv
<1> QED
  BY <1>1, InductiveInvariant, PTL

(* The frames popped by swp_pop_next_in_order_frame are those of the       *)
(* response, in order and exactly once.                                    *)
THEOREM DeliveryInOrder == Spec => []InOrder
<1>1. IInv => InOrder
  BY DEF IInv
<1> QED
  BY <1>1, InductiveInvariant, PTL

(* A frame the device was told not to send again is with the host: what    *)
(* send_sack_ack reports never runs ahead of recv_window.                  *)
THEOREM NothingForgotten == Spec => []AckedIsHeld
<1>1. IInv => AckedIsHeld
  <2> SUFFICES ASSUME IInv, pc # "failed", NEW p \in 0 .. next - 1,
                      p < base \/ p \in sacked
               PROVE  HostHas(p)
    BY DEF AckedIsHeld
  <2>1. CASE p < base
    <3>1. p < Len(delivered)
      BY <2>1, Numbers DEF IInv, WindowInv, E
    <3> QED
      BY <3>1 DEF HostHas
  <2>2. CASE p \in sacked
    BY <2>2 DEF IInv, SackedInv
  <2> QED
    BY <2>1, <2>2
<1> QED
  BY <1>1, InductiveInvariant, PTL

(* A step of the link is a step of Delivery, or changes nothing it sees. *)
LEMMA StepImplements == IInv /\ [Next]_vars => [Promise!Next]_(Promise!vars)
<1> SUFFICES ASSUME IInv, [Next]_vars PROVE [Promise!Next]_(Promise!vars)
  OBVIOUS
<1> USE DEF Promise!Next, Promise!vars, Promise!Deliver, Promise!Confirm
<1>1. CASE Pop
  <2>1. recv_window[0] = Len(delivered)
    BY <1>1, Numbers DEF Pop, Ready, IInv, AlignedInv, Listening, Slots, E
  <2> QED
    BY <1>1, <2>1 DEF Pop, device
<1>2. CASE DevHandleSack
  <2>1. base' \in base .. Len(delivered)
    BY <1>2, SackMovesBase DEF E
  <2> QED
    BY <1>2, <2>1 DEF DevHandleSack, host
<1>3. CASE DevSendNew \/ LoseFrame \/ LoseSack \/ Receive
           \/ (\E p \in base .. next - 1 : DevRetransmit(p)) \/ SendSack \/ Complete \/ GiveUp \/ UNCHANGED vars
  BY <1>3 DEF DevSendNew, DevRetransmit, LoseFrame, LoseSack, Receive, SendSack,
              Complete, GiveUp, vars, device, host
<1> QED
  BY <1>1, <1>2, <1>3 DEF Next

(* The receive loop over a lossy line implements ordered, exactly-once     *)
(* delivery with confirmations that never run ahead of it.                 *)
THEOREM LinkImplementsDelivery == Spec => ImplementsDelivery
<1>1. Init => Promise!Init
  BY DEF Init, Promise!Init
<1>2. IInv /\ [Next]_vars => [Promise!Next]_(Promise!vars)
  BY StepImplements
<1> QED
  BY <1>1, <1>2, InductiveInvariant, PTL DEF Spec, ImplementsDelivery, Promise!Spec
=============================================================================
