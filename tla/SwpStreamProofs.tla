--------------------------- MODULE SwpStreamProofs ---------------------------
(***************************************************************************)
(* Proofs about SwpStream for every window, index space, response, number  *)
(* of losses and of restarts of the device, and setting of the timers: the *)
(* link underneath keeps its promises between two RESETs, and a success of *)
(* the call is a whole response.                                           *)
(***************************************************************************)
EXTENDS SwpStream, SwpLinkProofs

-----------------------------------------------------------------------------
(* The clock and the collector only ever restrict the link; what starts it *)
(* anew is a restart of the device and, at the host, the RESET.            *)

HostTakesReset == HostHandlesControl /\ TakesReset

LEMMA StreamStepIsLinkStep ==
  StreamNext /\ ~DeviceRestarts /\ ~HostTakesReset =>
    [Next]_vars /\ UNCHANGED <<resetOnLine, resets>>
<1> SUFFICES ASSUME StreamNext, ~DeviceRestarts, ~HostTakesReset
             PROVE  [Next]_vars /\ UNCHANGED <<resetOnLine, resets>>
  OBVIOUS
<1> USE DEF controlVars
<1>1. CASE HostStep
  BY <1>1 DEF HostStep, HostReceivesNothing, HostHandlesControl, HostTakesReset, HostReceives,
     HostNacks, HostPops, HostSendsSack, HostRejects, HostTimesOut, HostCompletes, Next
<1>2. CASE DeviceStep
  BY <1>2 DEF DeviceStep, DeviceGetsRequest, DeviceSends, DeviceResends, DeviceHandlesSack,
     Outstanding, Next
<1>3. CASE LineStep
  BY <1>3 DEF LineStep, LineLosesRequest, LineLosesAck, LineLosesFrame, LineLosesSack, Next
<1>4. CASE Tick \/ Returned
  BY <1>4 DEF Tick, Returned, svars
<1> QED
  BY <1>1, <1>2, <1>3, <1>4 DEF StreamNext

(* From the restart to the RESET, the device begins a response that the    *)
(* host does not yet receive: no SACK comes back, so it sends one window.  *)
RecoveringInv ==
  /\ TypeOK
  /\ base = 0 /\ sacked = {} /\ toDev = << >> /\ next <= WINDOW_SIZE
  /\ \A k \in 1 .. Len(toHost) : toHost[k] < next
  /\ pc # "drain"

LinkInv ==
  /\ resetOnLine \in BOOLEAN
  /\ resetOnLine => RecoveringInv
  /\ ~resetOnLine => IInv

LEMMA Zero == 0 \in Nat /\ 0 \in 0 .. MAX_FRAME_INDEX - 1 /\ Idx(0) = 0
BY Sizes, ModSmall DEF Idx

LEMMA EmptyIsWindow == EmptyWindow \in [Slots -> Nat \cup {NoFrame}]
BY DEF EmptyWindow

LEMMA RestartRecovers ==
  ASSUME TypeOK, DeviceRestarts
  PROVE  RecoveringInv' /\ resetOnLine' = TRUE
<1>1. /\ base' = 0 /\ next' = 0 /\ sacked' = {} /\ toHost' = << >> /\ toDev' = << >>
      /\ resetOnLine' = TRUE /\ pc = "wait"
      /\ UNCHANGED <<recv_window, expected_frame_index, pc, delivered>>
  BY DEF DeviceRestarts, Restart, host
<1>2. TypeOK'
  BY <1>1 DEF TypeOK
<1>3. 0 <= WINDOW_SIZE /\ Len(<< >>) = 0
  BY Sizes
<1> QED
  BY <1>1, <1>2, <1>3 DEF RecoveringInv

(* The RESET meets a receiver whose device has sent at most one window,    *)
(* and leaves a link as if it had just been opened.                        *)
LEMMA ResetRestores ==
  ASSUME RecoveringInv, TakesReset
  PROVE  IInv' /\ resetOnLine' = FALSE
<1> USE Numbers
<1>1. /\ resetOnLine' = FALSE /\ recv_window' = EmptyWindow /\ expected_frame_index' = 0
      /\ delivered' = << >> /\ UNCHANGED <<base, next, sacked, toHost, toDev, pc>>
  BY DEF TakesReset, device
<1>2. TypeOK'
  BY <1>1, Zero, EmptyIsWindow DEF RecoveringInv, TypeOK
<1>3. E' = 0 /\ Len(delivered') = 0 /\ Len(toDev) = 0
  BY <1>1 DEF RecoveringInv, E
<1>4. next \in Nat /\ base = 0 /\ WINDOW_SIZE \in Nat /\ next <= WINDOW_SIZE
  BY Sizes DEF RecoveringInv, TypeOK
<1>5. InOrder'
  BY <1>3 DEF InOrder
<1>6. WindowInv'
  BY <1>1, <1>3, <1>4 DEF WindowInv, RecoveringInv
<1>7. \A i \in Slots : recv_window'[i] = NoFrame
  BY <1>1 DEF EmptyWindow
<1>8. AlignedInv'
  BY <1>1, <1>3, <1>7, Zero DEF AlignedInv, Idx, Slots
<1>9. WireInv'
  <2> SUFFICES ASSUME NEW k \in 1 .. Len(toHost)
               PROVE  /\ toHost[k] < next
                      /\ 0 <= toHost[k] + WINDOW_SIZE
                      /\ \A j \in 1 .. k - 1 : toHost[j] < toHost[k] + WINDOW_SIZE
    BY <1>1, <1>3, <1>7 DEF WireInv, Slots
  <2>1. toHost \in Seq(Nat) /\ \A j \in 1 .. Len(toHost) : toHost[j] \in Nat /\ toHost[j] < next
    BY DEF RecoveringInv, TypeOK
  <2>2. \A j \in 1 .. k - 1 : j \in 1 .. Len(toHost)
    BY <2>1, LenProperties
  <2> QED
    BY <1>4, <2>1, <2>2
<1>10. SackInv' /\ SackedInv'
  BY <1>1, <1>3 DEF SackInv, SackedInv, RecoveringInv
<1> QED
  BY <1>1, <1>2, <1>5, <1>6, <1>8, <1>9, <1>10 DEF IInv

(* While the RESET is on its way, nothing but new copies reaches the line. *)
LEMMA RecoveringStep ==
  ASSUME RecoveringInv, resetOnLine = TRUE, StreamNext, ~DeviceRestarts, ~HostTakesReset
  PROVE  RecoveringInv'
<1> USE Numbers
<1>1. /\ TypeOK /\ base = 0 /\ sacked = {} /\ toDev = << >> /\ next <= WINDOW_SIZE
      /\ pc # "drain" /\ \A k \in 1 .. Len(toHost) : toHost[k] < next
      /\ next \in Nat /\ WINDOW_SIZE \in Nat /\ toHost \in Seq(Nat) /\ Len(toHost) \in Nat
  BY Sizes, LenProperties DEF RecoveringInv, TypeOK
<1>2. CASE DevSendNew
  <2>1. /\ next < WINDOW_SIZE /\ toHost' = Append(toHost, next) /\ next' = next + 1
        /\ UNCHANGED <<base, sacked, toDev, recv_window, expected_frame_index, pc, delivered>>
    BY <1>1, <1>2 DEF DevSendNew, host
  <2>2. /\ toHost' \in Seq(Nat) /\ Len(toHost') = Len(toHost) + 1
        /\ \A k \in 1 .. Len(toHost) : toHost'[k] = toHost[k]
        /\ toHost'[Len(toHost) + 1] = next
    BY <1>1, <2>1, AppendProperties
  <2>3. \A k \in 1 .. Len(toHost) : toHost[k] \in Nat
    BY <1>1
  <2>4. \A k \in 1 .. Len(toHost') : toHost'[k] < next'
    BY <1>1, <2>1, <2>2, <2>3
  <2> QED
    BY <1>1, <2>1, <2>2, <2>4 DEF RecoveringInv, TypeOK
<1>3. CASE \E p \in base .. next - 1 : DevRetransmit(p)
  <2>1. PICK p \in base .. next - 1 : DevRetransmit(p)
    BY <1>3
  <2>2. /\ toHost' = Append(toHost, p) /\ p \in Nat /\ p < next
        /\ UNCHANGED <<base, next, sacked, toDev, recv_window, expected_frame_index, pc,
                       delivered>>
    BY <1>1, <2>1 DEF DevRetransmit, device, host
  <2>3. /\ toHost' \in Seq(Nat) /\ Len(toHost') = Len(toHost) + 1
        /\ \A k \in 1 .. Len(toHost) : toHost'[k] = toHost[k]
        /\ toHost'[Len(toHost) + 1] = p
    BY <1>1, <2>2, AppendProperties
  <2>4. \A k \in 1 .. Len(toHost') : toHost'[k] < next'
    BY <1>1, <2>2, <2>3
  <2> QED
    BY <1>1, <2>2, <2>3, <2>4 DEF RecoveringInv, TypeOK
<1>4. CASE LoseFrame
  <2>1. /\ toHost # << >> /\ toHost' = Tail(toHost)
        /\ UNCHANGED <<base, next, sacked, toDev, recv_window, expected_frame_index, pc,
                       delivered>>
    BY <1>4 DEF LoseFrame, device, host
  <2>2. /\ toHost' \in Seq(Nat) /\ Len(toHost') = Len(toHost) - 1
        /\ \A k \in 1 .. Len(toHost') : toHost'[k] = toHost[k + 1]
    BY <1>1, <2>1, HeadTailProperties
  <2>3. \A k \in 1 .. Len(toHost') : toHost'[k] < next'
    BY <1>1, <2>1, <2>2
  <2> QED
    BY <1>1, <2>1, <2>2, <2>3 DEF RecoveringInv, TypeOK
<1>5. CASE Complete
  BY <1>1, <1>5 DEF Complete, device, RecoveringInv, TypeOK
<1>6. CASE GiveUp
  BY <1>1, <1>6, Zero, EmptyIsWindow DEF GiveUp, device, RecoveringInv, TypeOK
<1>7. CASE UNCHANGED vars
  BY <1>1, <1>7 DEF vars, device, host, RecoveringInv, TypeOK
<1>8. ~Pop /\ ~SendSack /\ ~DevHandleSack /\ ~LoseSack
  BY <1>1 DEF Pop, SendSack, DevHandleSack, LoseSack
<1>9. \/ DevSendNew \/ LoseFrame \/ Complete \/ GiveUp \/ UNCHANGED vars
      \/ \E p \in base .. next - 1 : DevRetransmit(p)
  <2>1. ASSUME HostStep
        PROVE  LoseFrame \/ Complete \/ GiveUp \/ UNCHANGED vars
    BY <1>8, <2>1 DEF HostStep, HostReceivesNothing, HostHandlesControl, HostTakesReset,
       HostReceives, HostNacks, HostPops, HostSendsSack, HostRejects, HostTimesOut,
       HostCompletes
  <2>2. ASSUME DeviceStep
        PROVE  DevSendNew \/ UNCHANGED vars \/ \E p \in base .. next - 1 : DevRetransmit(p)
    BY <1>8, <2>2 DEF DeviceStep, DeviceGetsRequest, DeviceSends, DeviceResends,
       DeviceHandlesSack, Outstanding
  <2>3. ASSUME LineStep \/ Tick \/ Returned
        PROVE  LoseFrame \/ UNCHANGED vars
    BY <1>8, <2>3 DEF LineStep, LineLosesRequest, LineLosesAck, LineLosesFrame,
       LineLosesSack, Tick, Returned, svars
  <2> QED
    BY <2>1, <2>2, <2>3 DEF StreamNext
<1> QED
  BY <1>2, <1>3, <1>4, <1>5, <1>6, <1>7, <1>9

LEMMA LinkInvStep == LinkInv /\ [StreamNext]_svars => LinkInv'
<1> SUFFICES ASSUME LinkInv, [StreamNext]_svars PROVE LinkInv'
  OBVIOUS
<1>1. CASE UNCHANGED svars
  <2>1. UNCHANGED vars /\ resetOnLine' = resetOnLine
    BY <1>1 DEF svars, controlVars
  <2>2. IInv => IInv'
    BY <2>1, NextIInv
  <2>3. RecoveringInv => RecoveringInv'
    BY <2>1 DEF vars, device, host, RecoveringInv, TypeOK
  <2> QED
    BY <2>1, <2>2, <2>3 DEF LinkInv
<1>2. CASE StreamNext /\ DeviceRestarts
  <2>1. TypeOK
    BY DEF LinkInv, RecoveringInv, IInv
  <2> QED
    BY <1>2, <2>1, RestartRecovers DEF LinkInv
<1>3. CASE StreamNext /\ HostTakesReset
  BY <1>3, ResetRestores DEF LinkInv, HostTakesReset, TakesReset
<1>4. CASE StreamNext /\ ~DeviceRestarts /\ ~HostTakesReset
  <2>1. [Next]_vars /\ resetOnLine' = resetOnLine
    BY <1>4, StreamStepIsLinkStep
  <2>2. IInv => IInv'
    BY <2>1, NextIInv
  <2>3. resetOnLine => RecoveringInv'
    BY <1>4, RecoveringStep DEF LinkInv
  <2> QED
    BY <2>1, <2>2, <2>3 DEF LinkInv
<1> QED
  BY <1>1, <1>2, <1>3, <1>4

(* Where the host drains or the device hears SACKs, no RESET is awaited.   *)
LEMMA LinkIsUp ==
  ASSUME LinkInv, pc = "drain" \/ toDev # << >>
  PROVE  resetOnLine = FALSE /\ IInv
BY DEF LinkInv, RecoveringInv

(* Frames handed over since the device last began its response.            *)
SeenE == IF resetOnLine THEN 0 ELSE E

LEMMA SeenIsSent ==
  ASSUME LinkInv
  PROVE  SeenE \in Nat /\ next \in Nat /\ SeenE <= next
<1> USE Numbers
<1>1. CASE resetOnLine
  BY <1>1 DEF LinkInv, RecoveringInv, TypeOK, SeenE
<1>2. CASE ~resetOnLine
  BY <1>2 DEF LinkInv, IInv, WindowInv, SeenE
<1> QED
  BY <1>1, <1>2

(* Whatever is lost or sent again, and however often the device starts its *)
(* response again: its frames reach the visitor in order, each once, and   *)
(* are confirmed only then.                                                *)
THEOREM StreamImplementsRestartable == StreamSpec => ImplementsRestartable
<1>1. StreamInit => Renewed!Init /\ LinkInv
  BY InitIInv DEF StreamInit, ControlInit, Init, Renewed!Init, LinkInv
<1>2. ASSUME LinkInv, [StreamNext]_svars
      PROVE  [Renewed!Next \/ Renewed!Restart]_(Renewed!vars)
  <2> USE DEF Renewed!vars
  <2>1. CASE UNCHANGED svars
    BY <2>1 DEF svars, controlVars, vars, device, host
  <2>2. CASE DeviceRestarts
    BY <2>2 DEF DeviceRestarts, Restart, Renewed!Restart
  <2>3. CASE HostTakesReset
    BY <2>3 DEF HostTakesReset, TakesReset, device
  <2>4. CASE StreamNext /\ ~DeviceRestarts /\ ~HostTakesReset
    <3>1. [Next]_vars /\ resetOnLine' = resetOnLine
      BY <2>4, StreamStepIsLinkStep
    <3>2. CASE resetOnLine
      <4>1. base = 0 /\ base' = 0
        BY <1>2, <2>4, <3>2, RecoveringStep DEF LinkInv, RecoveringInv
      <4> QED
        BY <3>1, <3>2, <4>1
    <3>3. CASE ~resetOnLine
      <4>1. [Promise!Next]_(Promise!vars)
        BY <1>2, <3>1, <3>3, StepImplements DEF LinkInv
      <4> QED
        BY <3>1, <3>3, <4>1 DEF Promise!Next, Promise!vars, Promise!Deliver,
           Promise!Confirm, Renewed!Next, Renewed!Deliver, Renewed!Confirm
    <3> QED
      BY <3>2, <3>3
  <2> QED
    BY <1>2, <2>1, <2>2, <2>3, <2>4
<1>3. LinkInv /\ [StreamNext]_svars => LinkInv'
  BY LinkInvStep
<1> QED
  BY <1>1, <1>2, <1>3, PTL DEF StreamSpec, ImplementsRestartable, Renewed!RestartableSpec

-----------------------------------------------------------------------------
(* The collector.  Its flags say which class has ended among the first m   *)
(* frames, the most that it has seen of the response since the call began; *)
(* and each of those frames was in its place.                              *)

CollectorType ==
  [tree : Seq(Positions), attestation : Seq(Positions),
   tree_complete : BOOLEAN, attestation_complete : BOOLEAN, rejected : BOOLEAN]

Ended(class, n) == \E p \in 0 .. n - 1 : Frame(p).class = class /\ Frame(p).last

InPlace(p) ==
  /\ Frame(p).class \in {"tree", "attestation"}
  /\ Frame(p).class = "attestation" => Ended("tree", p)
  /\ Frame(p).class = "tree" => ~Ended("attestation", p)

Reaches(c, m) ==
  /\ c.tree_complete <=> Ended("tree", m)
  /\ c.attestation_complete <=> Ended("attestation", m)
  /\ \A p \in 0 .. m - 1 : InPlace(p)

(* The next frame joins the frames of its class and leaves the others. *)
LEMMA OfClassGrows ==
  ASSUME NEW n \in Nat, n < NumFrames, NEW class, NEW s \in Seq(Positions),
         IsOfClass(s, class, n)
  PROVE  /\ Frame(n).class = class =>
              Append(s, n) \in Seq(Positions) /\ IsOfClass(Append(s, n), class, n + 1)
         /\ Frame(n).class # class => IsOfClass(s, class, n + 1)
<1>1. /\ Len(s) \in Nat /\ DOMAIN s = 1 .. Len(s)
      /\ \A i \in 1 .. Len(s) : s[i] \in 0 .. n - 1 /\ Frame(s[i]).class = class
  <2>1. Len(s) \in Nat /\ DOMAIN s = 1 .. Len(s)
    BY LenProperties
  <2>2. \A i \in DOMAIN s : s[i] \in {p \in 0 .. n - 1 : Frame(p).class = class}
    BY DEF IsOfClass
  <2> QED
    BY <2>1, <2>2
<1>2. 0 .. n + 1 - 1 = (0 .. n - 1) \cup {n}
  OBVIOUS
<1>3. ASSUME Frame(n).class = class
      PROVE  Append(s, n) \in Seq(Positions) /\ IsOfClass(Append(s, n), class, n + 1)
  <2> DEFINE t == Append(s, n)
  <2>1. n \in Positions
    BY Bounds DEF Positions
  <2>2. /\ t \in Seq(Positions) /\ DOMAIN t = 1 .. Len(s) + 1
        /\ \A i \in 1 .. Len(s) : t[i] = s[i]
        /\ t[Len(s) + 1] = n
    BY <2>1, AppendProperties, LenProperties
  <2> HIDE DEF t
  <2>3. {t[i] : i \in DOMAIN t} = {s[i] : i \in DOMAIN s} \cup {n}
    BY <1>1, <2>2
  <2>4. {t[i] : i \in DOMAIN t} = {p \in 0 .. n + 1 - 1 : Frame(p).class = class}
    BY <1>2, <1>3, <2>3 DEF IsOfClass
  <2>5. \A i, j \in DOMAIN t : i < j => t[i] < t[j]
    <3> SUFFICES ASSUME NEW i \in DOMAIN t, NEW j \in DOMAIN t, i < j
                 PROVE  t[i] < t[j]
      OBVIOUS
    <3>1. CASE j = Len(s) + 1
      BY <1>1, <2>2, <3>1
    <3>2. CASE j # Len(s) + 1
      BY <1>1, <2>2, <3>2 DEF IsOfClass
    <3> QED
      BY <3>1, <3>2
  <2> QED
    BY <2>2, <2>4, <2>5 DEF IsOfClass, t
<1>4. ASSUME Frame(n).class # class PROVE IsOfClass(s, class, n + 1)
  BY <1>2, <1>4 DEF IsOfClass
<1> QED
  BY <1>3, <1>4

(* The same where older frames stand in front. *)
LEMMA EndGrows ==
  ASSUME NEW n \in Nat, n < NumFrames, NEW class, NEW s \in Seq(Positions),
         EndsWithClass(s, class, n)
  PROVE  /\ Frame(n).class = class => EndsWithClass(Append(s, n), class, n + 1)
         /\ Frame(n).class # class => EndsWithClass(s, class, n + 1)
<1>1. PICK k \in 0 .. Len(s) : IsOfClass(SubSeq(s, k + 1, Len(s)), class, n)
  BY DEF EndsWithClass
<1> DEFINE t == SubSeq(s, k + 1, Len(s))
<1>2. Len(s) \in Nat /\ k \in Nat /\ k <= Len(s)
  BY LenProperties
<1>3. /\ t \in Seq(Positions) /\ Len(t) = Len(s) - k
      /\ \A i \in 1 .. Len(s) - k : t[i] = s[k + i]
  <2>1. \A i \in k + 1 .. Len(s) : s[i] \in Positions
    BY <1>2, ElementOfSeq
  <2>2. /\ t \in Seq(Positions)
        /\ Len(t) = IF k + 1 <= Len(s) THEN Len(s) - (k + 1) + 1 ELSE 0
        /\ \A i \in 1 .. Len(s) - (k + 1) + 1 : t[i] = s[(k + 1) + i - 1]
    <3>1. k + 1 \in Int /\ Len(s) \in Int
      BY <1>2
    <3> QED
      BY <2>1, <3>1, SubSeqProperties
  <2> HIDE DEF t
  <2> QED
    BY <1>2, <2>2
<1>4. IsOfClass(t, class, n)
  BY <1>1
<1>5. ASSUME Frame(n).class # class PROVE EndsWithClass(s, class, n + 1)
  <2>1. IsOfClass(t, class, n + 1)
    <3> HIDE DEF t
    <3> QED
      BY <1>3, <1>4, <1>5, OfClassGrows
  <2> QED
    BY <2>1 DEF EndsWithClass
<1>6. ASSUME Frame(n).class = class PROVE EndsWithClass(Append(s, n), class, n + 1)
  <2> DEFINE u == Append(s, n)
             v == SubSeq(u, k + 1, Len(u))
  <2>1. n \in Positions
    BY Bounds DEF Positions
  <2>2. /\ u \in Seq(Positions) /\ Len(u) = Len(s) + 1 /\ u[Len(s) + 1] = n
        /\ \A i \in 1 .. Len(s) : u[i] = s[i]
    BY <2>1, AppendProperties
  <2>3. Append(t, n) \in Seq(Positions) /\ IsOfClass(Append(t, n), class, n + 1)
    <3> HIDE DEF t
    <3> QED
      BY <1>3, <1>4, <1>6, OfClassGrows
  <2>4. /\ v \in Seq(Positions) /\ Len(v) = Len(s) + 1 - k
        /\ \A i \in 1 .. Len(s) + 1 - k : v[i] = u[k + i]
    <3> HIDE DEF u
    <3>1. Len(u) \in Int /\ k + 1 \in Int /\ k + 1 <= Len(u)
      BY <1>2, <2>2
    <3>2. \A i \in k + 1 .. Len(u) : u[i] \in Positions
      BY <1>2, <2>2, ElementOfSeq
    <3>3. /\ v \in Seq(Positions)
          /\ Len(v) = IF k + 1 <= Len(u) THEN Len(u) - (k + 1) + 1 ELSE 0
          /\ \A i \in 1 .. Len(u) - (k + 1) + 1 : v[i] = u[(k + 1) + i - 1]
      BY <3>1, <3>2, SubSeqProperties
    <3> HIDE DEF v
    <3> QED
      BY <1>2, <2>2, <3>1, <3>3
  <2> HIDE DEF u, v
  <2>5. v = Append(t, n)
    <3> HIDE DEF t
    <3>1. /\ Len(Append(t, n)) = Len(s) - k + 1 /\ Append(t, n)[Len(s) - k + 1] = n
          /\ \A i \in 1 .. Len(s) - k : Append(t, n)[i] = t[i]
      BY <1>2, <1>3, <2>1, AppendProperties
    <3>2. \A i \in 1 .. Len(v) : v[i] = Append(t, n)[i]
      <4> TAKE i \in 1 .. Len(v)
      <4>1. CASE i = Len(s) - k + 1
        BY <1>2, <2>2, <2>4, <3>1, <4>1
      <4>2. CASE i # Len(s) - k + 1
        <5>1. i \in 1 .. Len(s) - k /\ k + i \in 1 .. Len(s)
          BY <1>2, <2>4, <4>2
        <5> QED
          BY <1>3, <2>2, <2>4, <3>1, <5>1
      <4> QED
        BY <4>1, <4>2
    <3>3. Len(v) = Len(Append(t, n))
      BY <1>2, <2>4, <3>1
    <3> QED
      BY <2>3, <2>4, <3>2, <3>3, SeqEqual
  <2>6. k \in 0 .. Len(u)
    BY <1>2, <2>2
  <2>7. IsOfClass(SubSeq(u, k + 1, Len(u)), class, n + 1)
    BY <2>3, <2>5 DEF v
  <2>8. EndsWithClass(u, class, n + 1)
    BY <2>6, <2>7 DEF EndsWithClass
  <2> QED
    BY <2>8 DEF u
<1> QED
  BY <1>5, <1>6

(* Behind a whole string nothing of the response has come yet. *)
LEMMA EndsWithNothing ==
  ASSUME NEW class, NEW s \in Seq(Positions)
  PROVE  EndsWithClass(s, class, 0)
<1>1. Len(s) \in 0 .. Len(s) /\ Len(s) \in Nat
  BY LenProperties
<1>2. SubSeq(s, Len(s) + 1, Len(s)) = << >>
  BY <1>1, SubSeqEmpty
<1>3. IsOfClass(<< >>, class, 0)
  BY DEF IsOfClass
<1> QED
  BY <1>1, <1>2, <1>3 DEF EndsWithClass

LEMMA EndedGrows ==
  ASSUME NEW n \in Nat, NEW class
  PROVE  Ended(class, n + 1) <=> Ended(class, n) \/ (Frame(n).class = class /\ Frame(n).last)
<1>1. 0 .. n + 1 - 1 = (0 .. n - 1) \cup {n}
  OBVIOUS
<1> QED
  BY <1>1 DEF Ended

LEMMA EndedLater ==
  ASSUME NEW n \in Nat, NEW m \in Nat, n <= m, NEW class, Ended(class, n)
  PROVE  Ended(class, m)
<1>1. 0 .. n - 1 \subseteq 0 .. m - 1
  OBVIOUS
<1> QED
  BY <1>1 DEF Ended

(* One call of the visitor: what it looks at, and what it does.            *)
Takes(c, n) ==
  \/ Frame(n).class = "tree" /\ ~c.attestation_complete
  \/ Frame(n).class = "attestation" /\ c.tree_complete

LEMMA VisitDoes ==
  ASSUME NEW n \in Positions, n < Len(script), script \in Seq(ResponseFrame),
         NEW c \in CollectorType, c.rejected = FALSE
  PROVE  LET d == Visit(c, n)
             last(class) == Frame(n).class = class /\ Frame(n).last
         IN  /\ d \in CollectorType
             /\ d.rejected = ~Takes(c, n)
             /\ Takes(c, n) =>
                  /\ d.tree_complete = (c.tree_complete \/ last("tree"))
                  /\ d.attestation_complete = (c.attestation_complete \/ last("attestation"))
                  /\ d.tree = IF Frame(n).class = "tree" THEN Append(c.tree, n) ELSE c.tree
                  /\ d.attestation = IF Frame(n).class = "attestation"
                                     THEN Append(c.attestation, n) ELSE c.attestation
             /\ ~Takes(c, n) =>
                  /\ d.tree_complete = c.tree_complete
                  /\ d.attestation_complete = c.attestation_complete
             /\ CompletesStream(c, n) = (Takes(c, n) /\ last("attestation"))
<1>1. Frame(n) \in ResponseFrame
  <2>1. n + 1 \in 1 .. Len(script)
    BY LenProperties DEF Positions
  <2> QED
    BY <2>1, ElementOfSeq DEF Frame
<1>2. /\ c.tree \in Seq(Positions) /\ c.attestation \in Seq(Positions)
      /\ c.tree_complete \in BOOLEAN /\ c.attestation_complete \in BOOLEAN
      /\ Frame(n).last \in BOOLEAN
      /\ Append(c.tree, n) \in Seq(Positions) /\ Append(c.attestation, n) \in Seq(Positions)
  BY <1>1, AppendProperties DEF CollectorType, ResponseFrame
<1>3. CASE Frame(n).class = "tree" /\ ~c.attestation_complete
  <2>1. Visit(c, n) = AddTree(c, n)
    BY <1>3 DEF Visit
  <2> QED
    BY <1>2, <1>3, <2>1 DEF AddTree, CollectorType, Takes, CompletesStream
<1>4. CASE Frame(n).class = "attestation" /\ c.tree_complete
  <2>1. Visit(c, n) = AddAttestation(c, n)
    BY <1>4 DEF Visit
  <2> QED
    BY <1>2, <1>4, <2>1 DEF AddAttestation, CollectorType, Takes, CompletesStream
<1>5. CASE ~Takes(c, n)
  <2>1. Visit(c, n) = Reject(c)
    BY <1>5 DEF Visit, Takes
  <2> QED
    BY <1>2, <1>5, <2>1 DEF Reject, CollectorType, CompletesStream
<1> QED
  BY <1>3, <1>4, <1>5 DEF Takes

(* The next frame is taken if it is in its place, and then the collector   *)
(* has seen one frame more.                                                *)
LEMMA VisitNext ==
  ASSUME NEW n \in Positions, n < Len(script), script \in Seq(ResponseFrame),
         NEW c \in CollectorType, c.rejected = FALSE, Reaches(c, n)
  PROVE  /\ Takes(c, n) <=> InPlace(n)
         /\ Takes(c, n) => Reaches(Visit(c, n), n + 1)
<1>1. /\ c.tree_complete <=> Ended("tree", n)
      /\ c.attestation_complete <=> Ended("attestation", n)
      /\ \A p \in 0 .. n - 1 : InPlace(p)
  BY DEF Reaches
<1>2. Takes(c, n) <=> InPlace(n)
  BY <1>1 DEF Takes, InPlace
<1>3. ASSUME Takes(c, n) PROVE Reaches(Visit(c, n), n + 1)
  <2> DEFINE d == Visit(c, n)
  <2>1. /\ d.tree_complete = (c.tree_complete \/ (Frame(n).class = "tree" /\ Frame(n).last))
        /\ d.attestation_complete =
             (c.attestation_complete \/ (Frame(n).class = "attestation" /\ Frame(n).last))
    BY <1>3, VisitDoes
  <2> HIDE DEF d
  <2>2. PICK k \in Nat : k = n + 1
    BY DEF Positions
  <2>3. (d.tree_complete <=> Ended("tree", k))
        /\ (d.attestation_complete <=> Ended("attestation", k))
    <3>1. n \in Nat
      BY DEF Positions
    <3> QED
      BY <1>1, <2>1, <2>2, <3>1, EndedGrows
  <2>4. 0 .. k - 1 = (0 .. n - 1) \cup {n}
    BY <2>2 DEF Positions
  <2>5. \A p \in 0 .. k - 1 : InPlace(p)
    BY <1>1, <1>2, <1>3, <2>4
  <2>6. Reaches(d, k)
    BY <2>3, <2>5 DEF Reaches
  <2> QED
    BY <2>2, <2>6 DEF d
<1> QED
  BY <1>2, <1>3

(* A frame seen before, while the attestation is incomplete, is taken      *)
(* again and tells the collector nothing new.                              *)
LEMMA VisitAgain ==
  ASSUME NEW n \in Positions, n < Len(script), script \in Seq(ResponseFrame),
         NEW c \in CollectorType, c.rejected = FALSE, NEW m \in Nat, n < m, Reaches(c, m),
         ~c.attestation_complete
  PROVE  Takes(c, n) /\ Reaches(Visit(c, n), m) /\ ~Visit(c, n).attestation_complete
<1>1. /\ c.tree_complete <=> Ended("tree", m)
      /\ c.attestation_complete <=> Ended("attestation", m)
      /\ \A p \in 0 .. m - 1 : InPlace(p)
      /\ n \in 0 .. m - 1 /\ n \in Nat
  BY DEF Reaches, Positions
<1>2. Ended("tree", n) => c.tree_complete
  BY <1>1, EndedLater
<1>3. Takes(c, n)
  BY <1>1, <1>2 DEF Takes, InPlace
<1>4. /\ Frame(n).class = "tree" /\ Frame(n).last => c.tree_complete
      /\ ~(Frame(n).class = "attestation" /\ Frame(n).last)
  BY <1>1 DEF Ended
<1>5. /\ Visit(c, n).tree_complete =
           (c.tree_complete \/ (Frame(n).class = "tree" /\ Frame(n).last))
      /\ Visit(c, n).attestation_complete =
           (c.attestation_complete \/ (Frame(n).class = "attestation" /\ Frame(n).last))
  BY <1>3, VisitDoes
<1>6. c.tree_complete \in BOOLEAN /\ c.attestation_complete \in BOOLEAN
  BY DEF CollectorType
<1> QED
  BY <1>1, <1>3, <1>4, <1>5, <1>6 DEF Reaches

(* After the attestation, a response begun again is rejected at its first  *)
(* frame.                                                                  *)
LEMMA VisitLate ==
  ASSUME NEW c, NEW m \in Nat, Reaches(c, m), c.attestation_complete
  PROVE  m # 0 /\ ~Takes(c, 0)
<1>1. Ended("attestation", m)
  BY DEF Reaches
<1>2. m # 0 /\ 0 \in 0 .. m - 1
  BY <1>1 DEF Ended
<1>3. InPlace(0)
  BY <1>2 DEF Reaches
<1>4. ~Ended("tree", 0)
  BY DEF Ended
<1> QED
  BY <1>2, <1>3, <1>4 DEF InPlace, Takes

-----------------------------------------------------------------------------
(* The invariant of the call: that of the link, the types, the device's    *)
(* place in the response, and the collector and the outcome together.      *)

ResponseInv ==
  /\ script \in Scripts
  /\ next <= NumFrames /\ next <= Len(script)

(* The byte strings end with the first n frames of the response. *)
End(n) ==
  /\ EndsWithClass(collector.tree, "tree", n)
  /\ EndsWithClass(collector.attestation, "attestation", n)

(* Until completion the byte strings end with the frames handed over since *)
(* the last RESET, afterwards with the whole response; without a restart   *)
(* they are just that.  After completion a restarted response is at its    *)
(* first frame still, or was rejected.                                     *)
Gathered(m) ==
  /\ Reaches(collector, m)
  /\ SeenE <= m
  /\ completion_seen => SeenE = IF resetLate THEN 0 ELSE m
  /\ completion_seen => End(m)
  /\ ~completion_seen => \E n \in Nat : n = SeenE /\ End(n)
  /\ resets = 0 => /\ m = SeenE
                   /\ IsOfClass(collector.tree, "tree", m)
                   /\ IsOfClass(collector.attestation, "attestation", m)

CollectorInv ==
  /\ collector \in CollectorType
  /\ completion_seen = collector.attestation_complete
  /\ ~collector.rejected => \E m \in 0 .. Len(script) : Gathered(m)
  /\ collector.rejected => resetLate \/ \E p \in 0 .. Len(script) - 1 : ~InPlace(p)

LateInv ==
  /\ resetLate \in BOOLEAN /\ completion_seen \in BOOLEAN
  /\ resetLate => completion_seen
  /\ resetOnLine /\ completion_seen => resetLate
  /\ resets = 0 => ~resetOnLine /\ ~resetLate

OutcomeInv ==
  /\ pc \in {"wait", "done"} => ~collector.rejected
  /\ pc = "done" => completion_seen
  /\ pc = "failed" => collector.rejected \/ (elapsed = TIMEOUT /\ ~completion_seen)

StreamInv ==
  /\ LinkInv /\ StreamTypeOK /\ ResponseInv /\ LateInv /\ CollectorInv /\ OutcomeInv

LEMMA InitStreamInv == StreamInit => StreamInv
<1> SUFFICES ASSUME StreamInit PROVE StreamInv
  OBVIOUS
<1>1. IInv /\ resetOnLine = FALSE /\ resets = 0 /\ resetLate = FALSE
  BY InitIInv DEF StreamInit, ControlInit
<1>2. EmptyCollector \in CollectorType
  BY DEF EmptyCollector, CollectorType
<1>3. /\ EmptyCollector.tree = << >> /\ EmptyCollector.attestation = << >>
      /\ EmptyCollector.tree_complete = FALSE
      /\ EmptyCollector.attestation_complete = FALSE
      /\ EmptyCollector.rejected = FALSE
  BY DEF EmptyCollector
<1>4. StreamTypeOK
  <2>1. age \in [Positions -> 0 .. RTO]
    BY ControlParameters DEF StreamInit
  <2>2. elapsed \in 0 .. TIMEOUT /\ quiet \in 0 .. SETTLE
    BY Times DEF StreamInit
  <2>3. lostFrames \in 0 .. MaxLostFrames /\ lostSacks \in 0 .. MaxLostSacks
    BY Times DEF StreamInit
  <2>4. collector.tree \in Seq(Positions) /\ collector.attestation \in Seq(Positions)
    BY <1>2 DEF StreamInit, CollectorType
  <2>5. ControlTypeOK
    <3>1. requestAge = 0 /\ resets = 0 /\ 0 \in 0 .. RTO /\ 0 \in 0 .. MaxResets
      BY ControlParameters DEF StreamInit, ControlInit
    <3>2. request = "line" /\ ackOnLine = FALSE /\ pending = TRUE /\ resetOnLine = FALSE
      BY DEF StreamInit, ControlInit
    <3> QED
      BY <3>1, <3>2 DEF ControlTypeOK
  <2> QED
    BY <1>1, <2>1, <2>2, <2>3, <2>4, <2>5 DEF StreamTypeOK, StreamInit, IInv
<1>5. script \in Seq(ResponseFrame) /\ Len(script) \in Nat
  BY Responses, LenProperties DEF StreamInit
<1>6. ResponseInv
  BY <1>5, Bounds DEF ResponseInv, StreamInit, Init
<1>7. SeenE = 0 /\ pc = "wait" /\ completion_seen = FALSE /\ collector = EmptyCollector
  BY <1>1 DEF SeenE, E, StreamInit, Init
<1>8. CollectorInv
  <2>1. Reaches(collector, 0)
    BY <1>3, <1>7 DEF Reaches, Ended
  <2>2. IsOfClass(<< >>, "tree", 0) /\ IsOfClass(<< >>, "attestation", 0)
    BY DEF IsOfClass
  <2>3. 0 \in Nat /\ End(0)
    BY <1>3, <1>7, EndsWithNothing, EmptySeq DEF End
  <2>4. Gathered(0)
    BY <1>3, <1>7, <2>1, <2>2, <2>3 DEF Gathered
  <2>5. 0 \in 0 .. Len(script)
    BY <1>5
  <2> QED
    BY <1>2, <1>3, <1>7, <2>4, <2>5 DEF CollectorInv
<1>9. OutcomeInv
  BY <1>3, <1>7 DEF OutcomeInv
<1>10. LateInv /\ LinkInv
  BY <1>1, <1>7 DEF LateInv, LinkInv
<1> QED
  BY <1>4, <1>6, <1>8, <1>9, <1>10 DEF StreamInv

(* What only a step of its own changes. *)
LEMMA StreamUnchanged ==
  StreamNext =>
    /\ script' = script
    /\ ~HostPops => UNCHANGED <<collector, completion_seen>>
    /\ ~DeviceRestarts => resetLate' = resetLate
    /\ ~HostPops /\ ~HostTakesReset => delivered' = delivered
<1> SUFFICES ASSUME StreamNext
             PROVE  /\ script' = script
                    /\ ~HostPops => UNCHANGED <<collector, completion_seen>>
                    /\ ~DeviceRestarts => resetLate' = resetLate
                    /\ ~HostPops /\ ~HostTakesReset => delivered' = delivered
  OBVIOUS
<1> USE DEF vars, host, losses
<1>1. CASE HostStep
  BY <1>1 DEF HostStep, HostReceivesNothing, HostHandlesControl, HostTakesReset, HostReceives,
     HostNacks, HostPops, HostSendsSack, HostRejects, HostTimesOut, HostCompletes, Receive,
     LoseFrame, SendSack, GiveUp, Complete
<1>2. CASE DeviceStep
  BY <1>2 DEF DeviceStep, DeviceGetsRequest, DeviceSends, DeviceResends, DeviceHandlesSack,
     DeviceRestarts, Restart, DevSendNew, DevRetransmit, DevHandleSack
<1>3. CASE LineStep
  BY <1>3 DEF LineStep, LineLosesRequest, LineLosesAck, LineLosesFrame, LineLosesSack,
     LoseFrame, LoseSack
<1>4. CASE Tick \/ Returned
  BY <1>4 DEF Tick, Returned, svars
<1> QED
  BY <1>1, <1>2, <1>3, <1>4 DEF StreamNext

(* The device sends no frame that its response does not have. *)
LEMMA ResponseStep == StreamInv /\ StreamNext => ResponseInv'
<1> SUFFICES ASSUME StreamInv, StreamNext PROVE ResponseInv'
  OBVIOUS
<1> USE DEF StreamInv, ResponseInv
<1>1. script' = script
  BY StreamUnchanged
<1>2. next \in Nat /\ NumFrames \in Nat /\ Len(script) \in Nat
  BY SeenIsSent, Bounds, Responses, LenProperties
<1>3. CASE DeviceSends
  BY <1>1, <1>2, <1>3 DEF DeviceSends, DevSendNew
<1>4. CASE DeviceRestarts
  BY <1>1, <1>2, <1>4 DEF DeviceRestarts, Restart
<1>5. CASE DeviceGetsRequest \/ DeviceResends \/ DeviceHandlesSack
  BY <1>1, <1>5 DEF DeviceGetsRequest, DeviceResends, DeviceHandlesSack, DevRetransmit,
     DevHandleSack, vars, device
<1>6. CASE HostStep
  BY <1>1, <1>6 DEF HostStep, HostReceivesNothing, HostHandlesControl, TakesReset,
     HostReceives, HostNacks, HostPops, HostSendsSack, HostRejects, HostTimesOut,
     HostCompletes, Receive, LoseFrame, Pop, SendSack, GiveUp, Complete, vars, device
<1>7. CASE LineStep \/ Tick \/ Returned
  BY <1>1, <1>7 DEF LineStep, LineLosesRequest, LineLosesAck, LineLosesFrame, LineLosesSack,
     LoseFrame, LoseSack, Tick, Returned, svars, vars, device
<1> QED
  BY <1>3, <1>4, <1>5, <1>6, <1>7 DEF StreamNext, DeviceStep

(* A restart is late if the response was complete, and needs a restart. *)
LEMMA LateStep == StreamInv /\ StreamNext => LateInv'
<1> SUFFICES ASSUME StreamInv, StreamNext PROVE LateInv'
  OBVIOUS
<1> USE DEF LateInv
<1>0. LateInv /\ LinkInv /\ resets \in Nat /\ resetOnLine \in BOOLEAN
  BY ControlParameters DEF StreamInv, StreamTypeOK, ControlTypeOK
<1>1. CASE DeviceRestarts
  BY <1>0, <1>1 DEF DeviceRestarts, Restart
<1>2. CASE HostTakesReset
  BY <1>0, <1>2 DEF HostTakesReset, HostHandlesControl, TakesReset, losses
<1>3. CASE HostPops
  <2>1. resetOnLine = FALSE
    BY <1>0, <1>3, LinkIsUp DEF HostPops, Pop
  <2>2. UNCHANGED <<resetLate, resetOnLine, resets>>
    BY <1>3 DEF HostPops, controlVars, losses
  <2>3. completion_seen' \in BOOLEAN /\ (completion_seen => completion_seen')
    BY <1>0, <1>3 DEF HostPops, CompletesStream
  <2> QED
    BY <1>0, <2>1, <2>2, <2>3
<1>4. CASE ~DeviceRestarts /\ ~HostTakesReset /\ ~HostPops
  BY <1>0, <1>4, StreamUnchanged, StreamStepIsLinkStep
<1> QED
  BY <1>1, <1>2, <1>3, <1>4

(* The host hands the next frame of the response to the visitor. *)
LEMMA PopsNext ==
  ASSUME StreamInv, Pop
  PROVE  /\ resetOnLine = FALSE /\ SeenE = E /\ recv_window[0] = E
         /\ E \in Positions /\ E < Len(script) /\ script \in Seq(ResponseFrame)
         /\ E' = E + 1
<1>0. IInv /\ resetOnLine = FALSE
  BY LinkIsUp DEF StreamInv, Pop
<1>1. recv_window[0] = E /\ E < next
  <2>1. 0 \in Slots /\ E \in Nat /\ E + 0 = E
    BY <1>0, Sizes, Numbers DEF Slots, IInv
  <2>2. Listening /\ recv_window[0] # NoFrame
    BY DEF Listening, Pop, Ready
  <2>3. recv_window[0] = E + 0 /\ E + 0 < next
    BY <1>0, <2>1, <2>2 DEF IInv, AlignedInv
  <2> QED
    BY <2>1, <2>3
<1>2. script \in Seq(ResponseFrame)
  BY Responses DEF StreamInv, ResponseInv
<1>3. next \in Nat /\ NumFrames \in Nat /\ Len(script) \in Nat /\ E \in Nat
  BY <1>0, <1>2, Numbers, Bounds, LenProperties DEF IInv
<1>4. E' = E + 1
  <2>1. delivered \in Seq(Nat) /\ delivered' = Append(delivered, E) /\ E \in Nat
    BY <1>0, <1>1, <1>3 DEF IInv, TypeOK, Pop
  <2> QED
    BY <2>1, AppendProperties DEF E
<1>5. next <= NumFrames /\ next <= Len(script)
  BY DEF StreamInv, ResponseInv
<1> QED
  BY <1>0, <1>1, <1>2, <1>3, <1>4, <1>5 DEF SeenE, Positions

LEMMA EndsAlike ==
  ASSUME script' = script, NEW s, NEW class, NEW n, EndsWithClass(s, class, n)
  PROVE  EndsWithClass(s, class, n)'
BY DEF EndsWithClass, IsOfClass, Frame

LEMMA EndTold ==
  ASSUME script' = script, NEW t, NEW a, NEW n,
         EndsWithClass(t, "tree", n), EndsWithClass(a, "attestation", n),
         collector'.tree = t, collector'.attestation = a
  PROVE  End(n)'
<1>1. EndsWithClass(t, "tree", n)' /\ EndsWithClass(a, "attestation", n)'
  BY EndsAlike
<1>2. EndsWithClass(collector.tree, "tree", n)'
  BY <1>1
<1>3. EndsWithClass(collector.attestation, "attestation", n)'
  BY <1>1
<1> QED
  BY <1>2, <1>3 DEF End

LEMMA EndStays ==
  ASSUME UNCHANGED <<script, collector>>, NEW n \in Nat, End(n)
  PROVE  End(n)'
<1>1. PICK t, a : t = collector.tree /\ a = collector.attestation
  OBVIOUS
<1>2. EndsWithClass(t, "tree", n) /\ EndsWithClass(a, "attestation", n)
  BY <1>1 DEF End
<1> QED
  BY <1>1, <1>2, EndTold

(* Where nothing that Gathered reads changes, it stays. *)
LEMMA GatheredStays ==
  ASSUME UNCHANGED <<script, collector, completion_seen, SeenE, resetLate, resets>>,
         NEW m \in Nat, Gathered(m)
  PROVE  Gathered(m)'
<1>1. Reaches(collector, m)'
  BY DEF Gathered, Reaches, Ended, InPlace, Frame
<1>2. completion_seen => End(m)'
  BY EndStays DEF Gathered
<1>3. ASSUME ~completion_seen
      PROVE  \E n \in Nat : n = SeenE' /\ End(n)'
  <2>1. PICK n \in Nat : n = SeenE /\ End(n)
    BY <1>3 DEF Gathered
  <2>2. End(n)'
    BY <2>1, EndStays
  <2> QED
    BY <2>1, <2>2
<1>4. resets = 0 => /\ IsOfClass(collector.tree, "tree", m)'
                    /\ IsOfClass(collector.attestation, "attestation", m)'
  BY DEF Gathered, IsOfClass, Frame
<1> QED
  BY <1>1, <1>2, <1>3, <1>4 DEF Gathered

(* A frame handed to the visitor. *)
LEMMA PopGathers == StreamInv /\ HostPops => CollectorInv'
<1> SUFFICES ASSUME StreamInv, HostPops, NEW n \in Positions, n = E PROVE CollectorInv'
  <2>1. StreamInv /\ HostPops => E \in Positions
    BY PopsNext DEF HostPops
  <2> QED
    BY <2>1
<1> DEFINE c == collector
           d == Visit(collector, n)
<1>1. Pop /\ c.rejected = FALSE
  BY DEF HostPops, StreamInv, CollectorInv, CollectorType
<1>2. /\ resetOnLine = FALSE /\ SeenE = n /\ recv_window[0] = n
      /\ n \in Positions /\ n < Len(script) /\ script \in Seq(ResponseFrame) /\ E' = n + 1
  BY <1>1, PopsNext
<1>3. /\ collector' = d /\ script' = script
      /\ completion_seen' = (completion_seen \/ CompletesStream(c, n))
      /\ UNCHANGED <<resetLate, resetOnLine, resets>>
  BY <1>2 DEF HostPops, controlVars, losses
<1>4. SeenE' = n + 1
  BY <1>2, <1>3 DEF SeenE
<1>5. /\ c \in CollectorType /\ completion_seen = c.attestation_complete
      /\ completion_seen \in BOOLEAN /\ resetLate \in BOOLEAN
      /\ resetLate => completion_seen
      /\ \E m \in 0 .. Len(script) : Gathered(m)
  BY <1>1 DEF StreamInv, CollectorInv, LateInv
<1>6. PICK m \in 0 .. Len(script) : Gathered(m)
  BY <1>5
<1>7. /\ Reaches(c, m) /\ n <= m
      /\ completion_seen => n = IF resetLate THEN 0 ELSE m
      /\ completion_seen => End(m)
      /\ ~completion_seen => End(n)
      /\ resets = 0 => /\ m = n
                       /\ IsOfClass(c.tree, "tree", m)
                       /\ IsOfClass(c.attestation, "attestation", m)
  BY <1>2, <1>6 DEF Gathered
<1>8. m \in Nat /\ n \in Nat /\ n < NumFrames /\ Len(script) \in Nat /\ m <= Len(script)
  BY <1>2, Bounds, LenProperties DEF Positions
<1>9. /\ d \in CollectorType /\ d.rejected = ~Takes(c, n)
      /\ CompletesStream(c, n) =
           (Takes(c, n) /\ Frame(n).class = "attestation" /\ Frame(n).last)
      /\ Takes(c, n) =>
           /\ d.attestation_complete =
                (c.attestation_complete \/ (Frame(n).class = "attestation" /\ Frame(n).last))
           /\ d.tree = IF Frame(n).class = "tree" THEN Append(c.tree, n) ELSE c.tree
           /\ d.attestation = IF Frame(n).class = "attestation"
                              THEN Append(c.attestation, n) ELSE c.attestation
      /\ ~Takes(c, n) => d.attestation_complete = c.attestation_complete
  BY <1>1, <1>2, <1>5, VisitDoes
<1> HIDE DEF d
<1>10. completion_seen' = d.attestation_complete
  <2>1. CASE Takes(c, n)
    BY <1>3, <1>5, <1>9, <2>1
  <2>2. CASE ~Takes(c, n)
    BY <1>3, <1>5, <1>9, <2>2
  <2> QED
    BY <2>1, <2>2
(* A frame taken joins the strings of its class. *)
<1>11. ASSUME Takes(c, n), NEW k \in Nat, k = n,
              EndsWithClass(c.tree, "tree", k), EndsWithClass(c.attestation, "attestation", k)
       PROVE  /\ EndsWithClass(d.tree, "tree", n + 1)
              /\ EndsWithClass(d.attestation, "attestation", n + 1)
  <2>1. c.tree \in Seq(Positions) /\ c.attestation \in Seq(Positions)
    BY <1>5 DEF CollectorType
  <2>2. /\ EndsWithClass(c.tree, "tree", n) /\ EndsWithClass(c.attestation, "attestation", n)
    BY <1>11
  <2> QED
    BY <1>8, <1>9, <1>11, <2>1, <2>2, EndGrows
<1>12. ASSUME Takes(c, n), resets = 0
       PROVE  /\ IsOfClass(d.tree, "tree", n + 1)
              /\ IsOfClass(d.attestation, "attestation", n + 1)
  <2>1. c.tree \in Seq(Positions) /\ c.attestation \in Seq(Positions)
    BY <1>5 DEF CollectorType
  <2>2. /\ IsOfClass(c.tree, "tree", n) /\ IsOfClass(c.attestation, "attestation", n)
    BY <1>7, <1>12
  <2> QED
    BY <1>8, <1>9, <1>12, <2>1, <2>2, OfClassGrows
<1>13. CASE n = m /\ (completion_seen => ~resetLate)
  <2>1. Reaches(c, n)
    BY <1>7, <1>13
  <2>2. (Takes(c, n) <=> InPlace(n)) /\ (Takes(c, n) => Reaches(d, n + 1))
    BY <1>1, <1>2, <1>5, <2>1, VisitNext DEF d
  <2>3. CASE Takes(c, n)
    <3>1. d.rejected = FALSE
      BY <1>9, <2>3
    <3>2. Reaches(collector, n + 1)' /\ n + 1 \in 0 .. Len(script)
      BY <1>2, <1>3, <1>8, <2>2, <2>3 DEF Reaches, Ended, InPlace, Frame
    <3>3. EndsWithClass(c.tree, "tree", n) /\ EndsWithClass(c.attestation, "attestation", n)
      BY <1>7, <1>13 DEF End
    <3>4. /\ EndsWithClass(d.tree, "tree", n + 1)
          /\ EndsWithClass(d.attestation, "attestation", n + 1)
      BY <1>8, <1>11, <2>3, <3>3
    <3>5. End(n + 1)'
      <4>1. PICK t, a : t = d.tree /\ a = d.attestation
        OBVIOUS
      <4>2. EndsWithClass(t, "tree", n + 1) /\ EndsWithClass(a, "attestation", n + 1)
        BY <3>4, <4>1
      <4>3. collector'.tree = t /\ collector'.attestation = a
        BY <1>3, <4>1
      <4> QED
        BY <1>3, <4>2, <4>3, EndTold
    <3>6. resets' = 0 => /\ IsOfClass(collector.tree, "tree", n + 1)'
                         /\ IsOfClass(collector.attestation, "attestation", n + 1)'
      BY <1>3, <1>12, <2>3 DEF IsOfClass, Frame
    <3>7. resetLate' = FALSE
      BY <1>3, <1>5, <1>13
    <3>8. PICK k \in 0 .. Len(script) : k = n + 1
      BY <3>2
    <3>9. Gathered(k)'
      <4>1. SeenE' = k /\ SeenE' <= k
        BY <1>4, <3>8
      <4>2. Reaches(collector, k)'
        BY <3>2, <3>8 DEF Reaches, Ended
      <4>3. End(k)' /\ k \in Nat
        BY <1>8, <3>5, <3>8
      <4>4. resets' = 0 => /\ IsOfClass(collector.tree, "tree", k)'
                           /\ IsOfClass(collector.attestation, "attestation", k)'
        BY <3>6, <3>8 DEF IsOfClass
      <4> QED
        BY <3>7, <4>1, <4>2, <4>3, <4>4 DEF Gathered
    <3>10. \E j \in 0 .. Len(script') : Gathered(j)'
      BY <1>3, <3>8, <3>9
    <3> QED
      BY <1>3, <1>9, <1>10, <3>1, <3>10 DEF CollectorInv, CollectorType, Positions
  <2>4. CASE ~Takes(c, n)
    <3>1. d.rejected = TRUE
      BY <1>9, <2>4
    <3>2. (\E p \in 0 .. Len(script) - 1 : ~InPlace(p))'
      <4>1. n \in 0 .. Len(script) - 1 /\ ~InPlace(n)
        BY <1>2, <1>8, <2>2, <2>4
      <4> QED
        BY <1>3, <4>1 DEF InPlace, Ended, Frame
    <3> QED
      BY <1>3, <1>9, <1>10, <3>1, <3>2 DEF CollectorInv, CollectorType, Positions
  <2> QED
    BY <2>3, <2>4
<1>14. CASE completion_seen /\ resetLate
  <2>1. n = 0 /\ c.attestation_complete
    BY <1>5, <1>7, <1>14
  <2>2. ~Takes(c, n)
    BY <1>7, <1>8, <2>1, VisitLate
  <2>3. d.rejected = TRUE /\ resetLate'
    BY <1>3, <1>9, <1>14, <2>2
  <2> QED
    BY <1>3, <1>9, <1>10, <2>3 DEF CollectorInv, CollectorType, Positions
<1>15. CASE n # m /\ ~completion_seen
  <2>1. n < m /\ ~c.attestation_complete /\ resets # 0
    BY <1>5, <1>7, <1>8, <1>15
  <2>2. Takes(c, n) /\ Reaches(d, m) /\ ~d.attestation_complete
    BY <1>1, <1>2, <1>5, <1>7, <1>8, <2>1, VisitAgain DEF d
  <2>3. d.rejected = FALSE /\ completion_seen' = FALSE
    <3>1. completion_seen' \in BOOLEAN
      BY <1>9, <1>10 DEF CollectorType
    <3> QED
      BY <1>9, <1>10, <2>2, <3>1
  <2>4. Reaches(collector, m)'
    BY <1>3, <2>2 DEF Reaches, Ended, InPlace, Frame
  <2>5. EndsWithClass(c.tree, "tree", n) /\ EndsWithClass(c.attestation, "attestation", n)
    BY <1>7, <1>15 DEF End
  <2>6. /\ EndsWithClass(d.tree, "tree", n + 1)
        /\ EndsWithClass(d.attestation, "attestation", n + 1)
    BY <1>8, <1>11, <2>2, <2>5
  <2>7. PICK k \in Nat : k = n + 1
    BY <1>8
  <2>8. End(k)'
    <3>1. PICK t, a : t = d.tree /\ a = d.attestation
      OBVIOUS
    <3>2. EndsWithClass(t, "tree", k) /\ EndsWithClass(a, "attestation", k)
      BY <2>6, <2>7, <3>1
    <3>3. collector'.tree = t /\ collector'.attestation = a
      BY <1>3, <3>1
    <3> QED
      BY <1>3, <3>2, <3>3, EndTold
  <2>9. SeenE' = k /\ SeenE' <= m /\ resets' # 0
    BY <1>3, <1>4, <1>8, <2>1, <2>7
  <2>10. \E j \in Nat : j = SeenE' /\ End(j)'
    BY <2>8, <2>9
  <2>11. Gathered(m)'
    BY <2>3, <2>4, <2>9, <2>10 DEF Gathered
  <2>12. \E j \in 0 .. Len(script') : Gathered(j)'
    BY <1>3, <2>11
  <2> QED
    BY <1>3, <1>9, <1>10, <2>3, <2>12 DEF CollectorInv, CollectorType, Positions
<1> QED
  BY <1>5, <1>7, <1>13, <1>14, <1>15

(* The device starts again: nothing of the new response has come yet. *)
LEMMA RestartGathers == StreamInv /\ DeviceRestarts => CollectorInv'
<1> SUFFICES ASSUME StreamInv, DeviceRestarts PROVE CollectorInv'
  OBVIOUS
<1>1. /\ UNCHANGED <<script, collector, completion_seen>>
      /\ resetLate' = (resetLate \/ completion_seen)
      /\ resetOnLine' = TRUE /\ resets' = resets + 1
  BY DEF DeviceRestarts, Restart
<1>2. resets' # 0
  <2>1. resets \in Nat
    BY ControlParameters DEF StreamInv, StreamTypeOK, ControlTypeOK
  <2> QED
    BY <1>1, <2>1
<1>3. SeenE' = 0
  BY <1>1 DEF SeenE
<1>4. /\ collector \in CollectorType /\ completion_seen = collector.attestation_complete
      /\ completion_seen \in BOOLEAN /\ resetLate \in BOOLEAN
      /\ resetLate => completion_seen
  BY DEF StreamInv, CollectorInv, LateInv
<1>5. CASE collector.rejected
  <2>1. resetLate \/ \E p \in 0 .. Len(script) - 1 : ~InPlace(p)
    BY <1>5 DEF StreamInv, CollectorInv
  <2>2. resetLate' \/ (\E p \in 0 .. Len(script) - 1 : ~InPlace(p))'
    BY <1>1, <2>1 DEF InPlace, Ended, Frame
  <2> QED
    BY <1>1, <1>4, <1>5, <2>2 DEF CollectorInv, CollectorType, Positions
<1>6. CASE ~collector.rejected
  <2>1. PICK m \in 0 .. Len(script) : Gathered(m)
    BY <1>6 DEF StreamInv, CollectorInv
  <2>2. Reaches(collector, m)'
    BY <1>1, <2>1 DEF Gathered, Reaches, Ended, InPlace, Frame
  <2>3. (completion_seen => End(m)) /\ End(0)
    BY <1>4, <2>1, EndsWithNothing DEF Gathered, CollectorType, End
  <2>4. (completion_seen' => End(m)') /\ End(0)'
    BY <1>1, <2>3, EndStays
  <2>5. \E n \in Nat : n = SeenE' /\ End(n)'
    BY <1>3, <2>4
  <2>6. Gathered(m)'
    <3>1. /\ SeenE' <= m
          /\ completion_seen' => SeenE' = IF resetLate' THEN 0 ELSE m
      BY <1>1, <1>3, <1>4
    <3> QED
      BY <1>2, <2>2, <2>4, <2>5, <3>1 DEF Gathered
  <2>7. \E j \in 0 .. Len(script') : Gathered(j)'
    BY <1>1, <2>6
  <2> QED
    BY <1>1, <1>4, <1>6, <2>7 DEF CollectorInv, CollectorType, Positions
<1> QED
  BY <1>5, <1>6

LEMMA SameCollectorInv ==
  ASSUME CollectorInv,
         UNCHANGED <<script, collector, completion_seen, SeenE, resetLate, resets>>
  PROVE  CollectorInv'
<1>0. /\ collector \in CollectorType /\ completion_seen = collector.attestation_complete
      /\ ~collector.rejected => \E m \in 0 .. Len(script) : Gathered(m)
      /\ collector.rejected => resetLate \/ \E p \in 0 .. Len(script) - 1 : ~InPlace(p)
  BY DEF CollectorInv
<1>4. CASE ~collector.rejected
  <2>1. PICK m \in 0 .. Len(script) : Gathered(m)
    BY <1>0, <1>4
  <2>2. Gathered(m)'
    BY <2>1, GatheredStays
  <2>3. \E j \in 0 .. Len(script') : Gathered(j)'
    BY <2>1, <2>2
  <2> QED
    BY <1>0, <1>4, <2>3 DEF CollectorInv, CollectorType, Positions
<1>5. CASE collector.rejected
  <2>1. resetLate' \/ (\E p \in 0 .. Len(script) - 1 : ~InPlace(p))'
    BY <1>0, <1>5 DEF InPlace, Ended, Frame
  <2> QED
    BY <1>0, <1>5, <2>1 DEF CollectorInv, CollectorType, Positions
<1> QED
  BY <1>4, <1>5

(* The collector follows what is handed over. *)
LEMMA CollectorStep == StreamInv /\ StreamNext => CollectorInv'
<1> SUFFICES ASSUME StreamInv, StreamNext, ~HostPops, ~DeviceRestarts PROVE CollectorInv'
  BY PopGathers, RestartGathers
<1>1. UNCHANGED <<script, collector, completion_seen, resetLate>>
  BY StreamUnchanged
<1>2. UNCHANGED <<SeenE, resets>>
  <2>1. CASE HostTakesReset
    <3>1. resetOnLine /\ ~resetOnLine' /\ delivered' = << >> /\ resets' = resets
      BY <2>1 DEF HostTakesReset, TakesReset
    <3>2. Len(<< >>) = 0
      OBVIOUS
    <3> QED
      BY <3>1, <3>2 DEF SeenE, E
  <2>2. CASE ~HostTakesReset
    BY <2>2, StreamUnchanged, StreamStepIsLinkStep DEF SeenE, E
  <2> QED
    BY <2>1, <2>2
<1> QED
  BY <1>1, <1>2, SameCollectorInv DEF StreamInv

LEMMA OutcomeStep == StreamInv /\ StreamNext => OutcomeInv'
<1> SUFFICES ASSUME StreamInv, StreamNext PROVE OutcomeInv'
  OBVIOUS
<1> USE DEF StreamInv, OutcomeInv
<1>1. CASE HostReceives \/ HostPops
  <2>1. pc' \notin {"wait", "done", "failed"}
    BY <1>1 DEF HostReceives, HostPops, Receive, Pop
  <2> QED
    BY <2>1
<1>10. CASE HostReceivesNothing \/ HostHandlesControl
  <2>1. UNCHANGED <<pc, elapsed, completion_seen, collector>>
    BY <1>10 DEF HostReceivesNothing, HostHandlesControl, TakesReset, vars, host, clock
  <2> QED
    BY <2>1
<1>2. CASE HostNacks
  BY <1>2 DEF HostNacks, LoseFrame, host
<1>3. CASE HostSendsSack
  BY <1>3 DEF HostSendsSack, SendSack
<1>4. CASE HostRejects
  BY <1>4 DEF HostRejects, GiveUp, clock
<1>5. CASE HostTimesOut
  <2>1. elapsed \in 0 .. TIMEOUT /\ TIMEOUT \in Nat
    BY Times DEF StreamTypeOK
  <2>2. elapsed = TIMEOUT /\ ~completion_seen /\ pc' = "failed"
        /\ elapsed' = elapsed /\ completion_seen' = completion_seen
    BY <1>5, <2>1 DEF HostTimesOut, GiveUp, DeadlinePassed, clock
  <2> QED
    BY <2>2
<1>6. CASE HostCompletes
  BY <1>6 DEF HostCompletes, Complete, Settled
<1>7. CASE DeviceStep \/ LineStep
  BY <1>7 DEF DeviceStep, DeviceGetsRequest, DeviceRestarts, DeviceSends, DeviceResends,
     DeviceHandlesSack, LineStep,
     LineLosesRequest, LineLosesAck, Restart, vars, LineLosesFrame, LineLosesSack, DevSendNew, DevRetransmit, DevHandleSack, LoseFrame,
     LoseSack, host, clock
<1>8. CASE Tick
  BY <1>8 DEF Tick, vars, host
<1>9. CASE Returned
  BY <1>9 DEF Returned, svars, vars, host, clock
<1> QED
  BY <1>1, <1>2, <1>3, <1>4, <1>5, <1>6, <1>7, <1>8, <1>9, <1>10 DEF StreamNext, HostStep

(* The request and the RESET keep their types, in both sorts of turn. *)
LEMMA ControlTypeStep == ControlTypeOK /\ StreamNext => ControlTypeOK'
<1> SUFFICES ASSUME ControlTypeOK, StreamNext PROVE ControlTypeOK'
  OBVIOUS
<1> USE DEF ControlTypeOK
<1>0. /\ 0 \in 0 .. RTO /\ RTO \in Nat /\ MaxResets \in Nat
      /\ requestAge \in 0 .. RTO /\ resets \in 0 .. MaxResets
      /\ request \in {"line", "nacked", "lost", "device"}
      /\ ackOnLine \in BOOLEAN /\ pending \in BOOLEAN /\ resetOnLine \in BOOLEAN
  BY ControlParameters
<1>1. CASE UNCHANGED controlVars
  BY <1>0, <1>1 DEF controlVars, requestVars
<1>2. CASE RepeatsIfDue /\ UNCHANGED <<resetOnLine, resets>>
  <2>1. CASE UNCHANGED requestVars
    BY <1>0, <1>2, <2>1 DEF requestVars
  <2>2. CASE ~UNCHANGED requestVars
    <3>1. /\ requestAge' = 0 /\ pending' = pending
          /\ request' = IF request = "lost" THEN "line" ELSE request
          /\ ackOnLine' = (ackOnLine \/ request = "device")
      BY <1>2, <2>2 DEF RepeatsIfDue
    <3> QED
      BY <1>0, <1>2, <3>1
  <2> QED
    BY <2>1, <2>2
<1>3. CASE (TakesAck \/ TakesNack \/ RequestArrives \/ LoseRequest \/ LoseAck)
             /\ UNCHANGED <<resetOnLine, resets>>
  BY <1>0, <1>3 DEF TakesAck, TakesNack, RequestArrives, LoseRequest, LoseAck
<1>4. CASE TakesReset /\ UNCHANGED requestVars
  BY <1>0, <1>4 DEF TakesReset, requestVars
<1>5. CASE Restart
  BY <1>0, <1>5 DEF Restart, requestVars
<1>6. CASE RequestAges /\ UNCHANGED <<resetOnLine, resets>>
  BY <1>0, <1>6 DEF RequestAges
<1>7. CASE HostStep
  BY <1>1, <1>2, <1>3, <1>4, <1>7 DEF HostStep, HostReceivesNothing, HostHandlesControl,
     HostReceives, HostNacks, HostPops, HostSendsSack, HostRejects, HostTimesOut,
     HostCompletes
<1>8. CASE DeviceStep
  BY <1>1, <1>3, <1>5, <1>8 DEF DeviceStep, DeviceGetsRequest, DeviceSends, DeviceResends,
     DeviceHandlesSack, DeviceRestarts
<1>9. CASE LineStep
  BY <1>1, <1>3, <1>9 DEF LineStep, LineLosesRequest, LineLosesAck, LineLosesFrame,
     LineLosesSack
<1>10. CASE Tick \/ Returned
  BY <1>1, <1>6, <1>10 DEF Tick, Returned, svars
<1> QED
  BY <1>7, <1>8, <1>9, <1>10 DEF StreamNext

(* Timers, counters and types. *)
LEMMA TypeStep == StreamInv /\ StreamNext => StreamTypeOK'
<1> SUFFICES ASSUME StreamInv, StreamNext PROVE StreamTypeOK'
  OBVIOUS
<1>1. TypeOK'
  BY LinkInvStep DEF StreamInv, LinkInv, RecoveringInv, IInv
<1>2. script' \in Scripts
  BY ResponseStep DEF ResponseInv
<1>3. collector'.tree \in Seq(Positions) /\ collector'.attestation \in Seq(Positions)
  BY CollectorStep DEF CollectorInv, CollectorType, Positions
<1>10. ControlTypeOK'
  BY ControlTypeStep DEF StreamInv, StreamTypeOK
<1>4. /\ completion_seen \in BOOLEAN
      /\ age \in [Positions -> 0 .. RTO]
      /\ elapsed \in 0 .. TIMEOUT /\ quiet \in 0 .. SETTLE
      /\ lostFrames \in 0 .. MaxLostFrames /\ lostSacks \in 0 .. MaxLostSacks
  BY DEF StreamInv, StreamTypeOK
<1>5. /\ RTO \in Nat \ {0} /\ 0 \in 0 .. RTO /\ RTO \in 0 .. RTO
      /\ TIMEOUT \in Nat \ {0} /\ SETTLE \in Nat
      /\ MaxLostFrames \in Nat /\ MaxLostSacks \in Nat
  BY Times, ControlParameters
<1>6. completion_seen' \in BOOLEAN
  BY LateStep DEF LateInv
<1>7. age' \in [Positions -> 0 .. RTO]
  <2>1. CASE DeviceSends \/ DeviceResends
    BY <1>4, <1>5, <2>1 DEF DeviceSends, DeviceResends
  <2>2. CASE HostNacks
    BY <1>4, <1>5, <2>2 DEF HostNacks
  <2>3. CASE Tick
    <3>1. \A p \in Outstanding \ sacked : age[p] < RTO
      BY <2>3 DEF Tick
    <3>2. \A p \in Positions : p \in Outstanding \ sacked => age[p] + 1 \in 0 .. RTO
      BY <1>4, <1>5, <3>1
    <3> QED
      BY <1>4, <2>3, <3>2 DEF Tick
  <2>4. CASE ~(DeviceSends \/ DeviceResends \/ HostNacks \/ Tick)
    BY <1>4, <2>4 DEF StreamNext, HostStep, HostReceivesNothing, HostHandlesControl,
       HostReceives, HostPops, HostSendsSack, HostRejects, HostTimesOut, HostCompletes,
       DeviceStep, DeviceGetsRequest, DeviceHandlesSack, DeviceRestarts, LineStep,
       LineLosesRequest, LineLosesAck, LineLosesFrame, LineLosesSack, Returned, svars
  <2> QED
    BY <2>1, <2>2, <2>3, <2>4
<1>8. elapsed' \in 0 .. TIMEOUT /\ quiet' \in 0 .. SETTLE
  <2>1. CASE Tick
    BY <1>4, <1>5, <2>1 DEF Tick, DeadlinePassed, Settled
  <2>2. CASE HostHandlesControl \/ HostReceives \/ HostNacks \/ HostPops
    BY <1>4, <1>5, <2>2 DEF HostHandlesControl, HostReceives, HostNacks, HostPops
  <2>3. CASE ~(Tick \/ HostHandlesControl \/ HostReceives \/ HostNacks \/ HostPops)
    BY <1>4, <2>3 DEF StreamNext, HostStep, HostReceivesNothing, HostSendsSack, HostRejects,
       HostTimesOut, HostCompletes, DeviceStep, DeviceGetsRequest, DeviceSends, DeviceResends,
       DeviceHandlesSack, DeviceRestarts, LineStep, LineLosesRequest, LineLosesAck,
       LineLosesFrame, LineLosesSack, Returned, svars, clock
  <2> QED
    BY <2>1, <2>2, <2>3
<1>9. lostFrames' \in 0 .. MaxLostFrames /\ lostSacks' \in 0 .. MaxLostSacks
  <2>1. CASE HostNacks \/ LineLosesFrame \/ LineLosesAck
    BY <1>4, <1>5, <2>1 DEF HostNacks, LineLosesFrame, LineLosesAck
  <2>2. CASE LineLosesSack \/ LineLosesRequest
    BY <1>4, <1>5, <2>2 DEF LineLosesSack, LineLosesRequest
  <2>3. CASE DeviceRestarts
    BY <1>4, <2>3 DEF DeviceRestarts
  <2>4. CASE ~(HostNacks \/ LineStep \/ DeviceRestarts)
    BY <1>4, <2>4 DEF StreamNext, HostStep, HostReceivesNothing, HostHandlesControl,
       HostReceives, HostPops, HostSendsSack, HostRejects, HostTimesOut, HostCompletes,
       DeviceStep, DeviceGetsRequest, DeviceSends, DeviceResends, DeviceHandlesSack, Tick,
       Returned, svars, losses
  <2> QED
    BY <2>1, <2>2, <2>3, <2>4 DEF LineStep
<1> QED
  BY <1>1, <1>2, <1>3, <1>6, <1>7, <1>8, <1>9, <1>10 DEF StreamTypeOK, Positions

LEMMA StreamInvStep == StreamInv /\ [StreamNext]_svars => StreamInv'
<1> SUFFICES ASSUME StreamInv, [StreamNext]_svars PROVE StreamInv'
  OBVIOUS
<1>1. LinkInv'
  BY LinkInvStep DEF StreamInv
<1>2. CASE StreamNext
  BY <1>1, <1>2, ResponseStep, LateStep, CollectorStep, OutcomeStep, TypeStep DEF StreamInv
<1>3. CASE UNCHANGED svars
  <2>1. UNCHANGED <<script, next, age, elapsed, quiet, completion_seen, collector,
                    lostFrames, lostSacks, pc, delivered, resetLate, request, ackOnLine,
                    pending, requestAge, resetOnLine, resets>>
    BY <1>3 DEF svars, vars, device, host, clock, losses, controlVars, requestVars
  <2>2. StreamTypeOK'
    <3>1. TypeOK'
      BY <1>1 DEF LinkInv, RecoveringInv, IInv
    <3>2. ControlTypeOK'
      BY <2>1 DEF StreamInv, StreamTypeOK, ControlTypeOK
    <3> QED
      BY <2>1, <3>1, <3>2 DEF StreamInv, StreamTypeOK, Positions
  <2>3. ResponseInv' /\ LateInv'
    BY <2>1 DEF StreamInv, ResponseInv, LateInv
  <2>4. CollectorInv'
    BY <2>1, SameCollectorInv DEF StreamInv, SeenE, E
  <2>5. OutcomeInv'
    BY <2>1 DEF StreamInv, OutcomeInv
  <2> QED
    BY <1>1, <2>2, <2>3, <2>4, <2>5 DEF StreamInv
<1> QED
  BY <1>2, <1>3

(* The invariant holds in every behaviour of the call. *)
THEOREM StreamInvariant == StreamSpec => []StreamInv
BY InitStreamInv, StreamInvStep, PTL DEF StreamSpec

(* Timers stay within their limits, over every loss and retransmission. *)
THEOREM StreamTypeCorrect == StreamSpec => []StreamTypeOK
<1>1. StreamInv => StreamTypeOK
  BY DEF StreamInv
<1> QED
  BY <1>1, StreamInvariant, PTL

-----------------------------------------------------------------------------
(* What the outcome says. *)

(* A frame is in its place as Acceptable has it. *)
LEMMA InPlaceIsAcceptable ==
  ASSUME NEW n \in Nat, n <= Len(script), script \in Seq(ResponseFrame),
         \A p \in 0 .. n - 1 : InPlace(p), Ended("attestation", n)
  PROVE  Acceptable(SubSeq(script, 1, n))
<1> DEFINE s == SubSeq(script, 1, n)
<1>1. DOMAIN s = 1 .. n /\ \A i \in 1 .. n : s[i] = Frame(i - 1)
  <2>1. Len(script) \in Nat
    BY LenProperties
  <2>2. Len(s) = n /\ s \in Seq(ResponseFrame) /\ \A i \in 1 .. n : s[i] = script[i]
    BY <2>1, SubSeqProperties
  <2>3. DOMAIN s = 1 .. n
    BY <2>2, LenProperties
  <2>4. \A i \in 1 .. n : Frame(i - 1) = script[i]
    BY DEF Frame
  <2> QED
    BY <2>2, <2>3, <2>4
<1> HIDE DEF s
<1>2. ASSUME NEW i \in DOMAIN s
      PROVE  /\ s[i].class \in {"tree", "attestation"}
             /\ s[i].class = "attestation" =>
                  \E j \in 1 .. i - 1 : s[j].class = "tree" /\ s[j].last
             /\ s[i].class = "tree" =>
                  ~\E j \in 1 .. i - 1 : s[j].class = "attestation" /\ s[j].last
  <2>1. InPlace(i - 1) /\ s[i] = Frame(i - 1)
    BY <1>1
  <2>2. \A j \in 1 .. i - 1 : s[j] = Frame(j - 1) /\ j - 1 \in 0 .. (i - 1) - 1
    BY <1>1
  <2>3. ASSUME s[i].class = "attestation"
        PROVE  \E j \in 1 .. i - 1 : s[j].class = "tree" /\ s[j].last
    <3>1. PICK p \in 0 .. (i - 1) - 1 : Frame(p).class = "tree" /\ Frame(p).last
      BY <2>1, <2>3 DEF InPlace, Ended
    <3>2. p + 1 \in 1 .. i - 1 /\ s[p + 1] = Frame(p)
      BY <1>1
    <3> QED
      BY <3>1, <3>2
  <2>4. ASSUME s[i].class = "tree"
        PROVE  ~\E j \in 1 .. i - 1 : s[j].class = "attestation" /\ s[j].last
    BY <2>1, <2>2, <2>4 DEF InPlace, Ended
  <2> QED
    BY <2>1, <2>3, <2>4 DEF InPlace
<1>3. \E i \in DOMAIN s : s[i].class = "attestation" /\ s[i].last
  <2>1. PICK p \in 0 .. n - 1 : Frame(p).class = "attestation" /\ Frame(p).last
    BY DEF Ended
  <2>2. p + 1 \in DOMAIN s /\ s[p + 1] = Frame(p)
    BY <1>1
  <2> QED
    BY <2>1, <2>2
<1>4. Acceptable(s)
  BY <1>2, <1>3 DEF Acceptable
<1> QED
  BY <1>4 DEF s

(* A response the collector is meant to take is never rejected. *)
LEMMA AcceptableIsInPlace ==
  ASSUME script \in Seq(ResponseFrame), Acceptable(script),
         NEW p \in Nat, p < Len(script)
  PROVE  InPlace(p)
<1>1. DOMAIN script = 1 .. Len(script) /\ Len(script) \in Nat
  BY LenProperties
<1>2. p + 1 \in DOMAIN script /\ Frame(p) = script[p + 1]
  BY <1>1 DEF Frame
<1>3. ASSUME Frame(p).class = "attestation" PROVE Ended("tree", p)
  <2>1. PICK j \in 1 .. p + 1 - 1 : script[j].class = "tree" /\ script[j].last
    BY <1>2, <1>3 DEF Acceptable
  <2>2. j - 1 \in 0 .. p - 1 /\ Frame(j - 1) = script[j]
    BY DEF Frame
  <2> QED
    BY <2>1, <2>2 DEF Ended
<1>4. ASSUME Frame(p).class = "tree" PROVE ~Ended("attestation", p)
  <2>1. ~\E j \in 1 .. p + 1 - 1 : script[j].class = "attestation" /\ script[j].last
    BY <1>2, <1>4 DEF Acceptable
  <2>2. \A q \in 0 .. p - 1 : q + 1 \in 1 .. p + 1 - 1 /\ Frame(q) = script[q + 1]
    BY DEF Frame
  <2> QED
    BY <2>1, <2>2 DEF Ended
<1> QED
  BY <1>2, <1>3, <1>4 DEF InPlace, Acceptable

(* A success of receive_stream_ex is a whole response in two byte strings  *)
(* that end with their own frames, whatever the line did to the frames,    *)
(* and that hold nothing else unless the device started again.             *)
THEOREM SuccessIsWhole == StreamSpec => []SuccessIsComplete
<1>1. StreamInv => SuccessIsComplete
  <2> SUFFICES ASSUME StreamInv, pc = "done" PROVE SuccessIsComplete
    BY DEF SuccessIsComplete
  <2>1. ~collector.rejected /\ completion_seen /\ collector.attestation_complete
    BY DEF StreamInv, OutcomeInv, CollectorInv
  <2>2. PICK m \in 0 .. Len(script) : Gathered(m)
    BY <2>1 DEF StreamInv, CollectorInv
  <2>3. script \in Seq(ResponseFrame) /\ Len(script) \in Nat
    BY Responses, LenProperties DEF StreamInv, ResponseInv
  <2>4. /\ \A p \in 0 .. m - 1 : InPlace(p)
        /\ Ended("attestation", m)
    BY <2>1, <2>2 DEF Gathered, Reaches
  <2>5. m \in 1 .. Len(script)
    <3>1. m # 0
      BY <2>4 DEF Ended
    <3> QED
      BY <2>3, <3>1
  <2>6. Acceptable(SubSeq(script, 1, m))
    BY <2>3, <2>4, <2>5, InPlaceIsAcceptable
  <2>7. /\ EndsWithClass(collector.tree, "tree", m)
        /\ EndsWithClass(collector.attestation, "attestation", m)
    BY <2>1, <2>2 DEF Gathered, End
  <2>8. ASSUME resets = 0
        PROVE  /\ m = Len(delivered)
               /\ IsOfClass(collector.tree, "tree", m)
               /\ IsOfClass(collector.attestation, "attestation", m)
    <3>1. ~resetOnLine
      BY <2>8 DEF StreamInv, LateInv
    <3> QED
      BY <2>2, <2>8, <3>1 DEF Gathered, SeenE, E
  <2>9. resets = 0 => /\ Acceptable(SubSeq(script, 1, Len(delivered)))
                      /\ IsOfClass(collector.tree, "tree", Len(delivered))
                      /\ IsOfClass(collector.attestation, "attestation", Len(delivered))
    BY <2>6, <2>8
  <2> QED
    BY <2>5, <2>6, <2>7, <2>9 DEF SuccessIsComplete
<1> QED
  BY <1>1, StreamInvariant, PTL

(* A response the collector is meant to take fails only at the deadline,   *)
(* and only while it is incomplete, unless it was begun again after it was *)
(* complete.                                                               *)
THEOREM FailureIsLate == StreamSpec => []FailsOnlyLate
<1>1. StreamInv => FailsOnlyLate
  <2> SUFFICES ASSUME StreamInv, pc = "failed", Acceptable(script), ~resetLate
               PROVE  elapsed = TIMEOUT /\ ~completion_seen
    BY DEF FailsOnlyLate
  <2>1. script \in Seq(ResponseFrame) /\ Len(script) \in Nat
    BY Responses, LenProperties DEF StreamInv, ResponseInv
  <2>2. \A p \in 0 .. Len(script) - 1 : InPlace(p)
    <3> SUFFICES ASSUME NEW p \in 0 .. Len(script) - 1 PROVE InPlace(p)
      OBVIOUS
    <3>1. p \in Nat /\ p < Len(script)
      BY <2>1
    <3> QED
      BY <2>1, <3>1, AcceptableIsInPlace
  <2> QED
    BY <2>2 DEF StreamInv, CollectorInv, OutcomeInv
<1> QED
  BY <1>1, StreamInvariant, PTL

-----------------------------------------------------------------------------
(* The settle time.  A frame the device has not heard of is resent when    *)
(* its timer runs out, and then it is on the line: until it is there, the  *)
(* host has been quiet for no longer than the timer has run.               *)

(* No SACK ever confirms a frame past the one it expects without that one, *)
(* so the device's oldest frame is always one it would resend.             *)
GapInv ==
  /\ base \notin sacked
  /\ \A k \in 1 .. Len(toDev) :
       /\ toDev[k].at \notin sacked
       /\ \A j \in 1 .. k : \A i \in toDev[j].held : toDev[j].at + i # toDev[k].at

QuietInv ==
  /\ ~completion_seen => quiet = 0
  /\ SeenE = Len(script) /\ ~lostLate =>
       \A p \in Outstanding \ sacked :
         quiet <= age[p] \/ (toHost # << >> /\ quiet <= RTO)

ClosedInv == pc = "done" /\ SeenE = Len(script) /\ ~lostLate => base = Len(script)

CloseInv == GapInv /\ QuietInv /\ ClosedInv

LEMMA InitCloseInv == StreamInit => CloseInv
<1> SUFFICES ASSUME StreamInit PROVE CloseInv
  OBVIOUS
<1>1. sacked = {} /\ toDev = << >> /\ pc = "wait" /\ base = 0 /\ next = 0
      /\ quiet = 0
  BY DEF StreamInit, Init
<1>2. Len(toDev) = 0 /\ Outstanding = {}
  BY <1>1 DEF Outstanding
<1> QED
  BY <1>1, <1>2 DEF CloseInv, GapInv, QuietInv, ClosedInv

(* The host hands over whatever is ready before it sends a SACK. *)
LEMMA SackLeavesGap ==
  ASSUME StreamInv, GapInv, HostSendsSack
  PROVE  GapInv'
<1> USE Numbers
<1>1. TypeOK /\ AlignedInv /\ SackInv /\ SackedInv
  BY LinkIsUp DEF StreamInv, IInv, HostSendsSack, SendSack
<1>2. /\ pc = "drain" /\ ~Ready /\ toDev' = Append(toDev, Sack)
      /\ base' = base /\ sacked' = sacked
  BY DEF HostSendsSack, SendSack, device
<1>3. Sack \in SackType /\ Sack.at = E /\ Sack.held = {i \in Slots : recv_window[i] # NoFrame}
  BY <1>1 DEF Sack, SackType, TypeOK, E
<1>4. /\ Len(toDev') = Len(toDev) + 1
      /\ \A k \in 1 .. Len(toDev) : toDev'[k] = toDev[k]
      /\ toDev'[Len(toDev) + 1] = Sack
  BY <1>1, <1>2, <1>3, AppendProperties DEF TypeOK
<1>5. E \in Nat /\ 0 \in Slots
  BY <1>1 DEF Slots
<1>6. recv_window[0] = NoFrame
  <2>1. recv_window[0] # NoFrame => recv_window[0] = E + 0 /\ expected_frame_index = Idx(E)
    BY <1>1, <1>2, <1>5 DEF AlignedInv, Listening
  <2> QED
    BY <1>2, <1>5, <2>1 DEF Ready
<1>7. ~HostHas(E)
  <2>1. ASSUME NEW i \in Slots, recv_window[i] = E PROVE FALSE
    <3>1. E # NoFrame
      BY <1>5, NoFrameFresh
    <3>2. E = E + i /\ i \in Nat
      BY <1>1, <1>2, <2>1, <3>1 DEF AlignedInv, Listening, Slots
    <3>3. i = 0
      BY <1>5, <3>2
    <3> QED
      BY <1>6, <2>1, <3>1, <3>3
  <2> QED
    BY <1>5, <2>1 DEF HostHas, E
<1>8. E \notin sacked
  BY <1>1, <1>2, <1>7 DEF SackedInv
<1>9. \A j \in 1 .. Len(toDev) : \A i \in toDev[j].held : toDev[j].at + i # E
  BY <1>1, <1>2, <1>7 DEF SackInv
<1>10. \A i \in Sack.held : E + i # E
  <2>1. \A i \in Sack.held : i \in Slots /\ i # 0
    BY <1>3, <1>6
  <2> QED
    BY <1>5, <2>1 DEF Slots
<1>11. SUFFICES ASSUME NEW k \in 1 .. Len(toDev) + 1
                PROVE  /\ toDev'[k].at \notin sacked
                       /\ \A j \in 1 .. k : \A i \in toDev'[j].held :
                            toDev'[j].at + i # toDev'[k].at
  BY <1>2, <1>4 DEF GapInv
<1>12. CASE k = Len(toDev) + 1
  <2>1. toDev'[k] = Sack
    BY <1>4, <1>12
  <2>2. ASSUME NEW j \in 1 .. k PROVE \A i \in toDev'[j].held : toDev'[j].at + i # E
    <3>1. CASE j = k
      BY <1>3, <1>10, <2>1, <3>1
    <3>2. CASE j \in 1 .. Len(toDev)
      BY <1>4, <1>9, <3>2
    <3> QED
      BY <1>1, <1>12, <3>1, <3>2
  <2> QED
    BY <1>3, <1>8, <2>1, <2>2
<1>13. CASE k \in 1 .. Len(toDev)
  <2>1. toDev'[k] = toDev[k] /\ \A j \in 1 .. k : toDev'[j] = toDev[j]
    BY <1>1, <1>4, <1>13
  <2> QED
    BY <1>13, <2>1 DEF GapInv
<1> QED
  BY <1>1, <1>12, <1>13

(* What a SACK confirms leaves its own expected frame and those of the     *)
(* SACKs behind it to be resent.                                           *)
LEMMA HandledSackLeavesGap ==
  ASSUME StreamInv, GapInv, DevHandleSack
  PROVE  GapInv'
<1> USE Numbers
<1>1. IInv /\ TypeOK /\ SackInv
  BY LinkIsUp DEF StreamInv, IInv, DevHandleSack
<1> DEFINE s == toDev[1]
<1>2. 1 \in 1 .. Len(toDev) /\ Head(toDev) = s /\ base' = s.at
  BY <1>1, SackMovesBase
<1>3. sacked' = {p \in s.at .. next - 1 : p \in sacked \/ p - s.at \in s.held}
  BY <1>2 DEF DevHandleSack
<1>4. \A k \in 1 .. Len(toDev) : toDev[k] \in SackType /\ toDev[k].at \in Nat
  BY <1>1 DEF SackType
<1>5. ASSUME NEW k \in 1 .. Len(toDev) PROVE toDev[k].at \notin sacked'
  <2>1. toDev[k].at \notin sacked
    BY DEF GapInv
  <2>2. toDev[k].at - s.at \notin s.held
    <3>1. s.at \in Nat /\ toDev[k].at \in Nat /\ 1 \in 1 .. k
      BY <1>2, <1>4
    <3>2. \A i \in s.held : s.at + i # toDev[k].at
      BY <3>1 DEF GapInv
    <3>3. s.at + (toDev[k].at - s.at) = toDev[k].at
      BY <3>1
    <3> QED
      BY <3>2, <3>3
  <2> QED
    BY <1>3, <2>1, <2>2
<1>6. /\ Len(toDev') = Len(toDev) - 1
      /\ \A k \in 1 .. Len(toDev') : toDev'[k] = toDev[k + 1]
  <2>1. toDev # << >> /\ toDev' = Tail(toDev)
    BY DEF DevHandleSack
  <2> QED
    BY <1>1, <2>1, HeadTailProperties DEF TypeOK
<1>7. ASSUME NEW k \in 1 .. Len(toDev')
      PROVE  /\ toDev'[k].at \notin sacked'
             /\ \A j \in 1 .. k : \A i \in toDev'[j].held : toDev'[j].at + i # toDev'[k].at
  <2>1. k + 1 \in 1 .. Len(toDev) /\ toDev'[k] = toDev[k + 1]
    BY <1>1, <1>6
  <2>2. \A j \in 1 .. k : j + 1 \in 1 .. k + 1 /\ toDev'[j] = toDev[j + 1]
    BY <1>1, <1>6
  <2> QED
    BY <1>5, <2>1, <2>2 DEF GapInv
<1> QED
  BY <1>2, <1>5, <1>7 DEF GapInv

LEMMA GapStep == StreamInv /\ GapInv /\ [StreamNext]_svars => GapInv'
<1> SUFFICES ASSUME StreamInv, GapInv, [StreamNext]_svars PROVE GapInv'
  OBVIOUS
<1>1. CASE HostSendsSack
  BY <1>1, SackLeavesGap
<1>2. CASE DeviceHandlesSack
  BY <1>2, HandledSackLeavesGap DEF DeviceHandlesSack
<1>3. CASE LineLosesSack
  <2>1. /\ toDev # << >> /\ toDev' = Tail(toDev) /\ base' = base /\ sacked' = sacked
    BY <1>3 DEF LineLosesSack, LoseSack, device
  <2>2. /\ Len(toDev) \in Nat /\ Len(toDev') = Len(toDev) - 1
        /\ \A k \in 1 .. Len(toDev') : toDev'[k] = toDev[k + 1]
    BY <2>1, Numbers, LinkIsUp, HeadTailProperties DEF StreamInv, IInv, TypeOK
  <2>3. ASSUME NEW k \in 1 .. Len(toDev')
        PROVE  /\ toDev'[k].at \notin sacked
               /\ \A j \in 1 .. k : \A i \in toDev'[j].held : toDev'[j].at + i # toDev'[k].at
    <3>1. k + 1 \in 1 .. Len(toDev) /\ toDev'[k] = toDev[k + 1]
      BY <2>2
    <3>2. \A j \in 1 .. k : j + 1 \in 1 .. k + 1 /\ toDev'[j] = toDev[j + 1]
      BY <2>2
    <3> QED
      BY <3>1, <3>2 DEF GapInv
  <2> QED
    BY <2>1, <2>3 DEF GapInv
<1>4. CASE DeviceSends
  BY <1>4 DEF DeviceSends, DevSendNew, GapInv
<1>6. CASE DeviceRestarts
  <2>1. base' = 0 /\ sacked' = {} /\ toDev' = << >>
    BY <1>6 DEF DeviceRestarts, Restart
  <2>2. Len(toDev') = 0
    BY <2>1
  <2> QED
    BY <2>1, <2>2 DEF GapInv
<1>5. CASE ~(HostSendsSack \/ DeviceHandlesSack \/ LineLosesSack \/ DeviceSends
               \/ DeviceRestarts)
  <2>1. UNCHANGED <<base, sacked, toDev>>
    BY <1>5 DEF StreamNext, HostStep, HostReceivesNothing, HostHandlesControl, TakesReset,
       HostReceives, HostNacks, HostPops, HostRejects, HostTimesOut, HostCompletes,
       DeviceStep, DeviceGetsRequest, DeviceResends, LineStep, LineLosesRequest,
       LineLosesAck, LineLosesFrame, Tick, Returned, svars, vars, device, Receive, LoseFrame, Pop, GiveUp, Complete,
       DevRetransmit
  <2> QED
    BY <2>1 DEF GapInv
<1> QED
  BY <1>1, <1>2, <1>3, <1>4, <1>5, <1>6

(* A frame not confirmed is either on the line again or has been silent    *)
(* for at least as long as the host.                                       *)
LEMMA QuietStep == StreamInv /\ QuietInv /\ [StreamNext]_svars => QuietInv'
<1> SUFFICES ASSUME StreamInv, QuietInv, [StreamNext]_svars PROVE QuietInv'
  OBVIOUS
<1> USE Numbers
<1>0. TypeOK
  BY DEF StreamInv, LinkInv, RecoveringInv, IInv
<1>1. /\ TypeOK /\ ResponseInv /\ next <= NumFrames
      /\ age \in [Positions -> 0 .. RTO] /\ quiet \in 0 .. SETTLE
      /\ completion_seen \in BOOLEAN
      /\ RTO \in Nat /\ SETTLE \in Nat /\ NumFrames \in Nat
  BY <1>0, Times, ControlParameters, Bounds DEF StreamInv, StreamTypeOK, ResponseInv
<1>2. Outstanding \subseteq Positions
  BY <1>1 DEF Outstanding, Positions
<1>3. \A p \in Outstanding : age[p] \in 0 .. RTO
  BY <1>1, <1>2
<1>4. ASSUME quiet' = 0, age' \in [Positions -> 0 .. RTO],
             next' = next, base' = base
      PROVE  QuietInv'
  <2>1. Outstanding' = Outstanding
    BY <1>4 DEF Outstanding
  <2>2. \A p \in Outstanding' : quiet' <= age'[p]
    BY <1>1, <1>2, <1>4, <2>1
  <2> QED
    BY <1>4, <2>2 DEF QuietInv
<1>5. CASE HostReceives \/ HostPops
  BY <1>1, <1>4, <1>5 DEF HostReceives, HostPops, Receive, Pop, device
<1>6. CASE HostNacks
  <2>1. age' \in [Positions -> 0 .. RTO]
    BY <1>1, <1>6 DEF HostNacks
  <2> QED
    BY <1>4, <1>6, <2>1 DEF HostNacks, LoseFrame, device
<1>7. CASE \/ HostReceivesNothing \/ HostSendsSack \/ HostRejects \/ HostTimesOut
           \/ HostCompletes \/ DeviceGetsRequest \/ LineLosesRequest \/ LineLosesAck
           \/ LineLosesSack
  <2>1. UNCHANGED <<base, next, sacked, toHost, delivered, resetOnLine, script, age, quiet,
                    completion_seen, lostLate>>
    BY <1>7 DEF HostReceivesNothing, HostSendsSack, HostRejects, HostTimesOut, HostCompletes,
       DeviceGetsRequest, LineLosesRequest, LineLosesAck, LineLosesSack, SendSack, GiveUp,
       Complete, LoseSack, vars, device, host, controlVars, clock, losses
  <2> QED
    BY <2>1 DEF QuietInv, Outstanding, SeenE, E
<1>14. CASE HostHandlesControl
  <2>1. quiet' = 0 /\ UNCHANGED <<base, next, age>>
    BY <1>14 DEF HostHandlesControl, TakesReset, vars, device
  <2> QED
    BY <1>1, <1>4, <2>1
<1>15. CASE DeviceRestarts
  <2>1. base' = 0 /\ next' = 0 /\ UNCHANGED <<quiet, completion_seen>>
    BY <1>15 DEF DeviceRestarts, Restart, clock
  <2>2. Outstanding' = {}
    BY <2>1 DEF Outstanding
  <2> QED
    BY <2>1, <2>2 DEF QuietInv
<1>8. CASE DeviceSends
  <2>1. next < Len(script) /\ SeenE \in Nat /\ SeenE <= next
    BY <1>8, SeenIsSent DEF DeviceSends, StreamInv
  <2>2. Len(script) \in Nat
    BY <1>1, Responses, LenProperties DEF ResponseInv
  <2>3. SeenE' = SeenE /\ script' = script /\ quiet' = quiet /\ completion_seen' = completion_seen
    BY <1>8 DEF DeviceSends, DevSendNew, SeenE, E, host, clock, controlVars
  <2> QED
    BY <1>1, <2>1, <2>2, <2>3 DEF QuietInv
<1>9. CASE DeviceResends
  <2>1. PICK p \in Outstanding : /\ age[p] = RTO /\ DevRetransmit(p)
                                 /\ age' = [age EXCEPT ![p] = 0]
    BY <1>9 DEF DeviceResends
  <2>2. /\ p \notin sacked /\ toHost' = Append(toHost, p) /\ p \in Nat
        /\ UNCHANGED <<base, next, sacked, delivered, resetOnLine, script, quiet, completion_seen,
                       lostLate>>
    BY <1>1, <1>9, <2>1 DEF DeviceResends, DevRetransmit, Outstanding, device, host, clock,
       losses, controlVars
  <2>3. toHost' # << >>
    <3>1. toHost \in Seq(Nat) /\ Len(toHost) \in Nat
      BY <1>1 DEF TypeOK
    <3>2. Len(toHost') = Len(toHost) + 1
      BY <2>2, <3>1, AppendProperties
    <3> QED
      BY <3>1, <3>2, Len(<< >>) = 0
  <2>4. Outstanding' = Outstanding /\ SeenE' = SeenE
    BY <2>2 DEF Outstanding, SeenE, E
  <2>5. \A q \in Outstanding : q # p => age'[q] = age[q]
    BY <1>1, <1>2, <2>1
  <2>6. ASSUME SeenE = Len(script), ~lostLate, NEW q \in Outstanding \ sacked
        PROVE  quiet <= age'[q] \/ quiet <= RTO
    <3>1. quiet <= age[q] \/ quiet <= RTO
      BY <2>6 DEF QuietInv
    <3>2. CASE q # p
      BY <2>5, <3>1, <3>2
    <3>3. CASE q = p
      BY <1>1, <2>1, <3>1, <3>3
    <3> QED
      BY <3>2, <3>3
  <2>7. \A q \in Outstanding : age'[q] \in Nat /\ (quiet <= age'[q] => quiet <= RTO)
    BY <1>1, <1>2, <1>3, <2>1
  <2> QED
    BY <2>2, <2>3, <2>4, <2>6, <2>7 DEF QuietInv
<1>10. CASE DeviceHandlesSack
  <2>1. /\ UNCHANGED <<next, toHost, delivered, resetOnLine, script, age, quiet, completion_seen,
                       lostLate>>
        /\ base' \in base .. E
    <3>1. IInv
      BY <1>10, LinkIsUp DEF DeviceHandlesSack, DevHandleSack, StreamInv
    <3> QED
      BY <1>10, <3>1, SackMovesBase DEF DeviceHandlesSack, DevHandleSack, host, clock, losses,
         controlVars
  <2>2. sacked' = {p \in base' .. next - 1 :
                     p \in sacked \/ p - base' \in Head(toDev).held}
    BY <1>10 DEF DeviceHandlesSack, DevHandleSack
  <2>3. (Outstanding \ sacked)' \subseteq Outstanding \ sacked
    BY <1>1, <2>1, <2>2 DEF Outstanding
  <2> QED
    BY <2>1, <2>3 DEF QuietInv, SeenE, E
<1>11. CASE LineLosesFrame
  <2>1. /\ UNCHANGED <<base, next, quiet, age, completion_seen>>
        /\ lostLate' = (lostLate \/ completion_seen)
    BY <1>11 DEF LineLosesFrame, LoseFrame, device, clock
  <2>2. CASE completion_seen
    BY <2>1, <2>2 DEF QuietInv
  <2>3. CASE ~completion_seen
    BY <1>1, <1>4, <2>1, <2>3 DEF QuietInv
  <2> QED
    BY <2>2, <2>3
<1>12. CASE Tick
  <2>1. /\ toHost = << >>
        /\ UNCHANGED <<base, next, sacked, delivered, resetOnLine, script, completion_seen,
                       lostLate>>
        /\ IF completion_seen THEN quiet' = quiet + 1 ELSE quiet' = quiet
        /\ age' = [p \in Positions |->
                     IF p \in Outstanding \ sacked THEN age[p] + 1 ELSE age[p]]
    BY <1>12 DEF Tick, vars, device, host, losses
  <2>2. ASSUME SeenE = Len(script), ~lostLate, NEW p \in Outstanding \ sacked
        PROVE  quiet' <= age'[p]
    <3>1. quiet <= age[p]
      BY <2>1, <2>2 DEF QuietInv
    <3>2. age'[p] = age[p] + 1
      BY <1>2, <2>1
    <3> QED
      BY <1>1, <1>3, <2>1, <3>1, <3>2
  <2> QED
    BY <2>1, <2>2 DEF QuietInv, Outstanding, SeenE, E
<1>13. CASE Returned \/ UNCHANGED svars
  <2>1. UNCHANGED <<base, next, sacked, toHost, delivered, resetOnLine, script, age, quiet,
                    completion_seen, lostLate>>
    BY <1>13 DEF Returned, svars, vars, device, host, controlVars, clock, losses
  <2> QED
    BY <2>1 DEF QuietInv, Outstanding, SeenE, E
<1> QED
  BY <1>5, <1>6, <1>7, <1>8, <1>9, <1>10, <1>11, <1>12, <1>13, <1>14,
     <1>15
     DEF StreamNext, HostStep, DeviceStep, LineStep

(* A settle time longer than the timer sees every resend. *)
LEMMA ClosedStep ==
  ASSUME SETTLE > RTO, StreamInv, GapInv, QuietInv, ClosedInv, [StreamNext]_svars
  PROVE  ClosedInv'
<1> USE Numbers
<1>1. CASE HostCompletes
  <2>1. /\ completion_seen /\ quiet >= SETTLE
        /\ UNCHANGED <<base, next, sacked, delivered, resetOnLine, script, lostLate>>
    BY <1>1 DEF HostCompletes, Settled, Complete, device, controlVars, losses
  <2>2. SUFFICES ASSUME SeenE = Len(script), ~lostLate PROVE base = Len(script)
    BY <2>1 DEF ClosedInv, SeenE, E
  <2>3. /\ age \in [Positions -> 0 .. RTO] /\ quiet \in 0 .. SETTLE
        /\ RTO \in Nat /\ SETTLE \in Nat /\ NumFrames \in Nat /\ TypeOK
        /\ base <= SeenE /\ next <= NumFrames /\ next <= Len(script)
        /\ SeenE \in Nat /\ next \in Nat /\ SeenE <= next /\ base \in Nat
    <3>1. base <= SeenE /\ TypeOK
      <4>1. CASE resetOnLine
        BY <4>1 DEF StreamInv, LinkInv, RecoveringInv, SeenE
      <4>2. CASE ~resetOnLine
        BY <4>2 DEF StreamInv, LinkInv, IInv, WindowInv, SeenE
      <4> QED
        BY <4>1, <4>2
    <3> QED
      BY <3>1, SeenIsSent, Times, ControlParameters, Bounds
         DEF StreamInv, StreamTypeOK, ResponseInv, TypeOK
  <2>4. ASSUME NEW p \in Outstanding \ sacked PROVE FALSE
    <3>1. p \in Positions
      BY <2>3 DEF Outstanding, Positions
    <3>2. age[p] \in 0 .. RTO
      BY <2>3, <3>1
    <3>3. quiet <= age[p] \/ quiet <= RTO
      BY <2>2 DEF QuietInv
    <3> QED
      BY <2>1, <2>3, <3>2, <3>3
  <2>5. base \notin Outstanding
    BY <2>4 DEF GapInv
  <2> QED
    BY <2>2, <2>3, <2>5 DEF Outstanding
<1>2. CASE Returned \/ UNCHANGED svars
  BY <1>2 DEF Returned, svars, vars, device, host, losses, controlVars, ClosedInv,
     SeenE, E
<1>3. CASE ~(HostCompletes \/ Returned \/ UNCHANGED svars)
  <2>1. pc' # "done"
    BY <1>3 DEF StreamNext, HostStep, HostReceivesNothing, HostHandlesControl, TakesReset,
       InLoop, HostReceives, HostNacks, HostPops, HostSendsSack,
       HostRejects, HostTimesOut, DeviceStep, DeviceGetsRequest, DeviceSends, DeviceResends,
       DeviceHandlesSack, DeviceRestarts, Restart, LineStep, LineLosesRequest, LineLosesAck,
       LineLosesFrame, LineLosesSack, Tick, vars, host, Listening, Receive,
       LoseFrame, Pop, SendSack, GiveUp, DevSendNew, DevRetransmit, DevHandleSack, LoseSack
  <2> QED
    BY <2>1 DEF ClosedInv
<1> QED
  BY <1>1, <1>2, <1>3

(* With a settle time longer than the device's timer (1200 ms against      *)
(* 1000 ms), a success leaves a device that has been told of every frame,  *)
(* however many SACKs the line lost, unless it started again after that.   *)
THEOREM ClosesClean ==
  ASSUME SETTLE > RTO
  PROVE  StreamSpec => []CleanClose
<1>1. CloseInv /\ StreamInv /\ [StreamNext]_svars => CloseInv'
  BY GapStep, QuietStep, ClosedStep DEF CloseInv
<1>2. StreamInv /\ CloseInv => CleanClose
  <2>1. StreamInv /\ pc = "done" /\ ~resetLate => ~resetOnLine
    BY DEF StreamInv, OutcomeInv, LateInv
  <2> QED
    BY <2>1 DEF CloseInv, ClosedInv, CleanClose, SeenE, E
<1> QED
  BY <1>1, <1>2, InitCloseInv, StreamInvariant, PTL DEF StreamSpec
=============================================================================
