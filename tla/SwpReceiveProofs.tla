--------------------------- MODULE SwpReceiveProofs ---------------------------
(***************************************************************************)
(* Proofs about SwpReceive for every window, index space, capacity, set of *)
(* responses and number of losses and restarts of the device.              *)
(***************************************************************************)
EXTENDS SwpReceive, TLAPS, SequenceTheorems, WellFoundedInduction

-----------------------------------------------------------------------------
(* Induction over data, by the least element of a set of numbers. *)

LEMMA LeastNatural ==
  ASSUME NEW T, T \subseteq Nat, T # {}
  PROVE  \E x \in T : \A y \in T : x <= y
<1> DEFINE R == {ss \in Nat \X Nat : ss[1] < ss[2]}
<1>1. IsWellFoundedOn(R, Nat)
  BY NatLessThanWellFounded DEF OpToRel
<1>2. \E x \in T : \A y \in T : <<y, x>> \notin R
  <2> HIDE DEF R
  <2> QED
    BY <1>1, WFMin
<1>3. PICK x \in T : \A y \in T : <<y, x>> \notin R
  BY <1>2
<1>4. \A y \in T : <<y, x>> \in Nat \X Nat
  OBVIOUS
<1>5. \A y \in T : ~(y < x)
  BY <1>3, <1>4
<1> QED
  BY <1>5

(* A set with nought and every successor up to m has every number up to m. *)
LEMMA AllUpTo ==
  ASSUME NEW m \in Nat, NEW S, 0 \in S, \A n \in 0 .. m - 1 : n \in S => n + 1 \in S
  PROVE  0 .. m \subseteq S
<1> DEFINE T == {n \in 0 .. m : n \notin S}
<1>1. SUFFICES ASSUME T # {} PROVE FALSE
  OBVIOUS
<1>2. T \subseteq Nat
  OBVIOUS
<1>3. PICK x \in T : \A y \in T : x <= y
  <2> HIDE DEF T
  <2> QED
    BY <1>1, <1>2, LeastNatural
<1>4. x # 0 /\ x \in 1 .. m /\ x - 1 \in 0 .. m - 1
  OBVIOUS
<1>5. x - 1 \notin T
  BY <1>3, <1>4
<1>6. x - 1 \in S
  BY <1>4, <1>5
<1> QED
  BY <1>4, <1>6

-----------------------------------------------------------------------------
(* The bytes of a sequence of frames. *)

Sums(t, s, k) ==
  t = [n \in 0 .. k |-> IF n = 0 THEN 0 ELSE t[n - 1] + Frame(s[n]).len]

Total(s) == CHOOSE t : Sums(t, s, Len(s))

LEMMA BytesIsTotal ==
  ASSUME NEW s
  PROVE  Bytes(s) = Total(s)[Len(s)]
BY DEF Bytes, Total, Sums

(* The sums exist: each is the one before with one frame more. *)
LEMMA SumsExist ==
  ASSUME NEW s, Len(s) \in Nat
  PROVE  Sums(Total(s), s, Len(s))
<1> DEFINE S == {k \in Nat : \E t : Sums(t, s, k)}
<1>1. 0 \in S
  <2> DEFINE t == [n \in 0 .. 0 |-> 0]
  <2>1. Sums(t, s, 0)
    BY DEF Sums
  <2> QED
    BY <2>1
<1>2. ASSUME NEW k \in 0 .. Len(s) - 1, k \in S
      PROVE  k + 1 \in S
  <2>1. PICK t : Sums(t, s, k)
    BY <1>2
  <2> DEFINE u == [n \in 0 .. k + 1 |-> IF n = k + 1 THEN t[k] + Frame(s[k + 1]).len ELSE t[n]]
  <2>2. /\ t[0] = 0
        /\ \A n \in 1 .. k : t[n] = t[n - 1] + Frame(s[n]).len
    BY <2>1 DEF Sums
  <2>3. /\ DOMAIN u = 0 .. k + 1 /\ u[0] = 0 /\ u[k + 1] = u[k] + Frame(s[k + 1]).len
        /\ \A n \in 1 .. k : u[n] = u[n - 1] + Frame(s[n]).len
    BY <2>2
  <2>4. u = [n \in 0 .. k + 1 |-> u[n]]
    OBVIOUS
  <2> HIDE DEF u
  <2>5. 0 .. k + 1 = {0} \cup (1 .. k) \cup {k + 1} /\ (k + 1) - 1 = k /\ k + 1 # 0
    OBVIOUS
  <2>6. \A n \in 0 .. k + 1 : u[n] = IF n = 0 THEN 0 ELSE u[n - 1] + Frame(s[n]).len
    BY <2>3, <2>5
  <2>7. Sums(u, s, k + 1)
    BY <2>4, <2>6 DEF Sums
  <2> QED
    BY <2>7
<1>3. 0 .. Len(s) \subseteq S
  <2> HIDE DEF S
  <2> QED
    BY <1>1, <1>2, AllUpTo
<1>4. \E t : Sums(t, s, Len(s))
  BY <1>3
<1> QED
  BY <1>4 DEF Total

LEMMA TotalSteps ==
  ASSUME NEW s, Len(s) \in Nat
  PROVE  /\ Total(s)[0] = 0
         /\ \A n \in 1 .. Len(s) : Total(s)[n] = Total(s)[n - 1] + Frame(s[n]).len
BY SumsExist DEF Sums

Sized == {p \in Nat : Frame(p).len \in Nat}

LEMMA TotalNat ==
  ASSUME NEW s \in Seq(Sized)
  PROVE  \A n \in 0 .. Len(s) : Total(s)[n] \in Nat
<1> DEFINE S == {n \in Nat : Total(s)[n] \in Nat}
<1>1. Len(s) \in Nat
  BY LenProperties
<1>2. 0 \in S
  BY <1>1, TotalSteps
<1>3. ASSUME NEW n \in 0 .. Len(s) - 1, n \in S PROVE n + 1 \in S
  <2>1. n + 1 \in 1 .. Len(s) /\ (n + 1) - 1 = n
    BY <1>1
  <2>2. Frame(s[n + 1]).len \in Nat
    BY <2>1, ElementOfSeq DEF Sized
  <2>3. Total(s)[n + 1] = Total(s)[n] + Frame(s[n + 1]).len
    BY <1>1, <2>1, TotalSteps
  <2> QED
    BY <1>3, <2>2, <2>3
<1>4. 0 .. Len(s) \subseteq S
  <2> HIDE DEF S
  <2> QED
    BY <1>1, <1>2, <1>3, AllUpTo
<1> QED
  BY <1>4

LEMMA TotalGrows ==
  ASSUME NEW s \in Seq(Sized), NEW m \in 0 .. Len(s)
  PROVE  Total(s)[m] <= Total(s)[Len(s)]
<1> DEFINE S == {n \in Nat : m + n <= Len(s) => Total(s)[m] <= Total(s)[m + n]}
<1>1. Len(s) \in Nat /\ m \in Nat /\ Len(s) - m \in Nat
  BY LenProperties
<1>2. 0 \in S
  BY <1>1, TotalNat
<1>3. ASSUME NEW n \in 0 .. (Len(s) - m) - 1, n \in S PROVE n + 1 \in S
  <2>1. /\ m + n + 1 \in 1 .. Len(s) /\ (m + n + 1) - 1 = m + n
        /\ m + n \in 0 .. Len(s) /\ m + (n + 1) = m + n + 1
    BY <1>1
  <2>2. Frame(s[m + n + 1]).len \in Nat
    BY <2>1, ElementOfSeq DEF Sized
  <2>3. Total(s)[m + n + 1] = Total(s)[m + n] + Frame(s[m + n + 1]).len
    BY <1>1, <2>1, TotalSteps
  <2>4. Total(s)[m] \in Nat /\ Total(s)[m + n] \in Nat
    BY <2>1, TotalNat
  <2>5. Total(s)[m] <= Total(s)[m + n]
    BY <1>1, <1>3, <2>1
  <2> QED
    BY <2>1, <2>2, <2>3, <2>4, <2>5
<1>4. 0 .. Len(s) - m \subseteq S
  <2> HIDE DEF S
  <2> QED
    BY <1>1, <1>2, <1>3, AllUpTo
<1>5. Len(s) - m \in S
  <2>1. Len(s) - m \in 0 .. Len(s) - m
    BY <1>1
  <2> HIDE DEF S
  <2> QED
    BY <1>4, <2>1
<1>6. m + (Len(s) - m) = Len(s)
  BY <1>1
<1> QED
  BY <1>1, <1>5, <1>6

(* The frames of t, found behind m frames of s, add what they add in t. *)
LEMMA TotalShifted ==
  ASSUME NEW s \in Seq(Sized), NEW t \in Seq(Sized), NEW m \in Nat, m + Len(t) <= Len(s),
         \A i \in 1 .. Len(t) : s[m + i] = t[i]
  PROVE  \A n \in 0 .. Len(t) : Total(s)[m + n] = Total(s)[m] + Total(t)[n]
<1> DEFINE S == {n \in Nat : Total(s)[m + n] = Total(s)[m] + Total(t)[n]}
<1>1. Len(s) \in Nat /\ Len(t) \in Nat /\ m \in 0 .. Len(s)
  BY LenProperties
<1>2. 0 \in S
  BY <1>1, TotalNat, TotalSteps
<1>3. ASSUME NEW n \in 0 .. Len(t) - 1, n \in S PROVE n + 1 \in S
  <2>1. /\ m + n + 1 \in 1 .. Len(s) /\ (m + n + 1) - 1 = m + n
        /\ n + 1 \in 1 .. Len(t) /\ (n + 1) - 1 = n
        /\ m + n \in 0 .. Len(s) /\ n \in 0 .. Len(t) /\ m + (n + 1) = m + n + 1
    BY <1>1
  <2>2. s[m + n + 1] = t[n + 1]
    BY <2>1
  <2>3. Frame(t[n + 1]).len \in Nat
    BY <2>1, ElementOfSeq DEF Sized
  <2>4. Total(s)[m + n + 1] = Total(s)[m + n] + Frame(s[m + n + 1]).len
    BY <1>1, <2>1, TotalSteps
  <2>5. Total(t)[n + 1] = Total(t)[n] + Frame(t[n + 1]).len
    BY <1>1, <2>1, TotalSteps
  <2>6. /\ Total(s)[m] \in Nat /\ Total(s)[m + n] \in Nat /\ Total(t)[n] \in Nat
    BY <1>1, <2>1, TotalNat
  <2> QED
    BY <1>3, <2>1, <2>2, <2>3, <2>4, <2>5, <2>6
<1>4. 0 .. Len(t) \subseteq S
  <2> HIDE DEF S
  <2> QED
    BY <1>1, <1>2, <1>3, AllUpTo
<1> QED
  BY <1>4

LEMMA BytesNat ==
  ASSUME NEW s \in Seq(Sized)
  PROVE  Bytes(s) \in Nat
BY LenProperties, TotalNat, BytesIsTotal

LEMMA BytesEmpty == Bytes(<< >>) = 0
<1>1. Len(<< >>) = 0
  OBVIOUS
<1> QED
  BY <1>1, TotalSteps, BytesIsTotal

LEMMA BytesAppend ==
  ASSUME NEW s \in Seq(Sized), NEW p \in Sized
  PROVE  Bytes(Append(s, p)) = Bytes(s) + Frame(p).len
<1> DEFINE t == Append(s, p)
<1>1. /\ t \in Seq(Sized) /\ Len(t) = Len(s) + 1 /\ t[Len(s) + 1] = p
      /\ \A i \in 1 .. Len(s) : t[i] = s[i]
  BY AppendProperties
<1> HIDE DEF t
<1>2. Len(s) \in Nat /\ Len(t) \in Nat
  BY LenProperties
<1>3. Total(t)[0] = 0
  BY <1>2, TotalSteps
<1>4. Total(t)[Len(s)] = Total(t)[0] + Total(s)[Len(s)]
  <2>1. PICK m \in Nat : m = 0
    OBVIOUS
  <2>2. m + Len(s) <= Len(t) /\ \A i \in 1 .. Len(s) : t[m + i] = s[i]
    BY <1>1, <1>2, <2>1
  <2>3. \A n \in 0 .. Len(s) : Total(t)[m + n] = Total(t)[m] + Total(s)[n]
    <3>1. t \in Seq(Sized) /\ m + Len(s) <= Len(t)
      BY <1>1, <2>2
    <3>2. \A i \in 1 .. Len(s) : t[m + i] = s[i]
      BY <2>2
    <3> QED
      BY <3>1, <3>2, TotalShifted
  <2>4. Total(t)[m + Len(s)] = Total(t)[m] + Total(s)[Len(s)]
    BY <1>2, <2>3
  <2>5. m + Len(s) = Len(s)
    BY <1>2, <2>1
  <2> QED
    BY <2>1, <2>4, <2>5
<1>5. Total(t)[Len(t)] = Total(t)[Len(s)] + Frame(p).len
  <2>1. Len(s) + 1 \in 1 .. Len(t) /\ (Len(s) + 1) - 1 = Len(s)
    BY <1>1, <1>2
  <2> QED
    BY <1>1, <1>2, <2>1, TotalSteps
<1>6. Total(s)[Len(s)] \in Nat
  BY <1>2, TotalNat
<1>7. Bytes(t) = Total(t)[Len(t)] /\ Bytes(s) = Total(s)[Len(s)]
  BY BytesIsTotal
<1>8. Bytes(t) = Bytes(s) + Frame(p).len
  BY <1>3, <1>4, <1>5, <1>6, <1>7 DEF Sized
<1> QED
  BY <1>8 DEF t

-----------------------------------------------------------------------------
(* The link below the call.  A RESET on the line is as good as handled:    *)
(* nothing is received before it, and it clears the receiver.  An empty    *)
(* response is complete for the link, although the call then fails.        *)

Seen(v, cleared) == IF resetOnLine THEN cleared ELSE v

Link == INSTANCE SwpLinkProofs WITH
  recv_window <- Seen(recv_window, EmptyWindow),
  expected_frame_index <- Seen(expected_frame_index, 0),
  delivered <- Seen(delivered, << >>),
  pc <- IF cause = "empty" THEN "done" ELSE pc

(* Where the call is when. *)
StageInv ==
  /\ pc \in {"wait", "drain", "done", "failed"}
  /\ cause \in {"none", "timeout", "overflow", "empty"}
  /\ cause # "none" <=> pc = "failed"
  /\ pc = "drain" => stage = "call" /\ ~resetOnLine
  /\ resetOnLine \in BOOLEAN

LEMMA LinkStep == StageInv /\ ReceiveNext => [Link!Next]_(Link!vars) \/ Link!Init'
<1> SUFFICES ASSUME StageInv, ReceiveNext
             PROVE  [Link!Next]_(Link!vars) \/ Link!Init'
  OBVIOUS
<1> USE DEF Seen, StageInv, Link!vars, Link!host, Link!device, vars, host, device,
            Link!EmptyWindow, EmptyWindow, Link!Slots, Slots
<1>1. CASE ChecksTime \/ CallsReceive \/ ReturnsNothing \/ HandlesAck
  BY <1>1 DEF ChecksTime, CallsReceive, ReturnsNothing, HandlesAck, resultVars,
    RepeatsIfDue, NextTurn, TakesAck, TakesNack
<1>2. CASE TimesOut
  <2>1. Link!GiveUp
    BY <1>2 DEF TimesOut, GiveUp, Link!GiveUp
  <2> QED
    BY <2>1 DEF Link!Next
<1>3. CASE HandlesReset
  BY <1>3 DEF HandlesReset, resultVars, TakesReset, NextTurn
<1>4. CASE Nacks
  <2>1. Link!LoseFrame
    BY <1>4 DEF Nacks, LoseFrame, Link!LoseFrame, resultVars, NextTurn
  <2> QED
    BY <2>1 DEF Link!Next
<1>5. CASE ReceivesData
  <2>1. Link!Receive
    BY <1>5 DEF ReceivesData, Receive, Link!Receive, Store, Link!Store, Idx, Link!Idx,
                Ahead, Link!Ahead, InCall, resultVars
  <2> QED
    BY <2>1 DEF Link!Next
<1>6. CASE Drains
  <2>1. Link!Pop
    BY <1>6 DEF Drains, Pop, Link!Pop, Ready, Link!Ready, ShiftedWindow,
                Link!ShiftedWindow, Idx, Link!Idx
  <2> QED
    BY <2>1 DEF Link!Next
<1>7. CASE Overflows
  <2>1. Link!GiveUp
    BY <1>7 DEF Overflows, GiveUp, Link!GiveUp
  <2> QED
    BY <2>1 DEF Link!Next
<1>8. CASE SendsSack
  <2>1. Link!SendSack
    BY <1>8 DEF SendsSack, SendSack, Link!SendSack, Sack, Link!Sack, resultVars, NextTurn
  <2> QED
    BY <2>1 DEF Link!Next
<1>9. CASE ReturnsResponse
  <2>1. Link!Complete
    BY <1>9 DEF ReturnsResponse, Complete, Link!Complete
  <2> QED
    BY <2>1 DEF Link!Next
<1>10. CASE DeviceGetsRequest \/ LineLosesRequest \/ LineLosesAck
  BY <1>10 DEF DeviceGetsRequest, LineLosesRequest, LineLosesAck, resultVars,
    RequestArrives, LoseRequest, LoseAck
<1>11. CASE DeviceSends
  <2>1. Link!DevSendNew
    BY <1>11 DEF DeviceSends, DevSendNew, Link!DevSendNew, resultVars
  <2> QED
    BY <2>1 DEF Link!Next
<1>12. CASE DeviceResends
  <2>1. PICK p \in base .. next - 1 : DevRetransmit(p)
    BY <1>12 DEF DeviceResends, Outstanding
  <2>2. Link!DevRetransmit(p)
    BY <1>12, <2>1 DEF DeviceResends, DevRetransmit, Link!DevRetransmit, resultVars
  <2> QED
    BY <2>2 DEF Link!Next
<1>13. CASE DeviceHandlesSack
  <2>1. Link!DevHandleSack
    BY <1>13 DEF DeviceHandlesSack, DevHandleSack, Link!DevHandleSack, resultVars,
                 Idx, Link!Idx, Ahead, Link!Ahead
  <2> QED
    BY <2>1 DEF Link!Next
<1>14. CASE DeviceRestarts
  BY <1>14 DEF DeviceRestarts, Link!Init, resultVars, Restart
<1>15. CASE LineLosesFrame
  <2>1. Link!LoseFrame
    BY <1>15 DEF LineLosesFrame, LoseFrame, Link!LoseFrame, resultVars
  <2> QED
    BY <2>1 DEF Link!Next
<1>16. CASE LineLosesSack
  <2>1. Link!LoseSack
    BY <1>16 DEF LineLosesSack, LoseSack, Link!LoseSack, resultVars
  <2> QED
    BY <2>1 DEF Link!Next
<1>17. CASE Tick \/ Returned
  BY <1>17 DEF Tick, Returned, rvars, resultVars, RequestAges
<1> QED
  BY <1>1, <1>2, <1>3, <1>4, <1>5, <1>6, <1>7, <1>8, <1>9, <1>10, <1>11, <1>12, <1>13,
     <1>14, <1>15, <1>16, <1>17 DEF ReceiveNext, HostStep, DeviceStep, LineStep

LEMMA LinkIInv ==
  /\ ReceiveInit => Link!IInv
  /\ StageInv /\ Link!IInv /\ [ReceiveNext]_rvars => Link!IInv'
<1>1. ReceiveInit => Link!IInv
  <2>1. ReceiveInit => Link!Init
    BY DEF ReceiveInit, Init, Link!Init, Seen, Link!EmptyWindow, EmptyWindow, Link!Slots,
      Slots, ControlInit
  <2> QED
    BY <2>1, Link!InitIInv, Sizes, Bounds, NoFrameFresh
<1>2. StageInv /\ Link!IInv /\ [ReceiveNext]_rvars => Link!IInv'
  <2>1. Link!IInv /\ [Link!Next]_(Link!vars) => Link!IInv'
    BY Link!NextIInv, Sizes, Bounds, NoFrameFresh
  <2>2. Link!Init => Link!IInv
    BY Link!InitIInv, Sizes, Bounds, NoFrameFresh
  <2>3. Link!Init' => Link!IInv'
    BY <2>2, PTL
  <2>4. UNCHANGED rvars => UNCHANGED Link!vars
    BY DEF rvars, Link!vars, Link!host, Link!device, vars, host, device, Seen, resultVars
  <2> QED
    BY <2>1, <2>3, <2>4, LinkStep
<1> QED
  BY <1>1, <1>2

(* What the link's invariant says of the variables themselves. *)
LEMMA LinkSays ==
  ASSUME StageInv, Link!IInv
  PROVE  /\ next \in Nat /\ base \in Nat
         /\ ~resetOnLine => TypeOK /\ InOrder /\ Len(delivered) <= next
         /\ pc = "drain" /\ recv_window[0] # NoFrame =>
              recv_window[0] = Len(delivered) /\ Len(delivered) < next
<1> USE DEF Link!IInv, Seen, StageInv, Link!Slots, Slots
<1>1. next \in Nat /\ base \in Nat
  BY DEF Link!TypeOK
<1>2. ASSUME ~resetOnLine PROVE TypeOK /\ InOrder /\ Len(delivered) <= next
  BY <1>2 DEF Link!TypeOK, TypeOK, Link!InOrder, InOrder, Link!SackType, SackType,
              Link!WindowInv, Link!E
<1>3. ASSUME pc = "drain", recv_window[0] # NoFrame
      PROVE  recv_window[0] = Len(delivered) /\ Len(delivered) < next
  <2>1. 0 \in Slots
    BY Sizes
  <2>2. Len(delivered) \in Nat
    BY <1>2, <1>3, LenProperties DEF TypeOK
  <2>3. recv_window[0] = Len(delivered) + 0 /\ Len(delivered) + 0 < next
    BY <1>3, <2>1 DEF Link!AlignedInv, Link!Listening, Link!E
  <2> QED
    BY <2>2, <2>3
<1> QED
  BY <1>1, <1>2, <1>3

LEMMA StageStep ==
  /\ ReceiveInit => StageInv
  /\ StageInv /\ [ReceiveNext]_rvars => StageInv'
<1>1. ReceiveInit => StageInv
  BY DEF ReceiveInit, Init, StageInv, ControlInit
<1>2. ASSUME StageInv, [ReceiveNext]_rvars PROVE StageInv'
  <2> USE DEF StageInv
  <2>1. CASE HostStep
    <3>1. CASE ChecksTime
      BY <1>2, <3>1 DEF ChecksTime, InCall, vars, host, deviceAux, callVars, resultVars
    <3>2. CASE TimesOut
      BY <1>2, <3>2 DEF TimesOut, GiveUp, InCall, vars, host, deviceAux, callVars, resultVars
    <3>3. CASE CallsReceive
      BY <1>2, <3>3 DEF CallsReceive, InCall, vars, host, deviceAux, callVars, resultVars
    <3>4. CASE ReturnsNothing
      BY <1>2, <3>4 DEF ReturnsNothing, InCall, vars, host, deviceAux, callVars,
        resultVars, RepeatsIfDue, NextTurn
    <3>5. CASE HandlesAck
      BY <1>2, <3>5 DEF HandlesAck, InCall, vars, host, deviceAux, callVars, resultVars,
        TakesAck, TakesNack, NextTurn
    <3>6. CASE HandlesReset
      BY <1>2, <3>6 DEF HandlesReset, InCall, vars, host, deviceAux, callVars, resultVars,
        TakesReset, NextTurn
    <3>7. CASE Nacks
      BY <1>2, <3>7 DEF Nacks, LoseFrame, InCall, vars, host, deviceAux, callVars,
        resultVars, NextTurn
    <3>8. CASE ReceivesData
      BY <1>2, <3>8 DEF ReceivesData, Receive, InCall, vars, host, deviceAux, callVars, resultVars
    <3>9. CASE Drains
      BY <1>2, <3>9 DEF Drains, Pop, InCall, vars, host, deviceAux, callVars, resultVars
    <3>10. CASE Overflows
      BY <1>2, <3>10 DEF Overflows, GiveUp, InCall, vars, host, deviceAux, callVars, resultVars
    <3>11. CASE SendsSack
      BY <1>2, <3>11 DEF SendsSack, SendSack, InCall, vars, host, deviceAux, callVars,
        resultVars, NextTurn
    <3>12. CASE ReturnsResponse
      BY <1>2, <3>12 DEF ReturnsResponse, Complete, InCall, vars, host, deviceAux, callVars, resultVars
    <3> QED
      BY <2>1, <3>1, <3>2, <3>3, <3>4, <3>5, <3>6, <3>7, <3>8, <3>9, <3>10, <3>11, <3>12 DEF HostStep
  <2>2. CASE DeviceStep
    <3>1. CASE DeviceGetsRequest
      BY <1>2, <3>1 DEF DeviceGetsRequest, InCall, vars, host, deviceAux, callVars,
        resultVars, RequestArrives
    <3>2. CASE DeviceSends
      BY <1>2, <3>2 DEF DeviceSends, DevSendNew, InCall, vars, host, deviceAux, callVars, resultVars
    <3>3. CASE DeviceResends
      BY <1>2, <3>3 DEF DeviceResends, DevRetransmit, InCall, vars, host, deviceAux, callVars, resultVars
    <3>4. CASE DeviceHandlesSack
      BY <1>2, <3>4 DEF DeviceHandlesSack, DevHandleSack, InCall, vars, host, deviceAux, callVars, resultVars
    <3>5. CASE DeviceRestarts
      BY <1>2, <3>5 DEF DeviceRestarts, InCall, vars, host, deviceAux, callVars,
        resultVars, Restart
    <3> QED
      BY <2>2, <3>1, <3>2, <3>3, <3>4, <3>5 DEF DeviceStep
  <2>3. CASE LineStep \/ Tick
    BY <1>2, <2>3 DEF LineStep, LineLosesFrame, LineLosesSack, LineLosesRequest,
      LineLosesAck, Tick, Waits, Preempted, LoseFrame, LoseSack, vars, host, deviceAux,
      requestVars, callVars, resultVars, LoseRequest, LoseAck, RequestAges, ControlIdle
  <2>4. CASE Returned \/ UNCHANGED rvars
    BY <1>2, <2>4 DEF Returned, rvars, vars, host, deviceAux, callVars, resultVars
  <2> QED
    BY <1>2, <2>1, <2>2, <2>3, <2>4 DEF ReceiveNext
<1> QED
  BY <1>1, <1>2

-----------------------------------------------------------------------------
(* Time. *)

(* As long as the host is not held up past its end, the time left is what  *)
(* it should be; when it is held up, it wraps, but only once.              *)
TimeInv ==
  /\ stage \in {"top", "checked", "call"}
  /\ elapsed \in Nat /\ remaining_ms \in 0 .. WORD - 1 /\ spent \in Nat
  /\ overran \in BOOLEAN
  /\ elapsed < TIMEOUT + MaxPreempt + WORD
  /\ stage = "checked" => spent <= MaxPreempt /\ elapsed < TIMEOUT + spent
  /\ stage = "call" => elapsed + remaining_ms < TIMEOUT + MaxPreempt + WORD
  /\ ~overran => /\ elapsed <= TIMEOUT
                 /\ stage = "call" => elapsed + remaining_ms = TIMEOUT

LEMMA TimeStep ==
  /\ ReceiveInit => TimeInv
  /\ TimeInv /\ [ReceiveNext]_rvars => TimeInv'
<1> USE ReceiveParameters DEF TimeInv
<1>1. ReceiveInit => TimeInv
  <2> SUFFICES ASSUME ReceiveInit PROVE TimeInv
    OBVIOUS
  <2>1. stage = "top" /\ elapsed = 0 /\ remaining_ms = 0 /\ spent = 0 /\ overran = FALSE
    BY DEF ReceiveInit
  <2>2. stage # "checked" /\ stage # "call" /\ overran \in BOOLEAN
    BY <2>1
  <2>3. /\ elapsed \in Nat /\ remaining_ms \in 0 .. WORD - 1 /\ spent \in Nat
        /\ elapsed <= TIMEOUT /\ elapsed < TIMEOUT + MaxPreempt + WORD
    BY <2>1
  <2> QED
    BY <2>1, <2>2, <2>3
<1> USE DEF NextTurn
<1>2. ASSUME TimeInv, [ReceiveNext]_rvars PROVE TimeInv'
  <2>1. CASE ChecksTime
    BY <1>2, <2>1 DEF ChecksTime
  <2>2. CASE CallsReceive
    <3>1. (TIMEOUT - elapsed) % WORD \in 0 .. WORD - 1
      BY <1>2
    <3>2. elapsed <= TIMEOUT => (TIMEOUT - elapsed) % WORD = TIMEOUT - elapsed
      BY <1>2
    <3>3. elapsed < TIMEOUT + MaxPreempt
      BY <1>2, <2>2 DEF CallsReceive
    <3> QED
      BY <1>2, <2>2, <3>1, <3>2, <3>3 DEF CallsReceive
  <2>3. CASE Tick
    <3>1. CASE Waits
      BY <1>2, <2>3, <3>1 DEF Tick, Waits
    <3>2. CASE Preempted
      <4>1. /\ stage = "checked" /\ stage' = stage /\ spent < MaxPreempt /\ spent' = spent + 1
            /\ elapsed' = elapsed + 1 /\ remaining_ms' = remaining_ms
        BY <2>3, <3>2 DEF Tick, Preempted
      <4>2. overran' \in BOOLEAN
        BY <1>2, <3>2 DEF Preempted
      <4>3. overran' \/ (~overran /\ (spent + 1 <= 1 \/ elapsed + 1 <= TIMEOUT))
        <5>1. overran' \/ (~overran /\ ~(spent + 1 > 1 /\ elapsed + 1 > TIMEOUT))
          BY <1>2, <3>2, <4>1 DEF Preempted
        <5>2. elapsed \in Nat /\ spent \in Nat
          BY <1>2
        <5> QED
          BY <5>1, <5>2
      <4>4. elapsed + 1 < TIMEOUT + MaxPreempt + WORD /\ elapsed + 1 < TIMEOUT + (spent + 1)
        BY <1>2, <4>1
      <4>5. overran' \/ elapsed' <= TIMEOUT
        BY <1>2, <4>1, <4>3, <4>4
      <4> QED
        BY <1>2, <4>1, <4>2, <4>4, <4>5
    <3> QED
      BY <1>2, <2>3, <3>1, <3>2 DEF Tick
  <2>4. CASE \/ ReturnsNothing \/ HandlesAck \/ HandlesReset \/ Nacks \/ SendsSack
    BY <1>2, <2>4 DEF ReturnsNothing, HandlesAck, HandlesReset, Nacks, SendsSack, NextTurn
  <2>5. CASE \/ TimesOut \/ ReceivesData \/ Drains \/ Overflows \/ ReturnsResponse
             \/ DeviceStep \/ LineStep \/ Returned \/ UNCHANGED rvars
    BY <1>2, <2>5 DEF TimesOut, ReceivesData, Drains, Overflows, ReturnsResponse, DeviceStep,
      DeviceGetsRequest, DeviceSends, DeviceResends, DeviceHandlesSack, DeviceRestarts,
      LineStep, LineLosesFrame, LineLosesSack, LineLosesRequest, LineLosesAck,
      Returned, rvars, callVars
  <2> QED
    BY <1>2, <2>1, <2>2, <2>3, <2>4, <2>5 DEF ReceiveNext, HostStep
<1> QED
  BY <1>1, <1>2

(* The wait window of off, firmware and timestamp: the call is over when   *)
(* its time is, unless the host was held up between its two reads of       *)
(* millis() until the time had passed, and then it waits no longer than    *)
(* the size of the word behind the delay: for every timeout, delay and     *)
(* word, and whatever arrives.                                             *)
THEOREM ReturnsInTime == ReceiveSpec => []ReturnsUnlessHeldUp
<1>1. TimeInv => ReturnsUnlessHeldUp
  BY ReceiveParameters DEF TimeInv, ReturnsUnlessHeldUp
<1> QED
  BY <1>1, TimeStep, PTL DEF ReceiveSpec

-----------------------------------------------------------------------------
(* The answer. *)

Scripted == 0 .. Len(script) - 1

LEMMA ScriptFrames ==
  ASSUME script \in Scripts
  PROVE  /\ Len(script) \in Nat
         /\ \A p \in Scripted : Frame(p).last \in BOOLEAN
         /\ Scripted \subseteq Sized
<1>1. script \in Seq(ResponseFrame)
  BY ReceiveScripts
<1>2. Len(script) \in Nat
  BY <1>1, LenProperties
<1>3. ASSUME NEW p \in Scripted PROVE Frame(p) \in ResponseFrame /\ p \in Nat
  <2>1. p + 1 \in 1 .. Len(script) /\ p \in Nat
    BY <1>2 DEF Scripted
  <2> QED
    BY <1>1, <2>1, ElementOfSeq DEF Frame
<1> QED
  BY <1>2, <1>3 DEF ResponseFrame, Sized

(* The answer ends with the first LAST frame. *)
LEMMA AnswerEnds ==
  ASSUME script \in Scripts
  PROVE  /\ AnswerLen \in 1 .. Len(script)
         /\ Frame(AnswerLen - 1).last
         /\ \A p \in 0 .. AnswerLen - 2 : ~Frame(p).last
<1>1. script \in Seq(ResponseFrame) /\ \E i \in DOMAIN script : script[i].last
  BY ReceiveScripts
<1>2. Len(script) \in Nat /\ DOMAIN script = 1 .. Len(script)
  BY <1>1, LenProperties
<1> DEFINE T == {n \in 1 .. Len(script) : script[n].last}
<1>3. T \subseteq Nat /\ T # {}
  BY <1>1, <1>2
<1>4. PICK n \in T : \A k \in T : n <= k
  <2> HIDE DEF T
  <2> QED
    BY <1>3, LeastNatural
<1>5. \A i \in 1 .. n - 1 : i \in 1 .. Len(script) /\ ~(n <= i)
  BY <1>2
<1>6. n \in DOMAIN script /\ script[n].last /\ \A i \in 1 .. n - 1 : ~script[i].last
  BY <1>2, <1>4, <1>5
<1>7. /\ AnswerLen \in DOMAIN script /\ script[AnswerLen].last
      /\ \A i \in 1 .. AnswerLen - 1 : ~script[i].last
  BY <1>6 DEF AnswerLen
<1>8. \A p \in 0 .. AnswerLen - 2 : p + 1 \in 1 .. AnswerLen - 1
  BY <1>2, <1>7
<1>9. (AnswerLen - 1) + 1 = AnswerLen
  BY <1>2, <1>7
<1> QED
  BY <1>2, <1>7, <1>8, <1>9 DEF Frame

LEMMA AnswerShape ==
  ASSUME script \in Scripts
  PROVE  /\ Answer \in Seq(Scripted) /\ Len(Answer) = AnswerLen
         /\ \A i \in 1 .. AnswerLen : Answer[i] = i - 1
<1>1. Len(script) \in Nat /\ AnswerLen \in 1 .. Len(script)
  BY ScriptFrames, AnswerEnds
<1>2. \A i \in 1 .. AnswerLen : i - 1 \in Scripted
  BY <1>1 DEF Scripted
<1>3. Answer \in [1 .. AnswerLen -> Scripted]
  BY <1>2 DEF Answer
<1> QED
  BY <1>1, <1>3 DEF Answer

LEMMA FirstLast ==
  ASSUME script \in Scripts, NEW k \in Scripted, Frame(k).last,
         \A p \in 0 .. k - 1 : ~Frame(p).last
  PROVE  AnswerLen = k + 1
<1>1. /\ AnswerLen \in 1 .. Len(script) /\ Len(script) \in Nat
      /\ Frame(AnswerLen - 1).last
      /\ \A p \in 0 .. AnswerLen - 2 : ~Frame(p).last
  BY AnswerEnds, ScriptFrames
<1>2. AnswerLen \in Int /\ k \in Int /\ k >= 0 /\ AnswerLen >= 1
  BY <1>1 DEF Scripted
<1>3. ~(k <= AnswerLen - 2)
  BY <1>1, <1>2
<1>4. ~(AnswerLen - 1 <= k - 1)
  BY <1>1, <1>2
<1> QED
  BY <1>2, <1>3, <1>4

LEMMA SuffixMeans ==
  ASSUME NEW S, NEW s \in Seq(S), NEW t \in Seq(S)
  PROVE  IsSuffix(s, t) <=>
           /\ Len(s) <= Len(t)
           /\ \A i \in 1 .. Len(s) : t[Len(t) - Len(s) + i] = s[i]
<1> DEFINE rs == Reverse(s)
           rt == Reverse(t)
           n == Len(s)
<1>1. Len(s) \in Nat /\ Len(t) \in Nat
  BY LenProperties
<1>2. /\ Len(rs) = n /\ \A i \in 1 .. n : rs[i] = s[n - i + 1]
      /\ Len(rt) = Len(t) /\ \A i \in 1 .. Len(t) : rt[i] = t[Len(t) - i + 1]
  BY <1>1 DEF Reverse
<1>3. /\ \A i \in 1 .. n : n - i + 1 \in 1 .. n /\ n - (n - i + 1) + 1 = i
      /\ \A i \in 1 .. n : Len(t) - n + (n - i + 1) = Len(t) - i + 1
      /\ \A i \in 1 .. n : Len(t) - (n - i + 1) + 1 = Len(t) - n + i
  BY <1>1
<1>4. ASSUME n <= Len(t)
      PROVE  (SubSeq(rs, 1, n) = SubSeq(rt, 1, n)) <=> \A i \in 1 .. n : rs[i] = rt[i]
  <2> HIDE DEF rs, rt
  <2>1. \A i \in 1 .. n : rs[i] \in S /\ rt[i] \in S
    <3>1. \A i \in 1 .. n : n - i + 1 \in 1 .. Len(s) /\ i \in 1 .. Len(t)
                            /\ Len(t) - i + 1 \in 1 .. Len(t)
      BY <1>1, <1>4
    <3> QED
      BY <1>2, <3>1, ElementOfSeq
  <2>2. /\ SubSeq(rs, 1, n) = [i \in 1 .. n |-> rs[i]]
        /\ SubSeq(rt, 1, n) = [i \in 1 .. n |-> rt[i]]
    BY <1>1, <2>1
  <2> QED
    BY <2>2
<1>5. ASSUME n <= Len(t)
      PROVE  (\A i \in 1 .. n : rs[i] = rt[i]) <=> \A i \in 1 .. n : t[Len(t) - n + i] = s[i]
  <2> HIDE DEF rs, rt
  <2>1. \A i \in 1 .. n : i \in 1 .. Len(t)
    BY <1>1, <1>5
  <2>2. ASSUME \A i \in 1 .. n : rs[i] = rt[i], NEW i \in 1 .. n
        PROVE  t[Len(t) - n + i] = s[i]
    <3>1. rs[n - i + 1] = rt[n - i + 1]
      BY <1>3, <2>2
    <3> QED
      BY <1>2, <1>3, <2>1, <3>1
  <2>3. ASSUME \A i \in 1 .. n : t[Len(t) - n + i] = s[i], NEW i \in 1 .. n
        PROVE  rs[i] = rt[i]
    <3>1. t[Len(t) - n + (n - i + 1)] = s[n - i + 1]
      BY <1>3, <2>3
    <3> QED
      BY <1>2, <1>3, <2>1, <3>1
  <2> QED
    BY <2>2, <2>3
<1>6. IsSuffix(s, t) <=> n <= Len(t) /\ SubSeq(rs, 1, n) = SubSeq(rt, 1, n)
  <2>1. IsSuffix(s, t) <=> Len(rs) <= Len(rt) /\ SubSeq(rs, 1, Len(rs)) = SubSeq(rt, 1, Len(rs))
    BY DEF IsSuffix, IsPrefix
  <2> HIDE DEF rs, rt
  <2> QED
    BY <1>2, <2>1
<1> QED
  BY <1>4, <1>5, <1>6

-----------------------------------------------------------------------------
(* Types. *)

(* The flags, and what never changes or only grows. *)
FlagInv ==
  /\ script \in Scripts
  /\ request \in {"line", "nacked", "lost", "device"}
  /\ ackOnLine \in BOOLEAN /\ pending \in BOOLEAN /\ sequence_done \in BOOLEAN
  /\ overran \in BOOLEAN
  /\ stage \in {"top", "checked", "call"}
  /\ pc = "done" => sequence_done

ClockInv ==
  /\ age \in [Positions -> 0 .. RTO] /\ requestAge \in 0 .. RTO
  /\ elapsed \in Nat /\ remaining_ms \in 0 .. WORD - 1 /\ spent \in Nat

(* A receiver that has yet to see a RESET was restarted. *)
ResetInv ==
  /\ resets \in 0 .. MaxResets
  /\ resets = 0 => resetOnLine = FALSE

SentInv == next <= Len(script) /\ next <= NumFrames

(* What is drained is the next frame of the response. *)
LEMMA DrainsNext ==
  ASSUME StageInv, script \in Scripts, SentInv, Link!IInv, pc = "drain",
         recv_window[0] # NoFrame
  PROVE  /\ recv_window[0] = Len(delivered) /\ Len(delivered) \in Scripted
         /\ Len(delivered) \in Positions /\ InOrder /\ delivered \in Seq(Nat)
<1>1. /\ next \in Nat /\ recv_window[0] = Len(delivered) /\ Len(delivered) < next
      /\ TypeOK /\ InOrder
  BY LinkSays DEF StageInv
<1>2. Len(delivered) \in Nat /\ delivered \in Seq(Nat)
  BY <1>1, LenProperties DEF TypeOK
<1>3. Len(script) \in Nat
  BY ScriptFrames
<1> QED
  BY <1>1, <1>2, <1>3, Bounds DEF SentInv, Scripted, Positions

LEMMA FlagStep ==
  /\ ReceiveInit => FlagInv
  /\ StageInv /\ FlagInv /\ SentInv /\ Link!IInv /\ [ReceiveNext]_rvars => FlagInv'
<1>1. ReceiveInit => FlagInv
  BY DEF ReceiveInit, Init, FlagInv, ControlInit
<1> SUFFICES ASSUME StageInv, FlagInv, SentInv, Link!IInv, [ReceiveNext]_rvars
             PROVE  FlagInv'
  BY <1>1
<1> USE DEF FlagInv, StageInv, vars, host, deviceAux, requestVars, callVars, resultVars
<1>2. CASE ChecksTime \/ CallsReceive
  BY <1>2 DEF ChecksTime, CallsReceive
<1>3. CASE TimesOut
  BY <1>3 DEF TimesOut, GiveUp
<1>4. CASE ReturnsNothing
  BY <1>4 DEF ReturnsNothing, RepeatsIfDue, NextTurn
<1>5. CASE HandlesAck
  BY <1>5 DEF HandlesAck, TakesAck, TakesNack, NextTurn
<1>6. CASE HandlesReset
  BY <1>6 DEF HandlesReset, TakesReset, NextTurn
<1>7. CASE Nacks
  BY <1>7 DEF Nacks, LoseFrame, NextTurn
<1>8. CASE ReceivesData
  BY <1>8 DEF ReceivesData, Receive
<1>9. CASE Drains
  <2>1. Len(delivered) \in Scripted /\ recv_window[0] = Len(delivered)
    BY <1>9, DrainsNext DEF Drains, Pop, Ready
  <2>2. Frame(recv_window[0]).last \in BOOLEAN
    BY <2>1, ScriptFrames
  <2> QED
    BY <1>9, <2>2 DEF Drains, Pop
<1>10. CASE Overflows
  BY <1>10 DEF Overflows, GiveUp
<1>11. CASE SendsSack
  BY <1>11 DEF SendsSack, SendSack, NextTurn
<1>12. CASE ReturnsResponse
  BY <1>12 DEF ReturnsResponse, Complete
<1>13. CASE DeviceGetsRequest
  BY <1>13 DEF DeviceGetsRequest, RequestArrives
<1>14. CASE DeviceSends
  BY <1>14 DEF DeviceSends, DevSendNew
<1>15. CASE DeviceResends
  BY <1>15 DEF DeviceResends, DevRetransmit
<1>16. CASE DeviceHandlesSack
  BY <1>16 DEF DeviceHandlesSack, DevHandleSack
<1>17. CASE DeviceRestarts
  BY <1>17 DEF DeviceRestarts, Restart
<1>18. CASE LineLosesFrame \/ LineLosesSack
  BY <1>18 DEF LineLosesFrame, LoseFrame, LineLosesSack, LoseSack
<1>19. CASE LineLosesRequest \/ LineLosesAck
  BY <1>19 DEF LineLosesRequest, LineLosesAck, LoseRequest, LoseAck
<1>20. CASE Tick
  BY <1>20 DEF Tick, Waits, Preempted, RequestAges, ControlIdle
<1>21. CASE Returned \/ UNCHANGED rvars
  BY <1>21 DEF Returned, rvars
<1> QED
  BY <1>2, <1>3, <1>4, <1>5, <1>6, <1>7, <1>8, <1>9, <1>10, <1>11, <1>12, <1>13, <1>14, <1>15, <1>16, <1>17, <1>18, <1>19, <1>20, <1>21 DEF ReceiveNext, HostStep, DeviceStep, LineStep

LEMMA ClockStep ==
  /\ ReceiveInit => ClockInv
  /\ ClockInv /\ [ReceiveNext]_rvars => ClockInv'
<1>1. ReceiveInit => ClockInv
  BY ReceiveParameters, ControlParameters DEF ReceiveInit, ClockInv, ControlInit
<1> SUFFICES ASSUME ClockInv, [ReceiveNext]_rvars PROVE ClockInv'
  BY <1>1
<1> USE ReceiveParameters, ControlParameters DEF ClockInv
<1>2. CASE Tick
  <2>1. requestAge' \in 0 .. RTO /\ elapsed' \in Nat
    BY <1>2 DEF Tick, RequestAges
  <2>2. age' \in [Positions -> 0 .. RTO]
    BY <1>2 DEF Tick, RequestAges
  <2>3. CASE Waits
    BY <1>2, <2>1, <2>2, <2>3 DEF Tick, Waits, RequestAges, ControlIdle
  <2>4. CASE Preempted
    BY <1>2, <2>1, <2>2, <2>4 DEF Tick, Preempted, RequestAges
  <2> QED
    BY <1>2, <2>3, <2>4 DEF Tick, RequestAges
<1>3. CASE CallsReceive
  <2>1. (TIMEOUT - elapsed) % WORD \in 0 .. WORD - 1
    OBVIOUS
  <2> QED
    BY <1>3, <2>1 DEF CallsReceive, deviceAux, requestVars
<1>4. CASE Nacks
  BY <1>4 DEF Nacks, requestVars, NextTurn
<1>5. CASE DeviceSends \/ DeviceResends
  BY <1>5 DEF DeviceSends, DeviceResends, requestVars, callVars
<1>6. CASE ReturnsNothing
  BY <1>6 DEF ReturnsNothing, deviceAux, RepeatsIfDue, requestVars, NextTurn
<1>7. CASE ChecksTime \/ HandlesAck \/ HandlesReset \/ SendsSack
  BY <1>7 DEF ChecksTime, HandlesAck, HandlesReset, SendsSack, deviceAux, requestVars,
    TakesAck, TakesNack, NextTurn, TakesReset
<1>8. CASE \/ TimesOut \/ ReceivesData \/ Drains \/ Overflows \/ ReturnsResponse
           \/ DeviceGetsRequest \/ DeviceHandlesSack \/ DeviceRestarts \/ LineStep
           \/ Returned \/ UNCHANGED rvars
  BY <1>8 DEF TimesOut, ReceivesData, Drains, Overflows, ReturnsResponse,
    DeviceGetsRequest, DeviceHandlesSack, DeviceRestarts, LineStep, LineLosesFrame,
    LineLosesSack, LineLosesRequest, LineLosesAck, Returned, rvars, deviceAux, requestVars,
    callVars, RequestArrives, Restart, LoseRequest, LoseAck
<1> QED
  BY <1>2, <1>3, <1>4, <1>5, <1>6, <1>7, <1>8 DEF ReceiveNext, HostStep, DeviceStep

LEMMA ResetStep ==
  /\ ReceiveInit => ResetInv
  /\ ResetInv /\ [ReceiveNext]_rvars => ResetInv'
<1>1. ReceiveInit => ResetInv
  BY ControlParameters DEF ReceiveInit, ResetInv, ControlInit
<1> SUFFICES ASSUME ResetInv, [ReceiveNext]_rvars PROVE ResetInv'
  BY <1>1
<1> USE ControlParameters DEF ResetInv
<1>2. CASE DeviceRestarts
  BY <1>2 DEF DeviceRestarts, Restart
<1>3. CASE HandlesReset
  BY <1>3 DEF HandlesReset, deviceAux, TakesReset, NextTurn
<1>4. ASSUME UNCHANGED <<resets, resetOnLine>> PROVE ResetInv'
  BY <1>4
<1>5. ASSUME [ReceiveNext]_rvars, ~DeviceRestarts, ~HandlesReset
      PROVE  UNCHANGED <<resets, resetOnLine>>
  BY <1>5 DEF ReceiveNext, HostStep, ChecksTime, TimesOut, CallsReceive, ReturnsNothing,
    HandlesAck, Nacks, ReceivesData, Drains, Overflows, SendsSack, ReturnsResponse,
    DeviceStep, DeviceGetsRequest, DeviceSends, DeviceResends, DeviceHandlesSack, LineStep,
    LineLosesFrame, LineLosesSack, LineLosesRequest, LineLosesAck, Tick, Returned, rvars,
    deviceAux, RepeatsIfDue, NextTurn, TakesAck, TakesNack, RequestArrives, LoseRequest,
    LoseAck, RequestAges
<1> QED
  BY <1>2, <1>3, <1>4, <1>5

LEMMA SentStep ==
  /\ ReceiveInit /\ FlagInv => SentInv
  /\ FlagInv /\ SentInv /\ Link!IInv /\ StageInv /\ [ReceiveNext]_rvars => SentInv'
<1>1. ASSUME ReceiveInit, FlagInv PROVE SentInv
  BY <1>1, ScriptFrames, Bounds DEF ReceiveInit, Init, FlagInv, SentInv, ControlInit
<1> SUFFICES ASSUME FlagInv, SentInv, Link!IInv, StageInv, [ReceiveNext]_rvars PROVE SentInv'
  BY <1>1
<1>2. next \in Nat /\ Len(script) \in Nat
  BY LinkSays, ScriptFrames DEF FlagInv
<1>3. CASE DeviceSends
  BY <1>2, <1>3, Bounds DEF DeviceSends, DevSendNew, SentInv
<1>4. CASE DeviceRestarts
  BY <1>2, <1>4, Bounds DEF DeviceRestarts, deviceAux, SentInv, Restart
<1>5. ASSUME UNCHANGED <<next, script>> PROVE SentInv'
  BY <1>5 DEF SentInv
<1>6. ASSUME [ReceiveNext]_rvars, ~DeviceSends, ~DeviceRestarts
      PROVE  UNCHANGED <<next, script>>
  BY <1>6 DEF ReceiveNext, HostStep, ChecksTime, TimesOut, CallsReceive, ReturnsNothing,
    HandlesAck, HandlesReset, Nacks, ReceivesData, Drains, Overflows, SendsSack,
    ReturnsResponse, DeviceStep, DeviceGetsRequest, DeviceResends, DeviceHandlesSack,
    LineStep, LineLosesFrame, LineLosesSack, LineLosesRequest, LineLosesAck, Tick,
    Returned, rvars, deviceAux, vars, device, GiveUp, LoseFrame, LoseSack, Receive, Pop,
    SendSack, Complete, DevRetransmit, DevHandleSack, RepeatsIfDue, NextTurn, TakesAck,
    TakesNack, TakesReset, RequestArrives, LoseRequest, LoseAck, RequestAges
<1> QED
  BY <1>3, <1>4, <1>5, <1>6

LEMMA LinkTypes ==
  StageInv /\ Link!IInv =>
    /\ base \in Nat /\ next \in Nat /\ sacked \subseteq Nat
    /\ toHost \in Seq(Nat) /\ toDev \in Seq(SackType)
    /\ pc \in {"wait", "drain", "done", "failed"}
    /\ ~resetOnLine => TypeOK
BY LinkSays DEF Link!IInv, Link!TypeOK, Link!SackType, SackType, Link!Slots, Slots, StageInv

(* While a RESET is on the line, what the receiver holds is typed. *)
LEMMA TypeStep ==
  /\ ReceiveInit => TypeOK
  /\ StageInv /\ TypeOK /\ Link!IInv /\ StageInv' /\ Link!IInv' /\ [ReceiveNext]_rvars => TypeOK'
<1>1. ReceiveInit => TypeOK
  <2>1. 0 \in 0 .. MAX_FRAME_INDEX - 1
    BY Sizes
  <2> QED
    BY <2>1 DEF ReceiveInit, Init, TypeOK, EmptyWindow, ControlInit
<1> SUFFICES ASSUME StageInv, TypeOK, Link!IInv, StageInv', Link!IInv', [ReceiveNext]_rvars
             PROVE  TypeOK'
  BY <1>1
<1>2. /\ base' \in Nat /\ next' \in Nat /\ sacked' \subseteq Nat
      /\ toHost' \in Seq(Nat) /\ toDev' \in Seq(SackType)
      /\ pc' \in {"wait", "drain", "done", "failed"}
      /\ ~resetOnLine' => TypeOK'
  <2>1. (StageInv /\ Link!IInv =>
          /\ base \in Nat /\ next \in Nat /\ sacked \subseteq Nat
          /\ toHost \in Seq(Nat) /\ toDev \in Seq(SackType)
          /\ pc \in {"wait", "drain", "done", "failed"}
          /\ ~resetOnLine => TypeOK)'
    BY LinkTypes, PTL
  <2> QED
    BY <2>1
<1> DEFINE Receiver == <<recv_window, expected_frame_index, delivered>>
<1>3. ASSUME resetOnLine' PROVE GiveUp \/ UNCHANGED Receiver
  <2> USE <1>3 DEF StageInv, vars, host, device, deviceAux, requestVars, callVars, resultVars
  <2>1. CASE HostStep
    BY <2>1 DEF HostStep, ChecksTime, TimesOut, CallsReceive, ReturnsNothing, HandlesAck,
      HandlesReset, Nacks, ReceivesData, Drains, Overflows, SendsSack, ReturnsResponse,
      LoseFrame, Pop, SendSack, Complete, RepeatsIfDue, NextTurn, TakesAck, TakesNack,
      TakesReset
  <2>2. CASE DeviceStep
    BY <2>2 DEF DeviceStep, DeviceGetsRequest, DeviceSends, DeviceResends,
      DeviceHandlesSack, DeviceRestarts, DevSendNew, DevRetransmit, DevHandleSack,
      RequestArrives, Restart
  <2>3. CASE LineStep \/ Tick \/ Returned \/ UNCHANGED rvars
    BY <2>3 DEF LineStep, LineLosesFrame, LineLosesSack, LineLosesRequest, LineLosesAck,
      Tick, Returned, rvars, LoseFrame, LoseSack, LoseRequest, LoseAck, RequestAges
  <2> QED
    BY <2>1, <2>2, <2>3 DEF ReceiveNext
<1>4. CASE UNCHANGED Receiver
  BY <1>2, <1>4 DEF TypeOK
<1>5. CASE GiveUp
  <2>1. 0 \in 0 .. MAX_FRAME_INDEX - 1
    BY Sizes
  <2>2. EmptyWindow \in [Slots -> Nat \cup {NoFrame}]
    BY DEF EmptyWindow
  <2> QED
    BY <1>2, <1>5, <2>1, <2>2 DEF TypeOK, GiveUp
<1> QED
  BY <1>2, <1>3, <1>4, <1>5

-----------------------------------------------------------------------------
(* The request. *)

(* Until the device has the request nothing else is under way, and at the  *)
(* loop condition its last copy is younger than the timeout: whatever turn *)
(* came before without a frame repeated it if it was due.                  *)
RequestInv ==
  /\ cause = "timeout" => stage = "top" /\ pc = "failed"
  /\ request # "device" =>
       /\ pending /\ ~ackOnLine /\ ~resetOnLine
       /\ next = 0 /\ toHost = << >> /\ pc # "drain"
       /\ stage = "top" => requestAge < RTO

LEMMA RequestStep ==
  /\ ReceiveInit => RequestInv
  /\ StageInv /\ ClockInv /\ Link!IInv /\ RequestInv /\ [ReceiveNext]_rvars => RequestInv'
<1>1. ReceiveInit => RequestInv
  BY ControlParameters DEF ReceiveInit, ControlInit, Init, RequestInv
<1> SUFFICES ASSUME StageInv, ClockInv, Link!IInv, RequestInv, [ReceiveNext]_rvars
             PROVE  RequestInv'
  BY <1>1
<1>2. base \in Nat /\ next \in Nat /\ requestAge \in 0 .. RTO
  BY LinkSays DEF ClockInv
<1> USE ControlParameters DEF StageInv, RequestInv, vars, host, device, deviceAux,
        requestVars, callVars, resultVars, NextTurn
<1>3. CASE ChecksTime \/ CallsReceive \/ TimesOut
  BY <1>3 DEF ChecksTime, CallsReceive, TimesOut, GiveUp, InCall
<1>4. CASE ReturnsNothing
  BY <1>2, <1>4 DEF ReturnsNothing, InCall, RepeatsIfDue
<1>5. CASE HandlesAck \/ HandlesReset
  BY <1>5 DEF HandlesAck, TakesAck, TakesNack, HandlesReset, TakesReset, InCall
<1>6. CASE Nacks \/ ReceivesData
  BY <1>6 DEF Nacks, ReceivesData, LoseFrame, Receive, InCall
<1>7. CASE Drains \/ Overflows \/ SendsSack \/ ReturnsResponse
  BY <1>7 DEF Drains, Pop, Overflows, GiveUp, SendsSack, SendSack, ReturnsResponse, Complete
<1>8. CASE DeviceGetsRequest \/ DeviceSends
  BY <1>8 DEF DeviceGetsRequest, RequestArrives, DeviceSends, DevSendNew
<1>9. CASE DeviceResends
  <2>1. next # 0
    BY <1>2, <1>9 DEF DeviceResends, Outstanding
  <2> QED
    BY <1>9, <2>1 DEF DeviceResends, DevRetransmit
<1>10. CASE DeviceHandlesSack \/ DeviceRestarts
  BY <1>10 DEF DeviceHandlesSack, DevHandleSack, DeviceRestarts, Restart
<1>11. CASE LineLosesFrame \/ LineLosesSack
  BY <1>11 DEF LineLosesFrame, LineLosesSack, LoseFrame, LoseSack
<1>12. CASE LineLosesRequest \/ LineLosesAck
  BY <1>12 DEF LineLosesRequest, LineLosesAck, LoseRequest, LoseAck
<1>13. CASE Tick
  BY <1>13 DEF Tick, Waits, Preempted, RequestAges
<1>14. CASE Returned \/ UNCHANGED rvars
  BY <1>14 DEF Returned, rvars
<1> QED
  BY <1>3, <1>4, <1>5, <1>6, <1>7, <1>8, <1>9, <1>10, <1>11, <1>12, <1>13, <1>14
     DEF ReceiveNext, HostStep, DeviceStep, LineStep

-----------------------------------------------------------------------------
(* What was delivered is confirmed. *)

Confirmed ==
  \/ base = Len(delivered)
  \/ toDev # << >> /\ toDev[Len(toDev)].at = Len(delivered)

ConfirmInv ==
  /\ sackLost \in BOOLEAN
  /\ ~sackLost /\ ~resetOnLine /\ pc \in {"wait", "done"} => Confirmed

(* The device takes a SACK: it knows what the last of them says, or that   *)
(* one is still to come.                                                   *)
LEMMA SackTaken ==
  ASSUME StageInv, Link!IInv, ~resetOnLine, Confirmed, DeviceHandlesSack
  PROVE  Confirmed'
<1>1. Link!DevHandleSack
  BY DEF DeviceHandlesSack, DevHandleSack, Link!DevHandleSack, resultVars, Idx, Link!Idx,
    Ahead, Link!Ahead, Seen, host, Link!host, device, Link!device
<1>2. /\ base' = toDev[1].at /\ base' \in base .. Len(delivered)
  BY <1>1, Link!SackMovesBase, Sizes, Bounds, NoFrameFresh DEF Link!E, Seen
<1>3. /\ toDev \in Seq(SackType) /\ toDev # << >> /\ toDev' = Tail(toDev)
      /\ delivered' = delivered
  BY LinkTypes DEF DeviceHandlesSack, DevHandleSack, host
<1>4. /\ Len(toDev) \in Nat \ {0} /\ Tail(toDev) \in Seq(SackType)
      /\ Len(Tail(toDev)) = Len(toDev) - 1
      /\ \A i \in 1 .. Len(Tail(toDev)) : Tail(toDev)[i] = toDev[i + 1]
  BY <1>3, HeadTailProperties, EmptySeq, LenProperties
<1>5. base \in Nat /\ Len(delivered) \in Nat
  BY LinkTypes, LenProperties DEF TypeOK
<1>6. CASE base = Len(delivered)
  BY <1>2, <1>3, <1>5, <1>6 DEF Confirmed
<1>7. CASE toDev[Len(toDev)].at = Len(delivered) /\ Len(toDev) = 1
  BY <1>2, <1>3, <1>7 DEF Confirmed
<1>8. CASE toDev[Len(toDev)].at = Len(delivered) /\ Len(toDev) # 1
  <2>1. Len(Tail(toDev)) \in 1 .. Len(Tail(toDev)) /\ Len(Tail(toDev)) + 1 = Len(toDev)
    BY <1>4, <1>8
  <2>2. Tail(toDev)[Len(Tail(toDev))] = toDev[Len(Tail(toDev)) + 1]
    BY <1>4, <2>1
  <2>3. Tail(toDev)[Len(Tail(toDev))].at = Len(delivered)
    BY <1>8, <2>1, <2>2
  <2>4. Tail(toDev) # << >>
    <3>1. \A s : s = << >> => Len(s) = 0
      BY EmptySeq
    <3> QED  BY <2>1, <3>1
  <2> QED  BY <1>3, <2>3, <2>4 DEF Confirmed
<1> QED  BY <1>6, <1>7, <1>8 DEF Confirmed

LEMMA ConfirmStep ==
  /\ ReceiveInit => ConfirmInv
  /\ ConfirmInv /\ StageInv /\ Link!IInv /\ FlagInv /\ [ReceiveNext]_rvars => ConfirmInv'
<1>1. ReceiveInit => ConfirmInv
  BY DEF ReceiveInit, Init, ConfirmInv, Confirmed, ControlInit
<1> SUFFICES ASSUME ConfirmInv, StageInv, Link!IInv, FlagInv, [ReceiveNext]_rvars
             PROVE  ConfirmInv'
  BY <1>1
<1>0. sackLost \in BOOLEAN /\ (~sackLost /\ ~resetOnLine /\ pc \in {"wait", "done"} => Confirmed)
  BY DEF ConfirmInv
<1>2. ASSUME DeviceHandlesSack PROVE ConfirmInv'
  <2>1. UNCHANGED <<sackLost, resetOnLine, pc>>
    BY <1>2 DEF DeviceHandlesSack, DevHandleSack, host, losses
  <2>2. ASSUME ~sackLost, ~resetOnLine, pc \in {"wait", "done"} PROVE Confirmed'
    BY <1>0, <1>2, <2>2, SackTaken
  <2> QED  BY <1>0, <2>1, <2>2 DEF ConfirmInv
<1>3. ASSUME HandlesReset PROVE ConfirmInv'
  <2>1. base \in Nat /\ base <= Link!E
    BY LinkTypes DEF Link!IInv, Link!WindowInv
  <2>2. base = 0
    BY <1>3, <2>1 DEF HandlesReset, Link!E, Seen, TakesReset, NextTurn
  <2>3. sackLost' = sackLost /\ base' = base /\ delivered' = << >>
    BY <1>3 DEF HandlesReset, device, losses, TakesReset, NextTurn
  <2> QED  BY <1>0, <2>2, <2>3 DEF ConfirmInv, Confirmed
<1>4. ASSUME SendsSack PROVE ConfirmInv'
  <2>1. toDev \in Seq(SackType) /\ ~resetOnLine /\ TypeOK
    BY <1>4, LinkTypes DEF SendsSack, SendSack, StageInv, NextTurn
  <2>2. Sack \in SackType /\ Sack.at = Len(delivered)
    BY <2>1, LenProperties DEF Sack, SackType, TypeOK
  <2>3. toDev' = Append(toDev, Sack) /\ delivered' = delivered /\ sackLost' = sackLost
    BY <1>4 DEF SendsSack, SendSack, losses, NextTurn
  <2>4. toDev' # << >> /\ toDev'[Len(toDev')] = Sack
    BY <2>1, <2>2, <2>3, AppendProperties, LenProperties, EmptySeq
  <2> QED  BY <1>0, <2>2, <2>3, <2>4 DEF ConfirmInv, Confirmed
<1>5. ASSUME LineLosesSack PROVE ConfirmInv'
  BY <1>5 DEF LineLosesSack, ConfirmInv
<1>6. ASSUME DeviceRestarts PROVE ConfirmInv'
  BY <1>0, <1>6 DEF DeviceRestarts, losses, ConfirmInv, Restart
<1>7. ASSUME ~DeviceHandlesSack, ~HandlesReset, ~SendsSack, ~LineLosesSack, ~DeviceRestarts
      PROVE  /\ sackLost' = sackLost
             /\ \/ pc' \notin {"wait", "done"}
                \/ UNCHANGED <<base, toDev, delivered, resetOnLine>> /\ (pc' = pc \/ pc = "wait")
  <2> USE <1>7 DEF StageInv, vars, host, device, losses, Listens
  <2>1. CASE HostStep
    BY <2>1 DEF HostStep, ChecksTime, TimesOut, CallsReceive, ReturnsNothing, HandlesAck,
      Nacks, ReceivesData, Drains, Overflows, ReturnsResponse, LoseFrame, Pop, Receive,
      GiveUp, Complete, RepeatsIfDue, NextTurn, TakesAck, TakesNack
  <2>2. CASE DeviceStep
    BY <2>2 DEF DeviceStep, DeviceGetsRequest, DeviceSends, DeviceResends, DevSendNew,
      DevRetransmit, RequestArrives
  <2>3. CASE LineStep \/ Tick \/ Returned \/ UNCHANGED rvars
    BY <2>3 DEF LineStep, LineLosesFrame, LineLosesRequest, LineLosesAck, Tick, Returned,
      rvars, LoseFrame, LoseRequest, LoseAck, RequestAges
  <2> QED
    BY <2>1, <2>2, <2>3 DEF ReceiveNext
<1>8. ASSUME sackLost' = sackLost,
             \/ pc' \notin {"wait", "done"}
             \/ UNCHANGED <<base, toDev, delivered, resetOnLine>> /\ (pc' = pc \/ pc = "wait")
      PROVE  ConfirmInv'
  BY <1>0, <1>8 DEF ConfirmInv, Confirmed
<1> QED
  BY <1>2, <1>3, <1>4, <1>5, <1>6, <1>7, <1>8

-----------------------------------------------------------------------------
(* The answer in the buffer. *)

(* The end of s is the frames 0 .. n - 1. *)
EndsWith(s, n) ==
  /\ n <= Len(s)
  /\ \A i \in 1 .. n : s[Len(s) - n + i] = i - 1

(* Until the LAST frame, the buffer ends with the frames drained since the *)
(* last RESET, none of them LAST; from then on, with the answer.           *)
AnswerInv ==
  pc # "failed" =>
    /\ Bytes(out) <= CAPACITY
    /\ sequence_done => IsSuffix(Answer, out) /\ (resets = 0 => out = Answer)
    /\ ~sequence_done =>
         /\ out # << >> => ~Frame(out[Len(out)]).last
         /\ resets = 0 => Len(out) = Len(delivered)
         /\ ~resetOnLine => /\ EndsWith(out, Len(delivered))
                            /\ \A p \in 0 .. Len(delivered) - 1 : ~Frame(p).last

OutInv == out \in Seq(Scripted) /\ out \in Seq(Positions)

LEMMA ScriptedIsSized ==
  ASSUME script \in Scripts, OutInv
  PROVE  out \in Seq(Sized) /\ Answer \in Seq(Sized)
BY ScriptFrames, AnswerShape, SeqMonotonic DEF OutInv

(* The next frame, appended, is behind those before it. *)
LEMMA AppendsNext ==
  ASSUME NEW S, NEW s \in Seq(S), NEW n \in Nat, n \in S, EndsWith(s, n)
  PROVE  /\ Append(s, n) \in Seq(S) /\ Len(Append(s, n)) = Len(s) + 1
         /\ Append(s, n)[Len(s) + 1] = n
         /\ EndsWith(Append(s, n), n + 1)
<1> DEFINE t == Append(s, n)
<1>1. /\ t \in Seq(S) /\ Len(t) = Len(s) + 1 /\ t[Len(s) + 1] = n
      /\ \A i \in 1 .. Len(s) : t[i] = s[i]
  BY AppendProperties
<1>2. Len(s) \in Nat
  BY LenProperties
<1> HIDE DEF t
<1>3. ASSUME NEW i \in 1 .. n + 1 PROVE t[Len(t) - (n + 1) + i] = i - 1
  <2>1. Len(t) - (n + 1) + i = Len(s) - n + i
    BY <1>1, <1>2
  <2>2. CASE i = n + 1
    BY <1>1, <1>2, <2>1, <2>2
  <2>3. CASE i # n + 1
    <3>1. i \in 1 .. n /\ Len(s) - n + i \in 1 .. Len(s)
      BY <1>2, <2>3 DEF EndsWith
    <3> QED
      BY <1>1, <2>1, <3>1 DEF EndsWith
  <2> QED
    BY <2>2, <2>3
<1>4. EndsWith(t, n + 1)
  BY <1>1, <1>2, <1>3 DEF EndsWith
<1> QED
  BY <1>1, <1>4 DEF t

(* A buffer that ends with the frames of the answer ends with the answer;  *)
(* and if it has no others, it is the answer.                              *)
LEMMA EndsWithAnswer ==
  ASSUME script \in Scripts, NEW s \in Seq(Scripted), EndsWith(s, AnswerLen)
  PROVE  /\ IsSuffix(Answer, s)
         /\ Len(s) = AnswerLen => s = Answer
<1>1. /\ Answer \in Seq(Scripted) /\ Len(Answer) = AnswerLen
      /\ \A i \in 1 .. AnswerLen : Answer[i] = i - 1
  BY AnswerShape
<1>2. IsSuffix(Answer, s)
  BY <1>1, SuffixMeans DEF EndsWith
<1>3. ASSUME Len(s) = AnswerLen PROVE s = Answer
  <2>1. AnswerLen \in Nat
    BY <1>1, LenProperties
  <2>2. \A i \in 1 .. AnswerLen : AnswerLen - AnswerLen + i = i
    BY <2>1
  <2>3. \A i \in 1 .. AnswerLen : s[i] = i - 1
    BY <1>3, <2>2 DEF EndsWith
  <2> QED
    BY <1>1, <1>3, <2>3, SeqEqual
<1> QED
  BY <1>2, <1>3

LEMMA DrainKeeps ==
  ASSUME StageInv, script \in Scripts, SentInv, Link!IInv, OutInv, AnswerInv, Drains
  PROVE  OutInv' /\ AnswerInv'
<1> DEFINE k == Len(delivered)
<1>1. /\ recv_window[0] = k /\ k \in Scripted /\ k \in Positions /\ k \in Nat
      /\ delivered \in Seq(Nat)
  BY DrainsNext, LenProperties DEF Drains, Pop, Ready
<1>2. /\ ~sequence_done /\ pc = "drain" /\ pc' = pc /\ ~resetOnLine
      /\ out' = Append(out, k) /\ delivered' = Append(delivered, k)
      /\ sequence_done' = Frame(k).last /\ Fits(k)
      /\ UNCHANGED <<script, resets, resetOnLine>>
  BY <1>1 DEF Drains, Pop, StageInv, deviceAux
<1>3. /\ EndsWith(out, k) /\ (resets = 0 => Len(out) = k)
      /\ \A p \in 0 .. k - 1 : ~Frame(p).last
  BY <1>2 DEF AnswerInv
<1>4. /\ out \in Seq(Scripted) /\ out \in Seq(Positions) /\ Len(out) \in Nat
      /\ out \in Seq(Sized) /\ k \in Sized
  BY <1>1, ScriptedIsSized, ScriptFrames, LenProperties DEF OutInv
<1>5. /\ out' \in Seq(Scripted) /\ out' \in Seq(Positions) /\ Len(out') = Len(out) + 1
      /\ out'[Len(out) + 1] = k /\ EndsWith(out', k + 1)
  BY <1>1, <1>2, <1>3, <1>4, AppendsNext
<1>6. Len(delivered') = k + 1
  BY <1>1, <1>2, AppendProperties
<1>7. Scripted' = Scripted /\ \A p : Frame(p)' = Frame(p)
  BY <1>2 DEF Scripted, Frame
<1>8. /\ Bytes(out)' = Bytes(out') /\ Answer' = Answer
  BY <1>2 DEF Bytes, Frame, Answer, AnswerLen
<1>9. Bytes(out') <= CAPACITY
  BY <1>2, <1>4, BytesAppend DEF Fits
<1> HIDE DEF k
<1>10. CASE Frame(k).last
  <2>1. AnswerLen = k + 1
    BY <1>1, <1>3, <1>10, FirstLast
  <2>2. IsSuffix(Answer, out') /\ (Len(out') = k + 1 => out' = Answer)
    BY <1>5, <2>1, EndsWithAnswer
  <2>3. sequence_done'
    BY <1>2, <1>10
  <2>4. resets' = 0 => Len(out') = k + 1
    BY <1>2, <1>3, <1>5
  <2> QED
    BY <1>5, <1>7, <1>8, <1>9, <2>2, <2>3, <2>4 DEF OutInv, AnswerInv, IsSuffix, IsPrefix, Reverse
<1>11. CASE ~Frame(k).last
  <2>1. 0 .. k + 1 - 1 = (0 .. k - 1) \cup {k}
    BY <1>1
  <2>2. \A p \in 0 .. k + 1 - 1 : ~Frame(p).last
    BY <1>3, <1>11, <2>1
  <2>3. ~sequence_done'
    BY <1>2, <1>11
  <2>4. resets' = 0 => Len(out') = Len(delivered')
    BY <1>2, <1>3, <1>5, <1>6
  <2>5. ~Frame(out'[Len(out')]).last
    BY <1>5, <1>11
  <2> QED
    BY <1>5, <1>6, <1>7, <1>8, <1>9, <2>2, <2>3, <2>4, <2>5 DEF OutInv, AnswerInv, EndsWith
<1> QED
  BY <1>10, <1>11

(* Where neither response nor buffer change, nor does what they mean. *)
LEMMA SameMeaning ==
  ASSUME UNCHANGED <<script, out>>
  PROVE  /\ Bytes(out)' = Bytes(out) /\ Answer' = Answer /\ Bytes(Answer)' = Bytes(Answer)
         /\ IsSuffix(Answer, out)' <=> IsSuffix(Answer, out)
         /\ OutInv' <=> OutInv
<1>1. Bytes(out)' = Bytes(out)
  BY DEF Bytes, Frame
<1>2. Answer' = Answer /\ Bytes(Answer)' = Bytes(Answer)
  BY DEF Answer, AnswerLen, Bytes, Frame
<1>3. IsSuffix(Answer, out)' <=> IsSuffix(Answer, out)
  BY <1>2 DEF IsSuffix, IsPrefix, Reverse
<1>4. OutInv' <=> OutInv
  BY DEF OutInv, Scripted
<1> QED
  BY <1>1, <1>2, <1>3, <1>4

LEMMA AnswerStep ==
  /\ ReceiveInit /\ FlagInv => OutInv /\ AnswerInv
  /\ /\ StageInv /\ FlagInv /\ SentInv /\ ResetInv /\ Link!IInv /\ OutInv /\ AnswerInv
     /\ [ReceiveNext]_rvars
     => OutInv' /\ AnswerInv'
<1>1. ASSUME ReceiveInit, FlagInv PROVE OutInv /\ AnswerInv
  <2>1. /\ out = << >> /\ delivered = << >> /\ sequence_done = FALSE
    BY <1>1 DEF ReceiveInit, Init, ControlInit
  <2>2. Bytes(out) <= CAPACITY
    BY <2>1, BytesEmpty, ReceiveParameters
  <2>3. Len(<< >>) = 0 /\ EndsWith(<< >>, 0)
    BY DEF EndsWith
  <2>4. 0 .. 0 - 1 = {}
    OBVIOUS
  <2>5. OutInv
    BY <2>1 DEF OutInv
  <2> QED
    BY <2>1, <2>2, <2>3, <2>4, <2>5 DEF AnswerInv
<1> SUFFICES ASSUME StageInv, FlagInv, SentInv, ResetInv, Link!IInv, OutInv, AnswerInv,
                    [ReceiveNext]_rvars
             PROVE  OutInv' /\ AnswerInv'
  BY <1>1
<1>2. CASE Drains
  BY <1>2, DrainKeeps DEF FlagInv
<1>3. CASE Overflows
  <2>1. out' = << >> /\ pc' = "failed"
    BY <1>3 DEF Overflows, GiveUp
  <2> QED
    BY <2>1 DEF OutInv, AnswerInv
<1>4. CASE HandlesReset
  <2>1. /\ UNCHANGED <<script, out, sequence_done, resets, pc>> /\ resetOnLine
        /\ delivered' = << >> /\ pc # "failed"
    BY <1>4 DEF HandlesReset, InCall, deviceAux, resultVars, TakesReset, NextTurn
  <2>2. resets' # 0
    BY <2>1 DEF ResetInv
  <2>3. Len(delivered') = 0
    BY <2>1
  <2>4. 0 .. 0 - 1 = {}
    OBVIOUS
  <2>5. Len(out) \in Nat
    BY LenProperties DEF OutInv
  <2>6. EndsWith(out, Len(delivered))'
    BY <2>1, <2>3, <2>5 DEF EndsWith
  <2> QED
    BY <2>1, <2>2, <2>3, <2>4, <2>6, SameMeaning DEF AnswerInv, Frame
<1>5. CASE DeviceRestarts
  <2>1. UNCHANGED <<script, out, sequence_done, pc>> /\ resetOnLine' = TRUE /\ resets' = resets + 1
    BY <1>5 DEF DeviceRestarts, resultVars, host, Restart
  <2>2. resets' # 0
    BY <2>1 DEF ResetInv
  <2> QED
    BY <2>1, <2>2, SameMeaning DEF AnswerInv, Frame
<1>6. ASSUME UNCHANGED <<script, out, sequence_done, delivered, resets, resetOnLine>>,
             pc # "failed" \/ pc' = "failed"
      PROVE  OutInv' /\ AnswerInv'
  <2>1. EndsWith(out, Len(delivered))' <=> EndsWith(out, Len(delivered))
    BY <1>6 DEF EndsWith
  <2> QED
    BY <1>6, <2>1, SameMeaning DEF AnswerInv, Frame
<1>7. ASSUME ~Drains, ~Overflows, ~HandlesReset, ~DeviceRestarts
      PROVE  /\ UNCHANGED <<script, out, sequence_done, delivered, resets, resetOnLine>>
             /\ pc # "failed" \/ pc' = "failed"
  <2> USE DEF vars, host, deviceAux, resultVars
  <2>1. CASE HostStep /\ Listens
    BY <1>7, <2>1 DEF Listens, HostStep, ChecksTime, TimesOut, CallsReceive,
      ReturnsNothing, HandlesAck, Nacks, ReceivesData, SendsSack, ReturnsResponse,
      LoseFrame, Receive, SendSack, Complete, GiveUp, RepeatsIfDue, NextTurn, TakesAck,
      TakesNack
  <2>2. CASE DeviceStep /\ Listens
    BY <1>7, <2>2 DEF Listens, DeviceStep, DeviceGetsRequest, DeviceSends, DeviceResends,
      DeviceHandlesSack, DevSendNew, DevRetransmit, DevHandleSack, RequestArrives
  <2>3. CASE (LineStep \/ Tick) /\ Listens
    BY <2>3 DEF Listens, LineStep, LineLosesFrame, LineLosesSack, LineLosesRequest,
      LineLosesAck, Tick, LoseFrame, LoseSack, LoseRequest, LoseAck, RequestAges
  <2>4. CASE Returned \/ UNCHANGED rvars
    BY <2>4 DEF Returned, rvars
  <2> QED
    BY <2>1, <2>2, <2>3, <2>4 DEF ReceiveNext
<1> QED
  BY <1>2, <1>3, <1>4, <1>5, <1>6, <1>7

-----------------------------------------------------------------------------
(* Why a call fails. *)

(* Without a LAST frame at its end, the buffer does not end with the answer. *)
LEMMA NoLastNoAnswer ==
  ASSUME script \in Scripts, OutInv, AnswerInv, pc # "failed", ~sequence_done
  PROVE  ~IsSuffix(Answer, out)
<1>1. SUFFICES ASSUME IsSuffix(Answer, out) PROVE FALSE
  OBVIOUS
<1>2. /\ AnswerLen \in 1 .. Len(script) /\ Len(script) \in Nat /\ Frame(AnswerLen - 1).last
      /\ Answer \in Seq(Scripted) /\ Len(Answer) = AnswerLen
      /\ \A i \in 1 .. AnswerLen : Answer[i] = i - 1
  BY AnswerEnds, ScriptFrames, AnswerShape
<1>3. /\ AnswerLen <= Len(out)
      /\ \A i \in 1 .. AnswerLen : out[Len(out) - AnswerLen + i] = i - 1
  BY <1>1, <1>2, SuffixMeans DEF OutInv
<1>4. Len(out) \in Nat /\ AnswerLen \in 1 .. AnswerLen
  BY <1>2, LenProperties DEF OutInv
<1>5. Len(out) - AnswerLen + AnswerLen = Len(out) /\ Len(out) # 0
  BY <1>2, <1>3, <1>4
<1>6. out[Len(out)] = AnswerLen - 1 /\ out # << >>
  BY <1>3, <1>4, <1>5
<1> QED
  BY <1>2, <1>6 DEF AnswerInv

(* The frames copied since the call began are the beginning of the answer; *)
(* with the one that does not fit they are more than the capacity.         *)
LEMMA OverflowIsLarge ==
  ASSUME StageInv, script \in Scripts, SentInv, ResetInv, Link!IInv, OutInv, AnswerInv,
         Overflows, resets = 0
  PROVE  Bytes(Answer) > CAPACITY
<1> DEFINE k == Len(delivered)
<1>1. recv_window[0] = k /\ k \in Scripted /\ k \in Nat /\ ~Fits(k)
  BY DrainsNext, LenProperties DEF Overflows, Ready
<1>2. /\ EndsWith(out, k) /\ Len(out) = k /\ \A p \in 0 .. k - 1 : ~Frame(p).last
  BY DEF AnswerInv, ResetInv, Overflows
<1> HIDE DEF k
<1>3. /\ AnswerLen \in 1 .. Len(script) /\ Len(script) \in Nat /\ Frame(AnswerLen - 1).last
      /\ Len(Answer) = AnswerLen
      /\ \A i \in 1 .. AnswerLen : Answer[i] = i - 1
  BY AnswerEnds, ScriptFrames, AnswerShape
<1>4. out \in Seq(Sized) /\ Answer \in Seq(Sized)
  BY ScriptedIsSized
<1>5. k + 1 <= AnswerLen
  <2>1. AnswerLen - 1 \in 0 .. AnswerLen - 1
    BY <1>3
  <2>2. ~(AnswerLen - 1 <= k - 1)
    BY <1>1, <1>2, <1>3
  <2> QED
    BY <1>1, <1>3, <2>2
<1>6. /\ k \in 0 .. Len(Answer) /\ k + 1 \in 1 .. Len(Answer) /\ k + 1 \in 0 .. Len(Answer)
      /\ (k + 1) - 1 = k
  BY <1>1, <1>3, <1>5
<1>7. Total(Answer)[0 + k] = Total(Answer)[0] + Total(out)[k]
  <2>1. PICK m \in Nat : m = 0
    OBVIOUS
  <2>2. m + Len(out) <= Len(Answer)
    BY <1>1, <1>2, <1>3, <1>5, <2>1
  <2>3. \A i \in 1 .. Len(out) : Answer[m + i] = out[i]
    <3> TAKE i \in 1 .. Len(out)
    <3>1. m + i = i /\ Len(out) - k + i = i /\ i \in 1 .. k /\ i \in 1 .. AnswerLen
      BY <1>1, <1>2, <1>3, <1>5, <2>1
    <3> QED
      BY <1>2, <1>3, <3>1 DEF EndsWith
  <2>4. \A n \in 0 .. Len(out) : Total(Answer)[m + n] = Total(Answer)[m] + Total(out)[n]
    BY <1>4, <2>2, <2>3, TotalShifted
  <2> QED
    BY <1>1, <1>2, <2>1, <2>4
<1>8. /\ Total(Answer)[0] = 0
      /\ Total(Answer)[k + 1] = Total(Answer)[k] + Frame(Answer[k + 1]).len
  BY <1>3, <1>6, TotalSteps
<1>9. Answer[k + 1] = k /\ Frame(k).len \in Nat
  <2>1. Answer[k + 1] = (k + 1) - 1
    BY <1>3, <1>6
  <2>2. Frame(k).len \in Nat
    BY <1>1, ScriptFrames DEF Sized
  <2> QED
    BY <1>6, <2>1, <2>2
<1>10. Total(out)[k] \in Nat /\ Bytes(out) = Total(out)[k]
  BY <1>1, <1>2, <1>4, TotalNat, BytesIsTotal
<1>11. Total(Answer)[k + 1] <= Bytes(Answer) /\ Bytes(Answer) \in Nat
  BY <1>4, <1>6, TotalGrows, BytesIsTotal, BytesNat
<1>12. Bytes(out) + Frame(k).len > CAPACITY
  BY <1>1, <1>9, <1>10, ReceiveParameters DEF Fits
<1>13. 0 + k = k
  BY <1>1
<1>14. Total(Answer)[k + 1] = Bytes(out) + Frame(k).len
  BY <1>7, <1>8, <1>9, <1>10, <1>13
<1> QED
  BY <1>9, <1>10, <1>11, <1>12, <1>14, ReceiveParameters

LEMMA EmptyIsEmpty ==
  ASSUME script \in Scripts, OutInv, IsSuffix(Answer, out), ~(Bytes(out) > 0)
  PROVE  Bytes(Answer) = 0
<1>1. /\ Answer \in Seq(Scripted) /\ Len(Answer) = AnswerLen
      /\ AnswerLen \in 1 .. Len(script) /\ Len(script) \in Nat
  BY AnswerShape, AnswerEnds, ScriptFrames
<1>2. /\ Len(Answer) <= Len(out)
      /\ \A i \in 1 .. Len(Answer) : out[Len(out) - Len(Answer) + i] = Answer[i]
  BY <1>1, SuffixMeans DEF OutInv
<1>3. out \in Seq(Sized) /\ Answer \in Seq(Sized) /\ Len(out) \in Nat
  BY ScriptedIsSized, LenProperties
<1>4. PICK m \in Nat : m = Len(out) - Len(Answer)
  <2>1. Len(Answer) \in Nat
    BY <1>3, LenProperties
  <2>2. Len(out) - Len(Answer) \in Nat
    BY <1>2, <1>3, <2>1
  <2> QED
    BY <2>2
<1>5. m + Len(Answer) = Len(out) /\ m \in 0 .. Len(out) /\ Len(Answer) \in 0 .. Len(Answer)
  BY <1>1, <1>3, <1>4
<1>6. \A n \in 0 .. Len(Answer) : Total(out)[m + n] = Total(out)[m] + Total(Answer)[n]
  <2>1. m + Len(Answer) <= Len(out) /\ \A i \in 1 .. Len(Answer) : out[m + i] = Answer[i]
    BY <1>2, <1>3, <1>4, <1>5
  <2> QED
    BY <1>3, <2>1, TotalShifted
<1>7. Total(out)[Len(out)] = Total(out)[m] + Total(Answer)[Len(Answer)]
  BY <1>5, <1>6
<1>8. Total(out)[m] \in Nat /\ Bytes(Answer) \in Nat /\ Bytes(out) \in Nat
  BY <1>3, <1>5, TotalNat, BytesNat
<1>9. Bytes(out) = Total(out)[m] + Bytes(Answer)
  BY <1>7, BytesIsTotal
<1> QED
  BY <1>8, <1>9

LEMMA ReasonStep ==
  /\ ReceiveInit => FailsForAReason
  /\ /\ StageInv /\ FlagInv /\ SentInv /\ ResetInv /\ Link!IInv /\ OutInv /\ AnswerInv
     /\ FailsForAReason /\ [ReceiveNext]_rvars
     => FailsForAReason'
<1>1. ReceiveInit => FailsForAReason
  BY DEF ReceiveInit, Init, FailsForAReason, ControlInit
<1> SUFFICES ASSUME StageInv, FlagInv, SentInv, ResetInv, Link!IInv, OutInv, AnswerInv,
                    FailsForAReason, [ReceiveNext]_rvars
             PROVE  FailsForAReason'
  BY <1>1
<1>2. CASE TimesOut
  <2>1. UNCHANGED <<script, out, elapsed>> /\ elapsed >= TIMEOUT /\ cause' = "timeout"
    BY <1>2 DEF TimesOut, deviceAux, callVars
  <2>2. ~IsSuffix(Answer, out)
    BY <1>2, NoLastNoAnswer DEF TimesOut, FlagInv
  <2> QED
    BY <2>1, <2>2, SameMeaning DEF FailsForAReason
<1>3. CASE Overflows
  <2>1. UNCHANGED <<script, resets>> /\ cause' = "overflow"
    BY <1>3 DEF Overflows, deviceAux
  <2>2. Bytes(Answer)' = Bytes(Answer)
    BY <2>1 DEF Bytes, Frame, Answer, AnswerLen
  <2>3. resets = 0 => Bytes(Answer) > CAPACITY
    BY <1>3, OverflowIsLarge DEF FlagInv
  <2> QED
    BY <2>1, <2>2, <2>3 DEF FailsForAReason
<1>4. CASE ReturnsResponse
  <2>1. UNCHANGED <<script, out>> /\ sequence_done /\ pc = "wait"
    BY <1>4 DEF ReturnsResponse, deviceAux
  <2>2. CASE Bytes(out) > 0
    BY <1>4, <2>2 DEF ReturnsResponse, Complete, FailsForAReason
  <2>3. CASE ~(Bytes(out) > 0)
    <3>1. IsSuffix(Answer, out)
      BY <2>1 DEF AnswerInv
    <3>2. Bytes(Answer) = 0
      BY <2>3, <3>1, EmptyIsEmpty DEF FlagInv
    <3>3. cause' = "empty"
      BY <1>4, <2>3 DEF ReturnsResponse
    <3> QED
      BY <2>1, <3>2, <3>3, SameMeaning DEF FailsForAReason
  <2> QED
    BY <2>2, <2>3
<1>5. CASE Returned \/ UNCHANGED rvars
  <2>1. UNCHANGED <<pc, cause, elapsed, resets, script, out>>
    BY <1>5 DEF Returned, rvars, vars, host, deviceAux, callVars, resultVars
  <2> QED
    BY <2>1, SameMeaning DEF FailsForAReason
<1>6. ASSUME pc' # "failed" PROVE FailsForAReason'
  BY <1>6 DEF FailsForAReason
<1>7. ASSUME ~TimesOut, ~Overflows, ~ReturnsResponse, ~Returned, ~UNCHANGED rvars
      PROVE  pc' # "failed"
  <2> USE DEF vars, host
  <2>1. CASE HostStep /\ Listens
    BY <1>7, <2>1 DEF Listens, HostStep, ChecksTime, CallsReceive, ReturnsNothing,
      HandlesAck, HandlesReset, Nacks, ReceivesData, Drains, SendsSack, LoseFrame, Receive,
      Pop, SendSack, RepeatsIfDue, NextTurn, TakesAck, TakesNack, TakesReset
  <2>2. CASE DeviceStep /\ Listens
    BY <2>2 DEF Listens, DeviceStep, DeviceGetsRequest, DeviceSends, DeviceResends,
      DeviceHandlesSack, DeviceRestarts, DevSendNew, DevRetransmit, DevHandleSack,
      RequestArrives, Restart
  <2>3. CASE (LineStep \/ Tick) /\ Listens
    BY <2>3 DEF Listens, LineStep, LineLosesFrame, LineLosesSack, LineLosesRequest,
      LineLosesAck, Tick, LoseFrame, LoseSack, LoseRequest, LoseAck, RequestAges
  <2> QED
    BY <1>7, <2>1, <2>2, <2>3 DEF ReceiveNext
<1> QED
  BY <1>2, <1>3, <1>4, <1>5, <1>6, <1>7

-----------------------------------------------------------------------------
(* The invariants together, and what they say of the properties. *)

ReceiveIInv ==
  /\ StageInv /\ Link!IInv /\ FlagInv /\ SentInv /\ ResetInv /\ ClockInv /\ RequestInv
  /\ ConfirmInv /\ TypeOK /\ OutInv /\ AnswerInv /\ FailsForAReason

LEMMA ReceiveInvariant == ReceiveSpec => []ReceiveIInv
<1>1. ReceiveInit => ReceiveIInv
  BY StageStep, LinkIInv, FlagStep, SentStep, ResetStep, ClockStep, RequestStep, ConfirmStep, TypeStep,
     AnswerStep, ReasonStep DEF ReceiveIInv
<1>2. ReceiveIInv /\ [ReceiveNext]_rvars => ReceiveIInv'
  <2> SUFFICES ASSUME ReceiveIInv, [ReceiveNext]_rvars PROVE ReceiveIInv'
    OBVIOUS
  <2>1. StageInv' /\ Link!IInv'
    BY StageStep, LinkIInv DEF ReceiveIInv
  <2>2. FlagInv' /\ SentInv' /\ ResetInv' /\ ClockInv' /\ RequestInv' /\ ConfirmInv'
    BY FlagStep, SentStep, ResetStep, ClockStep, RequestStep, ConfirmStep DEF ReceiveIInv
  <2>3. TypeOK'
    BY <2>1, TypeStep DEF ReceiveIInv
  <2>4. OutInv' /\ AnswerInv' /\ FailsForAReason'
    BY AnswerStep, ReasonStep DEF ReceiveIInv
  <2> QED
    BY <2>1, <2>2, <2>3, <2>4 DEF ReceiveIInv
<1> QED
  BY <1>1, <1>2, PTL DEF ReceiveSpec

(* Every variable of a call keeps its type, and every timer its limit, at  *)
(* any window, capacity and set of responses.                              *)
THEOREM ReceiveTypeCorrect == ReceiveSpec => []ReceiveTypeOK
<1>1. ReceiveIInv => ReceiveTypeOK
  BY DEF ReceiveIInv, StageInv, FlagInv, ResetInv, ClockInv, ConfirmInv, OutInv,
    ReceiveTypeOK, ControlTypeOK
<1> QED
  BY <1>1, ReceiveInvariant, PTL

(* A call of swp_transport_receive_ex that succeeds has the device's answer *)
(* in its buffer: whole, in order, once and within the capacity, whatever  *)
(* was lost, sent again or overtaken; behind older frames only if the      *)
(* device started its answer again.                                        *)
THEOREM AnswerReturned == ReceiveSpec => []ReturnsTheAnswer
<1>1. ReceiveIInv => ReturnsTheAnswer
  BY DEF ReceiveIInv, StageInv, FlagInv, AnswerInv, ReturnsTheAnswer
<1> QED
  BY <1>1, ReceiveInvariant, PTL

(* A call fails only because the time is over and the answer incomplete,   *)
(* because the answer is larger than the buffer, or because it is empty.   *)
THEOREM FailureHasReason == ReceiveSpec => []FailsForAReason
<1>1. ReceiveIInv => FailsForAReason
  BY DEF ReceiveIInv
<1> QED
  BY <1>1, ReceiveInvariant, PTL

(* A call never gives up on time having left a lost request unrepeated for *)
(* the retransmission timeout or longer, however its time was cut up by    *)
(* what arrived.                                                           *)
THEOREM LostRequestsRepeated == ReceiveSpec => []LostRequestIsRepeated
<1>1. ReceiveIInv => LostRequestIsRepeated
  BY DEF ReceiveIInv, RequestInv, LostRequestIsRepeated
<1> QED
  BY <1>1, ReceiveInvariant, PTL

(* When a call has returned an answer and no SACK was lost, the device     *)
(* knows that the caller has it, or the last SACK on its way says so.      *)
THEOREM AnswersAreConfirmed == ReceiveSpec => []AnswerIsConfirmed
<1>1. ReceiveIInv => AnswerIsConfirmed
  BY DEF ReceiveIInv, ConfirmInv, Confirmed, AnswerIsConfirmed, Last
<1> QED
  BY <1>1, ReceiveInvariant, PTL

-----------------------------------------------------------------------------
(* The call implements Delivery with restarts. *)

(* A step of the link below is one of Delivery; where the link starts      *)
(* anew, so does Delivery.                                                 *)
LEMMA StepImplementsRestartable ==
  StageInv /\ Link!IInv /\ [ReceiveNext]_rvars =>
    [Renewed!Next \/ Renewed!Restart]_(Renewed!vars)
<1> SUFFICES ASSUME StageInv, Link!IInv, [ReceiveNext]_rvars
             PROVE  [Renewed!Next \/ Renewed!Restart]_(Renewed!vars)
  OBVIOUS
<1> USE DEF Renewed!vars, Seen
<1>1. CASE UNCHANGED rvars
  BY <1>1 DEF rvars, vars, host, device
<1>2. CASE Link!Init'
  BY <1>2 DEF Link!Init, Renewed!Restart
<1>3. CASE [Link!Next]_(Link!vars)
  <2>1. [Link!Promise!Next]_(Link!Promise!vars)
    BY <1>3, Link!StepImplements, Sizes, Bounds, NoFrameFresh
  <2> QED
    BY <2>1 DEF Link!Promise!Next, Link!Promise!vars, Link!Promise!Deliver,
      Link!Promise!Confirm, Renewed!Next, Renewed!Deliver, Renewed!Confirm
<1> QED
  BY <1>1, <1>2, <1>3, LinkStep

(* Whatever is lost, sent again or overtaken and however often the device  *)
(* starts its answer again: its frames reach the caller in order, each     *)
(* once, and are confirmed only then.                                      *)
THEOREM ReceiveImplementsRestartable == ReceiveSpec => ImplementsRestartable
<1>1. ReceiveInit => Renewed!Init
  BY DEF ReceiveInit, Init, Renewed!Init, ControlInit
<1>2. ReceiveIInv /\ [ReceiveNext]_rvars => [Renewed!Next \/ Renewed!Restart]_(Renewed!vars)
  BY StepImplementsRestartable DEF ReceiveIInv
<1> QED
  BY <1>1, <1>2, ReceiveInvariant, PTL
     DEF ReceiveSpec, ImplementsRestartable, Renewed!RestartableSpec

===============================================================================
