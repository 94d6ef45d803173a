----------------------------- MODULE SwpReceive -----------------------------
(***************************************************************************)
(* swp_transport_receive_ex: one response gathered into one buffer, as     *)
(* every command except attestation and endorse receives it.  On top of    *)
(* the link of SwpLink and the control frames of SwpControl: the buffer    *)
(* and its capacity, the LAST frame, and the two reads of millis() in each *)
(* turn of the loop.                                                       *)
(***************************************************************************)
EXTENDS SwpControl, SequencesExt

CONSTANTS
  Scripts,       \* responses: sequences of [last, len] frames
  CAPACITY,      \* out_capacity
  TIMEOUT,       \* timeout_ms, in ticks
  WORD,          \* size of the unsigned arithmetic of millis() (2^32)
  MaxPreempt,    \* ticks that may pass between the two reads of millis()
  MaxLost        \* frames, of any kind, the line may lose (bound)

ASSUME ReceiveParameters ==
  /\ CAPACITY \in Nat \ {0} /\ TIMEOUT \in Nat \ {0}
  /\ WORD \in Nat /\ WORD > TIMEOUT
  /\ MaxPreempt \in Nat /\ MaxLost \in Nat

(* A frame of a response, and that every response ends. *)
ResponseFrame == [last : BOOLEAN, len : Nat]
ASSUME ReceiveScripts ==
  /\ Scripts \subseteq Seq(ResponseFrame)
  /\ \A s \in Scripts : \E i \in DOMAIN s : s[i].last

VARIABLES
  script, age,     \* the device's response; ticks since each frame was sent
  stage,           \* in the loop: "top", "checked" (first read of millis()
                   \* done), "call" (inside receive_any_frame_timed)
  elapsed, remaining_ms,
  spent,           \* ticks since the stage was entered, as far as they matter
  out, sequence_done, \* frames copied into the buffer; a LAST frame was one
  cause,           \* why the call failed
  overran,         \* the host was once held up between its two reads of
                   \* millis() for more than a tick, past the end of its time
  lost,
  sackLost         \* one of the losses was a SACK

deviceAux == <<script, age, resets>>
callVars == <<stage, elapsed, remaining_ms, spent, overran>>
losses == <<lost, sackLost>>
resultVars == <<out, sequence_done, cause>>
rvars == <<vars, deviceAux, requestVars, resetOnLine, callVars, resultVars, losses>>

Positions == 0 .. NumFrames - 1
Frame(p) == script[p + 1]
Outstanding == base .. next - 1

(* out_len: the bytes of the frames copied so far. *)
Bytes(s) ==
  LET total[n \in 0 .. Len(s)] ==
        IF n = 0 THEN 0 ELSE total[n - 1] + Frame(s[n]).len
  IN  total[Len(s)]

-----------------------------------------------------------------------------
ReceiveInit ==
  /\ Init /\ ControlInit
  /\ script \in Scripts
  /\ age = [p \in Positions |-> 0]
  /\ stage = "top" /\ elapsed = 0 /\ remaining_ms = 0 /\ spent = 0
  /\ overran = FALSE
  /\ out = << >> /\ sequence_done = FALSE /\ cause = "none"
  /\ lost = 0 /\ sackLost = FALSE

-----------------------------------------------------------------------------
(* The device answers a request it has received. *)

DeviceGetsRequest ==
  /\ RequestArrives
  /\ UNCHANGED <<vars, deviceAux, resetOnLine, callVars, resultVars, losses>>

DeviceSends ==
  /\ request = "device"
  /\ next < Len(script)
  /\ DevSendNew
  /\ age' = [age EXCEPT ![next] = 0]
  /\ UNCHANGED <<script, resets, requestVars, resetOnLine, callVars, resultVars, losses>>

DeviceResends ==
  /\ \E p \in Outstanding :
       /\ age[p] = RTO
       /\ DevRetransmit(p)
       /\ age' = [age EXCEPT ![p] = 0]
  /\ UNCHANGED <<script, resets, requestVars, resetOnLine, callVars, resultVars, losses>>

DeviceHandlesSack ==
  /\ DevHandleSack
  /\ UNCHANGED <<deviceAux, requestVars, resetOnLine, callVars, resultVars, losses>>

(* The device abandons its response and starts it again. *)
DeviceRestarts ==
  /\ Restart
  /\ UNCHANGED <<script, age, callVars, resultVars, losses>>

(* The line. *)

LineLosesFrame ==
  /\ lost < MaxLost
  /\ LoseFrame
  /\ lost' = lost + 1 /\ UNCHANGED sackLost
  /\ UNCHANGED <<deviceAux, requestVars, resetOnLine, callVars, resultVars>>

LineLosesSack ==
  /\ lost < MaxLost
  /\ LoseSack
  /\ lost' = lost + 1 /\ sackLost' = TRUE
  /\ UNCHANGED <<deviceAux, requestVars, resetOnLine, callVars, resultVars>>

LineLosesRequest ==
  /\ lost < MaxLost
  /\ LoseRequest
  /\ lost' = lost + 1 /\ UNCHANGED sackLost
  /\ UNCHANGED <<vars, deviceAux, resetOnLine, callVars, resultVars>>

LineLosesAck ==
  /\ lost < MaxLost
  /\ LoseAck
  /\ lost' = lost + 1 /\ UNCHANGED sackLost
  /\ UNCHANGED <<vars, deviceAux, resetOnLine, callVars, resultVars>>

-----------------------------------------------------------------------------
(* The host's loop. *)

(* Mutant: the loop condition lets the last instant through. *)
ChecksTimeInclusive ==
  /\ pc = "wait" /\ stage = "top" /\ ~sequence_done
  /\ elapsed <= TIMEOUT
  /\ stage' = "checked"
  /\ spent' = 0
  /\ UNCHANGED <<vars, deviceAux, requestVars, resetOnLine, elapsed, remaining_ms,
                 overran, resultVars, losses>>

(* The loop condition: millis() - start < timeout_ms. *)
ChecksTime ==
  /\ pc = "wait" /\ stage = "top" /\ ~sequence_done
  /\ elapsed < TIMEOUT
  /\ stage' = "checked"
  /\ spent' = 0
  /\ UNCHANGED <<vars, deviceAux, requestVars, resetOnLine, elapsed, remaining_ms,
                 overran, resultVars, losses>>

TimesOut ==
  /\ pc = "wait" /\ stage = "top" /\ ~sequence_done
  /\ elapsed >= TIMEOUT
  /\ GiveUp
  /\ cause' = "timeout"
  /\ UNCHANGED <<deviceAux, requestVars, resetOnLine, callVars, out, sequence_done, losses>>

(* The second read of millis() and the unsigned subtraction. *)
CallsReceive ==
  /\ stage = "checked"
  /\ stage' = "call"
  /\ spent' = 0
  /\ remaining_ms' = (TIMEOUT - elapsed) % WORD
  /\ UNCHANGED <<vars, deviceAux, requestVars, resetOnLine, elapsed, overran,
                 resultVars, losses>>

InCall == pc = "wait" /\ stage = "call"

(* Back at the loop condition, the receiver's buffer as it was. *)
NextTurn ==
  /\ stage' = "top"
  /\ UNCHANGED <<elapsed, remaining_ms, spent, overran, resultVars>>

(* No frame within the time given, or silence in the middle of one. *)
ReturnsNothing ==
  /\ InCall
  /\ remaining_ms = 0 \/ spent > 0
  /\ RepeatsIfDue
  /\ NextTurn
  /\ UNCHANGED <<vars, deviceAux, resetOnLine, losses>>

(* An ACK or a NACK of the request. *)
HandlesAck ==
  /\ InCall
  /\ TakesAck \/ TakesNack
  /\ NextTurn
  /\ UNCHANGED <<vars, deviceAux, resetOnLine, losses>>

(* The RESET leaves the caller's buffer as it is. *)
HandlesReset ==
  /\ InCall
  /\ TakesReset
  /\ NextTurn
  /\ UNCHANGED <<script, age, requestVars, losses>>

(* A data frame of invalid encoding is dropped and NACKed. *)
Nacks ==
  /\ InCall /\ ~resetOnLine
  /\ lost < MaxLost
  /\ LoseFrame
  /\ lost' = lost + 1 /\ UNCHANGED sackLost
  /\ age' \in {age, [p \in Positions |->
                       IF p \in Outstanding \ sacked THEN RTO ELSE age[p]]}
  /\ NextTurn
  /\ UNCHANGED <<script, resets, requestVars, resetOnLine>>

ReceivesData ==
  /\ InCall /\ ~resetOnLine
  /\ Receive
  /\ UNCHANGED <<deviceAux, requestVars, resetOnLine, callVars, resultVars, losses>>

FitsStrictly(p) == Bytes(out) + Frame(p).len < CAPACITY   \* mutant
Fits(p) == Bytes(out) + Frame(p).len <= CAPACITY

ReturnsFromDrain ==   \* mutant: the call returns as soon as it has the LAST frame
  /\ pc = "drain" /\ sequence_done
  /\ IF Bytes(out) > 0 THEN pc' = "done" /\ UNCHANGED cause
     ELSE pc' = "failed" /\ cause' = "empty"
  /\ UNCHANGED <<device, toHost, toDev, recv_window, expected_frame_index, delivered,
                 deviceAux, requestVars, resetOnLine, callVars, out, sequence_done, losses>>

(* Mutant: the loop does not stop at a LAST frame. *)
DrainsPastLast ==
  /\ Pop
  /\ LET p == recv_window[0] IN
       /\ Fits(p)
       /\ out' = Append(out, p)
       /\ sequence_done' = (sequence_done \/ Frame(p).last)
  /\ UNCHANGED <<deviceAux, requestVars, resetOnLine, callVars, cause, losses>>

(* One turn of swp_drain_in_order. *)
Drains ==
  /\ ~sequence_done
  /\ Pop
  /\ LET p == recv_window[0] IN
       /\ Fits(p)
       /\ out' = Append(out, p)
       /\ sequence_done' = Frame(p).last
  /\ UNCHANGED <<deviceAux, requestVars, resetOnLine, callVars, cause, losses>>

(* The next frame does not fit: NACK, empty result, reset, failure. *)
Overflows ==
  /\ pc = "drain" /\ ~sequence_done
  /\ Ready /\ ~Fits(recv_window[0])
  /\ GiveUp
  /\ out' = << >>
  /\ cause' = "overflow"
  /\ UNCHANGED <<deviceAux, requestVars, resetOnLine, callVars, sequence_done, losses>>

SendsSack ==
  /\ sequence_done \/ ~Ready
  /\ SendSack
  /\ NextTurn
  /\ UNCHANGED <<deviceAux, requestVars, resetOnLine, losses>>

(* The response is complete: true unless it was empty; nothing is reset. *)
ReturnsResponse ==
  /\ pc = "wait" /\ sequence_done
  /\ IF Bytes(out) > 0
     THEN Complete /\ UNCHANGED cause
     ELSE /\ pc' = "failed" /\ cause' = "empty"
          /\ UNCHANGED <<device, toHost, toDev, recv_window, expected_frame_index,
                         delivered>>
  /\ UNCHANGED <<deviceAux, requestVars, resetOnLine, callVars, out, sequence_done, losses>>

(* Time passes while the host waits for bytes, or while the scheduler      *)
(* keeps it from running between its two reads of the clock.               *)
Waits ==
  /\ stage = "call"
  /\ remaining_ms > 0
  /\ toHost = << >> /\ ControlIdle
  /\ remaining_ms' = remaining_ms - 1
  /\ spent' = 1
  /\ UNCHANGED overran

Preempted ==
  /\ stage = "checked"
  /\ spent < MaxPreempt
  /\ spent' = spent + 1
  /\ overran' = (overran \/ (spent' > 1 /\ elapsed + 1 > TIMEOUT))
  /\ UNCHANGED remaining_ms

Tick ==
  /\ pc = "wait" /\ toDev = << >> /\ request # "line"
  /\ Waits \/ Preempted
  /\ \A p \in Outstanding \ sacked : age[p] < RTO
  /\ elapsed' = elapsed + 1
  /\ RequestAges
  /\ age' = [p \in Positions |->
               IF p \in Outstanding \ sacked THEN age[p] + 1 ELSE age[p]]
  /\ UNCHANGED <<vars, script, resets, resetOnLine, stage, resultVars, losses>>

Listens == pc \in {"wait", "drain"}

Returned == ~Listens /\ UNCHANGED rvars

HostStep ==
  \/ ChecksTime \/ TimesOut \/ CallsReceive \/ ReturnsNothing
  \/ HandlesAck \/ HandlesReset \/ Nacks \/ ReceivesData
  \/ Drains \/ Overflows \/ SendsSack \/ ReturnsResponse

DeviceStep ==
  DeviceGetsRequest \/ DeviceSends \/ DeviceResends \/ DeviceHandlesSack
    \/ DeviceRestarts

LineStep == LineLosesFrame \/ LineLosesSack \/ LineLosesRequest \/ LineLosesAck

ReceiveNext ==
  \/ Listens /\ (HostStep \/ DeviceStep \/ LineStep \/ Tick)
  \/ Returned

(* The host's loop runs, time passes, and the device serves its line and   *)
(* its timer.  Nothing makes it send a new frame.                          *)
Fairness ==
  /\ WF_rvars(Listens /\ HostStep)
  /\ WF_rvars(Listens /\ (DeviceGetsRequest \/ DeviceResends \/ DeviceHandlesSack))
  /\ WF_rvars(Listens /\ Tick)

ReceiveSpec == ReceiveInit /\ [][ReceiveNext]_rvars /\ Fairness

-----------------------------------------------------------------------------
(* Properties. *)

(* Variables keep their types and timers their limits. *)
ReceiveTypeOK ==
  /\ TypeOK /\ ControlTypeOK
  /\ script \in Scripts /\ age \in [Positions -> 0 .. RTO]
  /\ {sequence_done, overran, sackLost} \subseteq BOOLEAN
  /\ stage \in {"top", "checked", "call"}
  /\ elapsed \in Nat /\ remaining_ms \in 0 .. WORD - 1
  /\ out \in Seq(Positions)
  /\ cause \in {"none", "timeout", "overflow", "empty"}

(* The frames of the answer: up to and including the first LAST frame. *)
AnswerLen == CHOOSE n \in DOMAIN script :
               script[n].last /\ \A i \in 1 .. n - 1 : ~script[i].last
Answer == [i \in 1 .. AnswerLen |-> i - 1]

(* A call that succeeds returns the device's answer: every frame up to the *)
(* first LAST frame, in order, once, within the capacity, and no byte of a *)
(* frame after it.  If the device started its answer again on the way, the *)
(* answer is there, but behind what was copied before the RESET.           *)
ReturnsTheAnswer ==
  pc = "done" =>
    /\ Bytes(out) <= CAPACITY
    /\ IsSuffix(Answer, out)
    /\ resets = 0 => out = Answer

(* A call fails for the reason it has: the time is over and the answer was *)
(* not complete; the answer is larger than the buffer; or it is empty.     *)
(* What losses and retransmissions do to the order of arrival does not     *)
(* matter.  (An answer started again counts twice towards the capacity.)   *)
FailsForAReason ==
  pc = "failed" =>
    \/ cause = "timeout" /\ elapsed >= TIMEOUT /\ ~IsSuffix(Answer, out)
    \/ cause = "overflow" /\ (resets = 0 => Bytes(Answer) > CAPACITY)
    \/ cause = "empty" /\ Bytes(Answer) = 0

(* The call returns within the time it was given, up to one delay of the   *)
(* scheduler: the wait window that off, firmware and timestamp report.     *)
ReturnsInWindow == elapsed <= TIMEOUT + MaxPreempt

(* What holds of the window: the call is over when its time is, unless the *)
(* host is held up between its two reads of millis() until the time has    *)
(* passed.  Then the remaining time wraps, once: the call waits no longer  *)
(* than the size of the word behind the delay.                             *)
ReturnsUnlessHeldUp ==
  /\ ~overran => elapsed <= TIMEOUT
  /\ elapsed < TIMEOUT + MaxPreempt + WORD

(* A lost request is not waited on: whatever the slices of time between    *)
(* the frames, the call gives up on time only when its last copy of the    *)
(* request is younger than the retransmission timeout.                     *)
LostRequestIsRepeated ==
  cause = "timeout" /\ request = "lost" => requestAge < RTO

(* The call returns right behind the SACK of the LAST frame and does not   *)
(* wait to see it repeated: as long as no SACK was lost, the device knows  *)
(* that the caller has its answer, or the SACK that says so is last of     *)
(* those on their way.                                                     *)
AnswerIsConfirmed ==
  pc = "done" /\ ~sackLost /\ ~resetOnLine =>
    \/ base = Len(delivered)
    \/ toDev # << >> /\ Last(toDev).at = Len(delivered)

(* The call returns. *)
Terminates == <>(pc \in {"done", "failed"})

=============================================================================
