----------------------------- MODULE SwpStream ------------------------------
(***************************************************************************)
(* swp_transport_receive_stream_ex with its clock, composed with the       *)
(* collector that attestation, attestation-file and endorse pass to it:    *)
(* the link of SwpLink, the control frames of SwpControl, the response     *)
(* deadline, the settle time after completion, the device's retransmission *)
(* timer, and a visitor that sorts frames into a tree response and an      *)
(* attestation response.                                                   *)
(*                                                                         *)
(* Time is counted in ticks.  Bytes cross the line and both programs       *)
(* handle them within a tick, so a tick happens only when nothing is in    *)
(* flight; the device computes for as long as it likes.                    *)
(***************************************************************************)
EXTENDS SwpControl

CONSTANTS
  Scripts,         \* the responses the device may send, sequences of frames
  TIMEOUT,         \* timeout_ms, in ticks
  SETTLE,          \* complete_settle_ms (kResponseAckSettleMs = 1200 ms)
  MaxLostFrames,   \* frames, of any kind, to the host the line may lose (bound)
  MaxLostSacks     \* SACKs and requests to the device it may lose (bound)

ASSUME Times ==
  /\ TIMEOUT \in Nat \ {0} /\ SETTLE \in Nat
  /\ MaxLostFrames \in Nat /\ MaxLostSacks \in Nat

(* A frame of a response, by what the visitor reads of its flag. *)
ResponseFrame ==
  [class : {"tree", "attestation", "error", "other"}, last : BOOLEAN]

ASSUME Responses == Scripts \subseteq Seq(ResponseFrame)

VARIABLES
  script,          \* what this run's device sends: [class, last] per frame
  age,             \* ticks since the device last sent each frame
  elapsed,         \* now - start
  completion_seen, \* the visitor has set stream_complete
  quiet,           \* now - last_completion_activity_ms
  collector,       \* AttestationResponseCollector
  lostFrames, lostSacks, \* losses so far
  lostLate,        \* a frame of the response was lost after completion
  resetLate        \* the device started again after completion

controlVars == <<requestVars, resetOnLine, resets>>
clock == <<elapsed, quiet>>
losses == <<lostFrames, lostSacks, lostLate, resetLate>>
svars == <<vars, controlVars, script, age, clock, completion_seen, collector, losses>>

Positions == 0 .. NumFrames - 1

Frame(p) == script[p + 1]

Outstanding == base .. next - 1

-----------------------------------------------------------------------------
(* The collector, over positions of the script. *)

EmptyCollector ==
  [tree |-> << >>, attestation |-> << >>,
   tree_complete |-> FALSE, attestation_complete |-> FALSE, rejected |-> FALSE]

Reject(c) == [c EXCEPT !.rejected = TRUE]

AddTree(c, p) ==
  [c EXCEPT !.tree = Append(@, p), !.tree_complete = @ \/ Frame(p).last]

AddAttestation(c, p) ==
  [c EXCEPT !.attestation = Append(@, p),
            !.attestation_complete = @ \/ Frame(p).last]

(* Mutant: an attestation frame is taken before the tree has ended. *)
VisitUnordered(c, p) ==
  CASE Frame(p).class = "tree" /\ ~c.attestation_complete -> AddTree(c, p)
    [] Frame(p).class = "attestation" -> AddAttestation(c, p)
    [] OTHER -> Reject(c)

(* One call of the visitor: error and foreign frames, a tree frame after   *)
(* the attestation and an attestation frame before the tree are rejected.  *)
Visit(c, p) ==
  CASE Frame(p).class = "tree" /\ ~c.attestation_complete -> AddTree(c, p)
    [] Frame(p).class = "attestation" /\ c.tree_complete  -> AddAttestation(c, p)
    [] OTHER -> Reject(c)

CompletesStream(c, p) ==
  ~Visit(c, p).rejected /\ Frame(p).class = "attestation" /\ Frame(p).last

-----------------------------------------------------------------------------
StreamInit ==
  /\ Init /\ ControlInit
  /\ script \in Scripts
  /\ age = [p \in Positions |-> 0]
  /\ elapsed = 0 /\ quiet = 0
  /\ completion_seen = FALSE
  /\ collector = EmptyCollector
  /\ lostFrames = 0 /\ lostSacks = 0 /\ lostLate = FALSE /\ resetLate = FALSE

(* The device. *)

DeviceGetsRequest ==
  /\ RequestArrives
  /\ UNCHANGED <<vars, resetOnLine, resets, script, age, clock, completion_seen,
                 collector, losses>>

DeviceSends ==
  /\ request = "device"
  /\ next < Len(script)
  /\ DevSendNew
  /\ age' = [age EXCEPT ![next] = 0]
  /\ UNCHANGED <<controlVars, script, clock, completion_seen, collector, losses>>

DeviceResends ==
  /\ \E p \in Outstanding :
       /\ age[p] = RTO
       /\ DevRetransmit(p)
       /\ age' = [age EXCEPT ![p] = 0]
  /\ UNCHANGED <<controlVars, script, clock, completion_seen, collector, losses>>

DeviceHandlesSack ==
  /\ DevHandleSack
  /\ UNCHANGED <<controlVars, script, age, clock, completion_seen, collector, losses>>

(* The device abandons its response and starts it again. *)
DeviceRestarts ==
  /\ Restart
  /\ resetLate' = (resetLate \/ completion_seen)
  /\ UNCHANGED <<script, age, clock, completion_seen, collector, lostFrames, lostSacks,
                 lostLate>>

(* The line. *)

LineLosesRequest ==
  /\ lostSacks < MaxLostSacks
  /\ LoseRequest
  /\ lostSacks' = lostSacks + 1
  /\ UNCHANGED <<vars, resetOnLine, resets, script, age, clock, completion_seen,
                 collector, lostFrames, lostLate, resetLate>>

LineLosesAck ==
  /\ lostFrames < MaxLostFrames
  /\ LoseAck
  /\ lostFrames' = lostFrames + 1
  /\ UNCHANGED <<vars, resetOnLine, resets, script, age, clock, completion_seen,
                 collector, lostSacks, lostLate, resetLate>>

LineLosesFrame ==
  /\ lostFrames < MaxLostFrames
  /\ LoseFrame
  /\ lostFrames' = lostFrames + 1
  /\ lostLate' = (lostLate \/ completion_seen)
  /\ UNCHANGED <<controlVars, script, age, clock, completion_seen, collector, lostSacks,
                 resetLate>>

LineLosesSack ==
  /\ lostSacks < MaxLostSacks
  /\ LoseSack
  /\ lostSacks' = lostSacks + 1
  /\ UNCHANGED <<controlVars, script, age, clock, completion_seen, collector, lostFrames,
                 lostLate, resetLate>>

(* The host. *)

DeadlineOffByOne == ~completion_seen /\ elapsed > TIMEOUT   \* mutant
DeadlineIgnoresCompletion == elapsed >= TIMEOUT             \* mutant
DeadlinePassed == ~completion_seen /\ elapsed >= TIMEOUT
Settled == completion_seen /\ quiet >= SETTLE

(* The call waits for a frame; with no settle time it does not go on after *)
(* completion.                                                             *)
InLoop == pc = "wait" /\ (completion_seen => SETTLE > 0)

(* receive_any_frame_timed comes back without a frame: its time has run    *)
(* out, or the line has fallen silent in the middle of one.                *)
HostReceivesNothing ==
  /\ InLoop
  /\ RepeatsIfDue
  /\ UNCHANGED <<vars, resetOnLine, resets, script, age, clock, completion_seen,
                 collector, losses>>

(* It returns a control frame, which after completion restarts the settle  *)
(* time like any frame.                                                    *)
HostHandlesControl ==
  /\ InLoop
  /\ \/ (TakesAck \/ TakesNack) /\ UNCHANGED <<vars, resetOnLine, resets>>
     \/ TakesReset /\ UNCHANGED requestVars
  /\ quiet' = 0
  /\ UNCHANGED <<script, age, elapsed, completion_seen, collector, losses>>

(* Mutant: a frame after completion does not restart the settle time. *)
HostReceivesNoRefresh ==
  /\ InLoop /\ ~resetOnLine
  /\ Receive
  /\ UNCHANGED <<controlVars, script, age, clock, completion_seen, collector, losses>>

(* It returns a data frame, at the latest when its time runs out.          *)
HostReceives ==
  /\ InLoop /\ ~resetOnLine
  /\ Receive
  /\ quiet' = 0
  /\ UNCHANGED <<controlVars, script, age, elapsed, completion_seen, collector, losses>>

(* A frame of invalid encoding is dropped and NACKed.  The NACK makes the   *)
(* device resend what is outstanding at once, unless it is lost as well.   *)
HostNacks ==
  /\ InLoop /\ ~resetOnLine
  /\ lostFrames < MaxLostFrames
  /\ LoseFrame
  /\ lostFrames' = lostFrames + 1
  /\ quiet' = 0
  /\ \E resend \in {{}, Outstanding \ sacked} :
       age' = [p \in Positions |-> IF p \in resend THEN RTO ELSE age[p]]
  /\ UNCHANGED <<controlVars, script, elapsed, completion_seen, collector, lostSacks,
                 lostLate, resetLate>>

(* One turn of the loop that hands ready frames to the visitor. *)
HostPops ==
  /\ ~collector.rejected
  /\ Pop
  /\ LET p == recv_window[0] IN
       /\ collector' = Visit(collector, p)
       /\ completion_seen' = (completion_seen \/ CompletesStream(collector, p))
  /\ quiet' = 0
  /\ UNCHANGED <<controlVars, script, age, elapsed, losses>>

HostSendsSack ==
  /\ ~collector.rejected
  /\ ~Ready
  /\ SendSack
  /\ UNCHANGED <<controlVars, script, age, clock, completion_seen, collector, losses>>

(* The visitor returned false: the receiver is reset, nothing is SACKed. *)
HostRejects ==
  /\ collector.rejected
  /\ GiveUp
  /\ UNCHANGED <<controlVars, script, age, clock, completion_seen, collector, losses>>

HostTimesOut ==
  /\ pc = "wait"
  /\ DeadlinePassed
  /\ GiveUp
  /\ UNCHANGED <<controlVars, script, age, clock, completion_seen, collector, losses>>

(* Mutant: the settle time starts anew instead of ending the call. *)
HostSettlesAgain ==
  /\ Settled
  /\ quiet' = 0
  /\ UNCHANGED <<vars, controlVars, script, age, elapsed, completion_seen, collector,
                 losses>>

HostCompletes ==
  /\ Settled
  /\ Complete
  /\ UNCHANGED <<controlVars, script, age, clock, completion_seen, collector, losses>>

(* Time passes only when nobody has something to do at this instant. *)
Tick ==
  /\ pc = "wait" /\ toHost = << >> /\ toDev = << >> /\ ControlIdle
  /\ ~DeadlinePassed /\ ~Settled
  /\ \A p \in Outstanding \ sacked : age[p] < RTO
  /\ IF completion_seen
     THEN quiet' = quiet + 1 /\ UNCHANGED elapsed
     ELSE elapsed' = elapsed + 1 /\ UNCHANGED quiet
  /\ age' = [p \in Positions |->
               IF p \in Outstanding \ sacked THEN age[p] + 1 ELSE age[p]]
  /\ RequestAges
  /\ UNCHANGED <<vars, resetOnLine, resets, script, completion_seen, collector, losses>>

(* The call has returned and the port is closed. *)
Returned == ~Listening /\ UNCHANGED svars

HostStep ==
  \/ HostReceivesNothing \/ HostHandlesControl \/ HostReceives \/ HostNacks
  \/ HostPops \/ HostSendsSack
  \/ HostRejects \/ HostTimesOut \/ HostCompletes

DeviceStep ==
  DeviceGetsRequest \/ DeviceSends \/ DeviceResends \/ DeviceHandlesSack
    \/ DeviceRestarts

LineStep == LineLosesRequest \/ LineLosesAck \/ LineLosesFrame \/ LineLosesSack

StreamNext ==
  \/ Listening /\ (HostStep \/ DeviceStep \/ LineStep \/ Tick)
  \/ Returned

(* The host's loop runs, time passes, the device serves its timer and the  *)
(* SACKs it receives.  Nothing makes the device send a new frame.          *)
Fairness ==
  /\ WF_svars(Listening /\ HostStep)
  /\ WF_svars(Listening /\ (DeviceGetsRequest \/ DeviceResends \/ DeviceHandlesSack))
  /\ WF_svars(Listening /\ Tick)

StreamSpec == StreamInit /\ [][StreamNext]_svars /\ Fairness

-----------------------------------------------------------------------------
(* Properties. *)

(* Timers stay within their limits and every variable has its type. *)
StreamTypeOK ==
  /\ TypeOK /\ ControlTypeOK
  /\ script \in Scripts
  /\ age \in [Positions -> 0 .. RTO]
  /\ elapsed \in 0 .. TIMEOUT /\ quiet \in 0 .. SETTLE
  /\ completion_seen \in BOOLEAN
  /\ collector.tree \in Seq(Positions) /\ collector.attestation \in Seq(Positions)
  /\ lostFrames \in 0 .. MaxLostFrames /\ lostSacks \in 0 .. MaxLostSacks

(* The frames of one class among the first n, each once and in order. *)
IsOfClass(positions, class, n) ==
  /\ {positions[i] : i \in DOMAIN positions} = {p \in 0 .. n - 1 : Frame(p).class = class}
  /\ \A i, j \in DOMAIN positions : i < j => positions[i] < positions[j]

(* The same of the end of a byte string, behind its first k frames. *)
EndsWithClass(positions, class, n) ==
  \E k \in 0 .. Len(positions) :
    IsOfClass(SubSeq(positions, k + 1, Len(positions)), class, n)

(* A response the collector is meant to take: tree and attestation frames  *)
(* only, no attestation frame before the tree has ended, no tree frame     *)
(* after the attestation has ended, and both ended.                        *)
Acceptable(s) ==
  /\ \A i \in DOMAIN s : s[i].class \in {"tree", "attestation"}
  /\ \A i \in DOMAIN s : s[i].class = "attestation" =>
       \E j \in 1 .. i - 1 : s[j].class = "tree" /\ s[j].last
  /\ \A i \in DOMAIN s : s[i].class = "tree" =>
       ~\E j \in 1 .. i - 1 : s[j].class = "attestation" /\ s[j].last
  /\ \E i \in DOMAIN s : s[i].class = "attestation" /\ s[i].last

(* When the call succeeds, the device has sent a response that the         *)
(* collector is meant to take, and each of the two byte strings that the   *)
(* commands write to files ends with exactly its frames, in order, once,   *)
(* whatever was lost or retransmitted on the way.  It begins with them,    *)
(* too, unless the device started its response again: a RESET clears the   *)
(* window but not the collector, and what it held stays in front.          *)
SuccessIsComplete ==
  pc = "done" =>
    /\ \E n \in 1 .. Len(script) :
         /\ Acceptable(SubSeq(script, 1, n))
         /\ EndsWithClass(collector.tree, "tree", n)
         /\ EndsWithClass(collector.attestation, "attestation", n)
    /\ resets = 0 =>
         /\ Acceptable(SubSeq(script, 1, Len(delivered)))
         /\ IsOfClass(collector.tree, "tree", Len(delivered))
         /\ IsOfClass(collector.attestation, "attestation", Len(delivered))

(* A good response fails the call only by missing the deadline, and only   *)
(* while it was still incomplete: the settle time never turns a completed  *)
(* response into a failure.  It does if the device starts its response     *)
(* again after completion: the first tree frame is rejected.               *)
FailsOnlyLate ==
  pc = "failed" /\ Acceptable(script) /\ ~resetLate => elapsed = TIMEOUT /\ ~completion_seen

(* What tasks/lessons.md asks of commands with several responses: frame     *)
(* classes come in order, every tree frame before every attestation frame. *)
ClassesInOrder ==
  pc = "done" =>
    \A i \in DOMAIN collector.tree, j \in DOMAIN collector.attestation :
      collector.tree[i] < collector.attestation[j]

(* The purpose of the settle time: when the call succeeds, the device has  *)
(* been told of every frame, even if SACKs were lost, as long as no frame  *)
(* it resent after completion was lost and it did not start again after    *)
(* completion.  Otherwise the port is closed on a device that still        *)
(* retransmits.                                                            *)
CleanClose ==
  pc = "done" /\ Acceptable(script) /\ Len(delivered) = Len(script)
     /\ ~lostLate /\ ~resetLate
  => base = Len(script)

(* The call returns, however the losses, retransmissions and restarts that *)
(* postpone the end of the settle time fall.  (The bounds end them; a      *)
(* device that never stops sending can hold the call for ever.)            *)
Terminates == <>(pc \in {"done", "failed"})

(* A response that completed is reported as a success, unless the device   *)
(* starts it again in the settle time.                                     *)
CompletionSucceeds ==
  Acceptable(script) /\ completion_seen ~> pc = "done" \/ resetLate
=============================================================================
