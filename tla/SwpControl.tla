----------------------------- MODULE SwpControl ------------------------------
(***************************************************************************)
(* What both receive calls of swp_client_bridge.c handle besides data      *)
(* frames: the request, which stays in the host's send window until its    *)
(* ACK arrives and is sent again by timer or NACK, and the RESET of a      *)
(* device that starts its response again.  Actions here say nothing of the *)
(* call around them; SwpStream and SwpReceive conjoin the rest.            *)
(***************************************************************************)
EXTENDS SwpLink

CONSTANTS
  RTO,             \* retransmission timeout of either side (SWP_TIMEOUT_MS)
  MaxResets        \* times the device may start again (bound)

ASSUME ControlParameters == RTO \in Nat \ {0} /\ MaxResets \in Nat

VARIABLES
  request,         \* the request: on the "line", "lost", damaged and its NACK
                   \* on the way ("nacked"), or at the "device"
  ackOnLine,       \* an ACK of the request is on its way to the host
  pending,         \* base_frame_index # next_frame_index: request not ACKed
  requestAge,      \* ticks since the host last sent it, as long as pending
  resetOnLine,     \* the device restarted and its RESET is on its way
  resets           \* times it restarted

requestVars == <<request, ackOnLine, pending, requestAge>>

ControlInit ==
  /\ request = "line" /\ ackOnLine = FALSE /\ pending = TRUE /\ requestAge = 0
  /\ resetOnLine = FALSE /\ resets = 0

(* Nothing is on the line but, perhaps, a damaged or lost request. *)
ControlIdle == request \notin {"line", "nacked"} /\ ~ackOnLine /\ ~resetOnLine

-----------------------------------------------------------------------------
(* The device and the line. *)

RequestArrives ==
  /\ request = "line"
  /\ request' = "device"
  /\ ackOnLine' = TRUE
  /\ UNCHANGED <<pending, requestAge>>

(* The request, or the NACK of a damaged one, does not arrive; a damaged   *)
(* request may be NACKed.                                                  *)
LoseRequest ==
  /\ request \in {"line", "nacked"}
  /\ \/ request' = "lost"
     \/ request = "line" /\ request' = "nacked"
  /\ UNCHANGED <<ackOnLine, pending, requestAge>>

LoseAck ==
  /\ ackOnLine
  /\ ackOnLine' = FALSE
  /\ UNCHANGED <<request, pending, requestAge>>

(* The device abandons its response, announces it with a RESET, and starts *)
(* the response again from the first frame.                                *)
Restart ==
  /\ resets < MaxResets
  /\ request = "device" /\ pc = "wait"
  /\ resets' = resets + 1
  /\ base' = 0 /\ next' = 0 /\ sacked' = {}
  /\ toHost' = << >> /\ toDev' = << >>
  /\ resetOnLine' = TRUE
  /\ UNCHANGED <<host, requestVars>>

-----------------------------------------------------------------------------
(* The host: swp_process_receive_control, and the retransmission.          *)

(* An ACK frees the request ... *)
TakesAck ==
  /\ ackOnLine
  /\ ackOnLine' = FALSE
  /\ pending' = FALSE
  /\ UNCHANGED <<request, requestAge>>

(* ... a NACK sends it again at once ... *)
TakesNack ==
  /\ request = "nacked"
  /\ request' = "line"
  /\ requestAge' = 0
  /\ UNCHANGED <<ackOnLine, pending>>

(* Mutant: the expected index is not reset. *)
TakesResetIndexKept ==
  /\ resetOnLine
  /\ resetOnLine' = FALSE
  /\ recv_window' = EmptyWindow
  /\ delivered' = << >>
  /\ UNCHANGED <<device, toHost, toDev, pc, expected_frame_index, resets>>

(* ... and a RESET clears the receiver, but nothing the caller has taken.  *)
TakesReset ==
  /\ resetOnLine
  /\ resetOnLine' = FALSE
  /\ recv_window' = EmptyWindow
  /\ expected_frame_index' = 0
  /\ delivered' = << >>
  /\ UNCHANGED <<device, toHost, toDev, pc, resets>>

(* Mutant: a turn without a frame repeats nothing. *)
NeverRepeats == UNCHANGED requestVars

(* check_timeouts_and_retransmit, in a turn of the loop without a frame: a *)
(* pending request whose timer has run out is sent again.  A device that   *)
(* has it sends its ACK again.                                             *)
RepeatsIfDue ==
  IF pending /\ requestAge = RTO
  THEN /\ requestAge' = 0
       /\ request' = IF request = "lost" THEN "line" ELSE request
       /\ ackOnLine' = (ackOnLine \/ request = "device")
       /\ UNCHANGED pending
  ELSE UNCHANGED requestVars

RequestAges ==
  /\ requestAge' = IF pending /\ requestAge < RTO THEN requestAge + 1 ELSE requestAge
  /\ UNCHANGED <<request, ackOnLine, pending>>

-----------------------------------------------------------------------------
ControlTypeOK ==
  /\ request \in {"line", "nacked", "lost", "device"} /\ requestAge \in 0 .. RTO
  /\ {ackOnLine, pending, resetOnLine} \subseteq BOOLEAN
  /\ resets \in 0 .. MaxResets

(* Across restarts of the device, too, frames reach the caller in order    *)
(* and once, and are confirmed only then.  From the moment the device      *)
(* starts again nothing of the receiver counts, although the RESET that    *)
(* clears it is still on the line.                                         *)
Renewed == INSTANCE Delivery WITH
  delivered <- IF resetOnLine THEN << >> ELSE delivered,
  confirmed <- base
ImplementsRestartable == Renewed!RestartableSpec
=============================================================================
