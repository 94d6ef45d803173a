------------------------------ MODULE SwpLink -------------------------------
(***************************************************************************)
(* The receive side of src/transport/swp_client_bridge.c against the       *)
(* sliding-window sender of the device, without time: the loop of          *)
(* swp_transport_receive_stream_ex (and the store / drain / SACK part of   *)
(* swp_transport_receive_ex) from its entry reset to its return.           *)
(*                                                                         *)
(* A frame is its absolute position in the response.  The program never    *)
(* sees positions: a frame carries Idx(p), sixteen bits in the code, and   *)
(* every decision below reads indices only.  The serial line keeps order   *)
(* and loses frames (a bad CRC or a byte dropped by the UART loses one).   *)
(* The device and the library calls store_frame, send_sack_ack and         *)
(* handle_sack_ack live in a submodule that is not part of the repository; *)
(* they are modelled from how the bridge uses them.                        *)
(***************************************************************************)
EXTENDS Integers, Sequences

CONSTANTS
  WINDOW_SIZE,      \* slots of recv_window and of the device's send window
  MAX_FRAME_INDEX,  \* frame indices are 0 .. MAX_FRAME_INDEX - 1
  NumFrames,        \* frames of the response (bound)
  WireCap,          \* frames in flight in each direction (bound)
  NoFrame           \* content of a slot whose received flag is false

ASSUME Sizes ==
  /\ WINDOW_SIZE \in Nat \ {0}
  /\ MAX_FRAME_INDEX \in Nat
  /\ MAX_FRAME_INDEX >= 2 * WINDOW_SIZE

ASSUME Bounds ==
  /\ NumFrames \in Nat
  /\ WireCap \in Nat

ASSUME NoFrameFresh == NoFrame \notin Int

VARIABLES
  base, next, sacked,     \* device: oldest unconfirmed frame, next new frame,
                          \* frames of the window it need not send again
  toHost, toDev,          \* frames and SACKs on the line
  recv_window,            \* host: slot i holds the frame i past the expected
  expected_frame_index,   \* host: index of the next frame in order
  pc,                     \* host: "wait", "drain"; "done" or "failed" on return
  delivered               \* frames handed over since the receiver was reset

device == <<base, next, sacked>>
host   == <<recv_window, expected_frame_index, pc, delivered>>
vars   == <<device, toHost, toDev, host>>

Slots == 0 .. WINDOW_SIZE - 1

Idx(p) == p % MAX_FRAME_INDEX

(* Distance from index i forward to index j around the index space. *)
Ahead(i, j) == (j - i) % MAX_FRAME_INDEX

EmptyWindow == [i \in Slots |-> NoFrame]

-----------------------------------------------------------------------------
(* Both ends start from a reset link: init_sliding_window_protocol at open *)
(* and reset_sliding_window_receiver at the entry of the receive call.     *)
Init ==
  /\ base = 0 /\ next = 0 /\ sacked = {}
  /\ toHost = << >> /\ toDev = << >>
  /\ recv_window = EmptyWindow
  /\ expected_frame_index = 0
  /\ pc = "wait"
  /\ delivered = << >>

-----------------------------------------------------------------------------
(* The device. *)

DevSendNew ==
  /\ next < NumFrames
  /\ next < base + WINDOW_SIZE
  /\ Len(toHost) < WireCap
  /\ toHost' = Append(toHost, next)
  /\ next' = next + 1
  /\ UNCHANGED <<base, sacked, toDev, host>>

(* A retransmission timer, or a NACK, makes it send a frame again. *)
DevRetransmit(p) ==
  /\ p \notin sacked
  /\ Len(toHost) < WireCap
  /\ toHost' = Append(toHost, p)
  /\ UNCHANGED <<device, toDev, host>>

(* A SACK names the index the host expects and the slots it holds: the    *)
(* window advances to that index, and held frames are not sent again.     *)
DevHandleSack ==
  /\ toDev # << >>
  /\ LET s == Head(toDev)
         newBase == base + Ahead(Idx(base), s.expected)
     IN  /\ base' = newBase
         /\ sacked' = {p \in newBase .. next - 1 :
                         p \in sacked \/ p - newBase \in s.held}
  /\ toDev' = Tail(toDev)
  /\ UNCHANGED <<next, toHost, host>>

-----------------------------------------------------------------------------
(* The line. *)

LoseFrame ==
  /\ toHost # << >>
  /\ toHost' = Tail(toHost)
  /\ UNCHANGED <<device, toDev, host>>

LoseSack ==
  /\ toDev # << >>
  /\ toDev' = Tail(toDev)
  /\ UNCHANGED <<device, toHost, host>>

-----------------------------------------------------------------------------
(* The host. *)

(* store_frame: a frame inside the window goes to its slot, any other is   *)
(* ignored (a duplicate of a frame already delivered is behind the window).*)
Store(p) ==
  LET offset == Ahead(expected_frame_index, Idx(p))
  IN  IF offset \in Slots
      THEN [recv_window EXCEPT ![offset] = p]
      ELSE recv_window

Receive ==
  /\ pc = "wait"
  /\ toHost # << >>
  /\ recv_window' = Store(Head(toHost))
  /\ toHost' = Tail(toHost)
  /\ pc' = "drain"
  /\ UNCHANGED <<device, toDev, expected_frame_index, delivered>>

Ready ==
  /\ recv_window[0] # NoFrame
  /\ Idx(recv_window[0]) = expected_frame_index

(* Mutant: the last slot is not cleared. *)
ShiftedWindowKeepsLast ==
  [i \in Slots |-> recv_window[IF i = WINDOW_SIZE - 1 THEN i ELSE i + 1]]

ShiftedWindow ==
  [i \in Slots |-> IF i = WINDOW_SIZE - 1 THEN NoFrame ELSE recv_window[i + 1]]

(* Mutant: the expected index is not advanced. *)
PopKeepsExpected ==
  /\ pc = "drain"
  /\ Ready
  /\ delivered' = Append(delivered, recv_window[0])
  /\ recv_window' = ShiftedWindow
  /\ UNCHANGED <<device, toHost, toDev, pc, expected_frame_index>>

(* Mutant: the expected index does not wrap. *)
PopWithoutWrap ==
  /\ pc = "drain"
  /\ Ready
  /\ delivered' = Append(delivered, recv_window[0])
  /\ recv_window' = ShiftedWindow
  /\ expected_frame_index' = expected_frame_index + 1
  /\ UNCHANGED <<device, toHost, toDev, pc>>

(* swp_pop_next_in_order_frame, and one turn of swp_drain_in_order. *)
Pop ==
  /\ pc = "drain"
  /\ Ready
  /\ delivered' = Append(delivered, recv_window[0])
  /\ recv_window' = ShiftedWindow
  /\ expected_frame_index' = (expected_frame_index + 1) % MAX_FRAME_INDEX
  /\ UNCHANGED <<device, toHost, toDev, pc>>

(* The two fields of a SACK are the expected index and the occupied slots. *)
(* The field at is not on the line and no action reads it: it records, for *)
(* the invariants, how many frames had been delivered when it was sent.    *)
Sack ==
  [expected |-> expected_frame_index,
   held     |-> {i \in Slots : recv_window[i] # NoFrame},
   at       |-> Len(delivered)]

(* Mutant: the SACK names the last frame expected plus one. *)
SendSackTooFar ==
  /\ pc = "drain"
  /\ Len(toDev) < WireCap
  /\ toDev' = Append(toDev, [Sack EXCEPT !.expected = (@ + 1) % MAX_FRAME_INDEX])
  /\ pc' = "wait"
  /\ UNCHANGED <<device, toHost, recv_window, expected_frame_index, delivered>>

(* Sent once the drain loop ends, also when the frame brought nothing new. *)
(* swp_drain_in_order ends its loop at a LAST frame too, so a ready frame  *)
(* may be left in the window: SwpStream and SwpReceive say when it ends.   *)
SendSack ==
  /\ pc = "drain"
  /\ Len(toDev) < WireCap
  /\ toDev' = Append(toDev, Sack)
  /\ pc' = "wait"
  /\ UNCHANGED <<device, toHost, recv_window, expected_frame_index, delivered>>

(* The caller has what it wanted (SwpStream and SwpReceive say when), and  *)
(* the call returns without touching the window.                           *)
Complete ==
  /\ pc = "wait"
  /\ pc' = "done"
  /\ UNCHANGED <<device, toHost, toDev, recv_window, expected_frame_index,
                 delivered>>

(* The deadline passes while waiting, or the caller rejects a frame: the   *)
(* receiver is reset and the call fails.                                   *)
GiveUp ==
  /\ pc \in {"wait", "drain"}
  /\ pc' = "failed"
  /\ recv_window' = EmptyWindow
  /\ expected_frame_index' = 0
  /\ UNCHANGED <<device, toHost, toDev, delivered>>

Next ==
  \/ DevSendNew
  \/ \E p \in base .. next - 1 : DevRetransmit(p)
  \/ DevHandleSack
  \/ LoseFrame \/ LoseSack
  \/ Receive \/ Pop \/ SendSack \/ Complete \/ GiveUp

Spec == Init /\ [][Next]_vars

-----------------------------------------------------------------------------
(* Properties. *)

SackType == [expected : 0 .. MAX_FRAME_INDEX - 1, held : SUBSET Slots, at : Nat]

(* Every variable keeps its type; positions on the line and in the window *)
(* are natural numbers.                                                   *)
TypeOK ==
  /\ base \in Nat /\ next \in Nat /\ sacked \subseteq Nat
  /\ toHost \in Seq(Nat)
  /\ toDev \in Seq(SackType)
  /\ recv_window \in [Slots -> Nat \cup {NoFrame}]
  /\ expected_frame_index \in 0 .. MAX_FRAME_INDEX - 1
  /\ pc \in {"wait", "drain", "done", "failed"}
  /\ delivered \in Seq(Nat)

(* The caller receives frames 0, 1, 2, ... without gap, repetition or     *)
(* swap, although sixteen-bit indices repeat and old copies of a frame     *)
(* arrive after the window has moved on.                                   *)
InOrder == \A i \in 1 .. Len(delivered) : delivered[i] = i - 1

HostHas(p) ==
  \/ p < Len(delivered)
  \/ \E i \in Slots : recv_window[i] = p

(* The device drops a frame, or stops resending it, only while the host    *)
(* has it: no frame is forgotten at both ends.  A receiver that gave up    *)
(* threw its window away, so nothing is claimed after that.                *)
AckedIsHeld ==
  pc # "failed" => \A p \in 0 .. next - 1 : p < base \/ p \in sacked => HostHas(p)

(* The link implements the ordered, exactly-once delivery of Delivery,     *)
(* the device's base standing for what it knows to be confirmed.           *)
Promise == INSTANCE Delivery WITH confirmed <- base
ImplementsDelivery == Promise!Spec

-----------------------------------------------------------------------------
(* The inductive invariant behind the properties, in named parts.  E is    *)
(* the position the host expects; its index is all the host keeps.         *)

E == Len(delivered)

Listening == pc \in {"wait", "drain"}

(* The device's window covers the position the host expects. *)
WindowInv ==
  /\ base <= E
  /\ E <= next
  /\ next <= base + WINDOW_SIZE
  /\ sacked \subseteq base .. next - 1

(* The host's index is that of E, and slot i holds frame E + i or nothing. *)
AlignedInv ==
  Listening =>
    /\ expected_frame_index = Idx(E)
    /\ \A i \in Slots :
         recv_window[i] # NoFrame => recv_window[i] = E + i /\ E + i < next

(* A frame on the line is at most one window behind everything the host    *)
(* has and everything sent before it: its index is never taken for that    *)
(* of a frame one lap later.                                               *)
WireInv ==
  \A k \in 1 .. Len(toHost) :
    /\ toHost[k] < next
    /\ E <= toHost[k] + WINDOW_SIZE
    /\ Listening => \A i \in Slots :
         recv_window[i] # NoFrame => E + i < toHost[k] + WINDOW_SIZE
    /\ \A j \in 1 .. k - 1 : toHost[j] < toHost[k] + WINDOW_SIZE

(* SACKs on the line are in order, between what the device knows and what  *)
(* the host has, and claim only frames the host still has.                 *)
SackInv ==
  \A k \in 1 .. Len(toDev) :
    /\ toDev[k].expected = Idx(toDev[k].at)
    /\ base <= toDev[k].at /\ toDev[k].at <= E
    /\ \A j \in 1 .. k - 1 : toDev[j].at <= toDev[k].at
    /\ \A i \in toDev[k].held :
         toDev[k].at + i < next /\ (pc # "failed" => HostHas(toDev[k].at + i))

(* What the device will not send again, the host has. *)
SackedInv == pc # "failed" => \A p \in sacked : HostHas(p)

IInv ==
  /\ TypeOK /\ InOrder /\ WindowInv /\ AlignedInv
  /\ WireInv /\ SackInv /\ SackedInv
=============================================================================
