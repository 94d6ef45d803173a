--------------------------- MODULE FaultInjection ---------------------------
(***************************************************************************)
(* The way of a request to the wire: send_frame_struct with the faults of  *)
(* --malform-count and --malform-kind, and, below it, the tracker of       *)
(* serial_port_linux.cpp that counts the bytes of outgoing frames and      *)
(* pauses after a small one.  Both keep their state in globals.            *)
(*                                                                         *)
(* The library decides when a frame is sent, sent again and forgotten; it  *)
(* and the device are modelled from how the bridge uses them.  It notes a  *)
(* frame in send_window after send_frame_struct returns.  A frame is its   *)
(* position in the request; what arrives, arrives at once.                 *)
(***************************************************************************)
EXTENDS Integers, Sequences, FiniteSets

CONSTANTS
  WINDOW_SIZE, MAX_FRAME_INDEX,
  SmallFrame,     \* kSmallFrameMaxWireBytes
  Requests,       \* requests: sequences of [wire, empty] frames
  MaxCount,       \* --malform-count (bound)
  MaxSessions,    \* sessions of one process (bound)
  MaxLost,        \* intact frames the line loses (bound)
  MaxFailed       \* frames of which a byte cannot be written (bound)

ASSUME FaultSizes ==
  /\ WINDOW_SIZE \in Nat \ {0} /\ MAX_FRAME_INDEX \in Nat
  /\ MAX_FRAME_INDEX >= 2 * WINDOW_SIZE + 3
ASSUME FaultBounds ==
  {SmallFrame, MaxCount, MaxSessions, MaxLost, MaxFailed} \subseteq Nat

(* A frame has bytes between its delimiters, and a control frame has too;  *)
(* a request is shorter than the index space.                              *)
RequestFrame == [wire : Nat \ 0 .. 2, empty : BOOLEAN]
ASSUME FaultRequests ==
  /\ SmallFrame >= 3
  /\ \A r \in Requests : r \in Seq(RequestFrame) /\ Len(r) <= MAX_FRAME_INDEX

VARIABLES
  configured_count, remaining_count, injected_count, kind,  \* g_swp_malform
  open,            \* the port is open
  request,         \* frames of the request of this session
  base, next,      \* library: oldest unconfirmed frame, next new frame
  send_window,     \* library: per slot, whether and which frame was sent
  tracker,         \* g_tx_in_frame, g_tx_frame_wire_bytes, and pauses made
  tx,              \* the last transmission of the session
  clean,           \* no boundary or body byte is missing in this session
  stored,          \* device: [at, p]: frame p is held as frame at
  sessions, lost, failed

malform == <<configured_count, remaining_count, injected_count, kind>>
library == <<request, base, next, send_window>>
fvars == <<malform, open, library, tracker, tx, clean, stored, sessions, lost, failed>>

Slots == 0 .. WINDOW_SIZE - 1
Idx(p) == p % MAX_FRAME_INDEX
Frame(p) == request[p + 1]

(* kKinds, the kinds that "all" goes through. *)
kKinds == <<"crc_payload", "crc_header", "token_bad", "len_over",
            "len_mismatch", "seq_jump", "encoding_invalid", "truncate_tail">>
Kinds == {kKinds[i] : i \in DOMAIN kKinds} \cup {"none", "all"}

NotSent == [sent |-> FALSE, index |-> 0]
OutOfFrame == [in_frame |-> FALSE, wire_bytes |-> 0, pauses |-> 0]
NoTx == [p |-> -1, first |-> FALSE, fault |-> "none", wire |-> 0,
         inside |-> 0, after |-> 0]

Init ==
  /\ configured_count = 0 /\ remaining_count = 0 /\ injected_count = 0
  /\ kind = "none"
  /\ open = FALSE
  /\ request = << >> /\ base = 0 /\ next = 0
  /\ send_window = [s \in Slots |-> NotSent]
  /\ tracker = OutOfFrame
  /\ tx = NoTx /\ clean = TRUE /\ stored = {}
  /\ sessions = 0 /\ lost = 0 /\ failed = 0

-----------------------------------------------------------------------------
(* A session: swp_transport_configure_malform, then swp_transport_open,    *)
(* and at its end swp_transport_close.                                     *)

Configures(count, k) ==
  /\ ~open
  /\ configured_count' = count
  /\ remaining_count' = count
  /\ injected_count' = 0
  /\ kind' = IF count = 0 THEN "none" ELSE k
  /\ UNCHANGED <<open, library, tracker, tx, clean, stored, sessions, lost, failed>>

Opens(r) ==
  /\ ~open /\ sessions < MaxSessions
  /\ sessions' = sessions + 1
  /\ open' = TRUE
  /\ remaining_count' = configured_count
  /\ injected_count' = 0
  /\ tracker' = OutOfFrame
  /\ request' = r /\ base' = 0 /\ next' = 0
  /\ send_window' = [s \in Slots |-> NotSent]
  /\ tx' = NoTx /\ clean' = TRUE /\ stored' = {}
  /\ UNCHANGED <<configured_count, kind, lost, failed>>

Closes ==
  /\ open
  /\ open' = FALSE
  /\ tracker' = OutOfFrame
  /\ tx' = NoTx
  /\ UNCHANGED <<malform, library, clean, stored, sessions, lost, failed>>

-----------------------------------------------------------------------------
(* swp_should_malform_frame, and the fault it chooses. *)

ForgetsRetransmits(p) == remaining_count > 0 /\ kind # "none"   \* mutant

Malforms(p) ==
  /\ remaining_count > 0 /\ kind # "none"
  /\ LET slot == send_window[Idx(p) % WINDOW_SIZE]
     IN  ~(slot.sent /\ slot.index = Idx(p))

EffectiveKind ==
  IF kind = "all" THEN kKinds[(injected_count % Len(kKinds)) + 1] ELSE kind

JumpInsideWindow(p) == Idx(p + 3)   \* mutant: the window is not added
JumpedIndex(p) == Idx(p + WINDOW_SIZE + 3)

NoteFrameByteOnce(t) ==   \* mutant: the byte count is not started anew
  IF t.in_frame
  THEN [t EXCEPT !.in_frame = FALSE,
                 !.pauses = @ + IF t.wire_bytes + 1 <= SmallFrame THEN 1 ELSE 0]
  ELSE [t EXCEPT !.in_frame = TRUE, !.wire_bytes = @ + 1]

NoteFrameByteStrict(t) ==   \* mutant: a frame of the limit's size is not small
  IF t.in_frame
  THEN [in_frame |-> FALSE, wire_bytes |-> 0,
        pauses |-> t.pauses + IF t.wire_bytes + 1 < SmallFrame THEN 1 ELSE 0]
  ELSE [t EXCEPT !.in_frame = TRUE, !.wire_bytes = 1]

(* serial_note_tx_byte for a frame delimiter ... *)
NoteFrameByte(t) ==
  IF t.in_frame
  THEN [in_frame |-> FALSE, wire_bytes |-> 0,
        pauses |-> t.pauses + IF t.wire_bytes + 1 <= SmallFrame THEN 1 ELSE 0]
  ELSE [t EXCEPT !.in_frame = TRUE, !.wire_bytes = 1]

(* ... and for n other bytes. *)
NoteBytes(t, n) == IF t.in_frame THEN [t EXCEPT !.wire_bytes = @ + n] ELSE t

(* The tracker when the opening byte is out, before and after the closing  *)
(* byte; missing are the bytes that were not written.                      *)
AfterOpening(missing) ==
  LET t == [tracker EXCEPT !.pauses = 0]
  IN  IF "open" \in missing THEN t ELSE NoteFrameByte(t)
BeforeClosing(wire, missing) ==
  NoteBytes(AfterOpening(missing), wire - 2 - IF "body" \in missing THEN 1 ELSE 0)
AfterClosing(wire, missing) ==
  IF "close" \in missing THEN BeforeClosing(wire, missing)
  ELSE NoteFrameByte(BeforeClosing(wire, missing))

(* Bytes on the wire: a failed write of a byte is noticed by nobody. *)
Emits(p, first, fault, wire) ==
  \E unwritten \in SUBSET {"open", "body", "close"} :
    LET missing == unwritten \cup (IF fault = "truncate_tail" THEN {"close"} ELSE {})
        before == BeforeClosing(wire, missing)
        end == AfterClosing(wire, missing)
    IN  /\ failed' = failed + (IF unwritten = {} THEN 0 ELSE 1)
        /\ failed' <= MaxFailed
        /\ clean' = (clean /\ missing = {})
        /\ tracker' = [end EXCEPT !.pauses = 0]
        /\ tx' = [p |-> p, first |-> first, fault |-> fault, wire |-> wire,
                  inside |-> before.pauses, after |-> end.pauses - before.pauses]

(* What the device may see: nothing, or frame p under an index.  The CRC   *)
(* covers the header as it was altered, except for crc_header.  A frame    *)
(* without its end may yet be ended by the next one.  A crc_payload fault  *)
(* flips a bit of the payload, if there is one.                            *)
Arrivals(p, fault) ==
  CASE fault = "none" \/ (fault = "crc_payload" /\ Frame(p).empty) -> {Idx(p)}
    [] fault = "seq_jump"      -> {JumpedIndex(p)}
    [] fault = "truncate_tail" -> {Idx(p), -1}
    [] OTHER                   -> {-1}

(* Frames the device has in order, and what its window then takes. *)
Complete ==
  CHOOSE n \in 0 .. Len(request) :
    /\ \A i \in 0 .. n - 1 : \E f \in stored : f.at = i
    /\ ~\E f \in stored : f.at = n
DeviceTakes(p, index) ==
  {[at |-> at, p |-> p] : at \in
     {a \in Complete .. Complete + WINDOW_SIZE - 1 :
        Idx(a) = index /\ \A f \in stored : f.at # a}}

Arrives(p, fault) ==
  \/ \E index \in Arrivals(p, fault) :
       /\ stored' = stored \cup DeviceTakes(p, index)
       /\ failed' = failed   \* a frame with a byte missing is dropped
       /\ UNCHANGED lost
  \/ /\ failed' = failed => lost < MaxLost
     /\ lost' = lost + (IF failed' = failed THEN 1 ELSE 0)
     /\ UNCHANGED stored

(* send_frame_struct *)
Transmits(p, first) ==
  LET fault == IF Malforms(p) THEN EffectiveKind ELSE "none"
  IN  /\ remaining_count' = remaining_count - IF Malforms(p) THEN 1 ELSE 0
      /\ injected_count' = injected_count + IF Malforms(p) THEN 1 ELSE 0
      /\ Emits(p, first, fault, Frame(p).wire)
      /\ Arrives(p, fault)
      /\ send_window' = [send_window EXCEPT ![Idx(p) % WINDOW_SIZE] =
                           [sent |-> TRUE, index |-> Idx(p)]]
      /\ UNCHANGED <<configured_count, kind, open, request, base, sessions>>

SendsNew ==
  /\ open /\ next < Len(request) /\ next < base + WINDOW_SIZE
  /\ Transmits(next, TRUE)
  /\ next' = next + 1

Resends(p) ==
  /\ open /\ p \in base .. next - 1
  /\ Transmits(p, FALSE)
  /\ UNCHANGED next

(* An ACK or NACK of the library's own goes through the tracker only. *)
SendsControl ==
  /\ open
  /\ Emits(-1, FALSE, "none", SmallFrame)
  /\ UNCHANGED <<malform, open, library, stored, sessions, lost>>

DeviceAcks ==
  /\ open /\ base < Complete
  /\ base' = IF Complete < next THEN Complete ELSE next
  /\ base' # base
  /\ UNCHANGED <<malform, open, request, next, send_window, tracker, tx, clean,
                 stored, sessions, lost, failed>>

Next ==
  \/ \E count \in 0 .. MaxCount, k \in Kinds : Configures(count, k)
  \/ \E r \in Requests : Opens(r)
  \/ Closes
  \/ SendsNew
  \/ \E p \in 0 .. Len(request) - 1 : Resends(p)
  \/ SendsControl \/ DeviceAcks

Spec == Init /\ [][Next]_fvars

-----------------------------------------------------------------------------
(* Properties. *)

(* Variables keep their types; the tracker is idle while the port is       *)
(* closed, and while a session has lost no byte it is idle between frames. *)
FaultTypeOK ==
  /\ configured_count \in 0 .. MaxCount /\ remaining_count \in 0 .. MaxCount
  /\ injected_count \in 0 .. MaxCount /\ kind \in Kinds
  /\ remaining_count + injected_count = configured_count
  /\ open \in BOOLEAN /\ clean \in BOOLEAN
  /\ base \in 0 .. Len(request) /\ next \in base .. Len(request)
  /\ send_window \in [Slots -> [sent : BOOLEAN, index : 0 .. MAX_FRAME_INDEX - 1]]
  /\ tracker.in_frame \in BOOLEAN /\ tracker.wire_bytes \in Nat
  /\ ~open \/ clean => tracker = OutOfFrame

(* A session spoils the first copies of its first configured_count frames  *)
(* and nothing else - no retransmission, no later frame - and "all" goes   *)
(* through the kinds in their order, from the first in every session.      *)
FaultsHitFirstCopies ==
  tx.p >= 0 =>
    /\ tx.fault # "none" <=>
         kind # "none" /\ tx.first /\ tx.p < configured_count
    /\ tx.fault # "none" =>
         tx.fault = IF kind = "all" THEN kKinds[(tx.p % Len(kKinds)) + 1] ELSE kind

(* No fault makes the device take a frame for another: an index that       *)
(* jumps is outside every window the device may have by then.              *)
DeviceTakesTrueFrames == \A f \in stored : f.at = f.p

(* In a session that lost no byte, the port drains and pauses once after   *)
(* every small frame, and nowhere else, whatever earlier sessions left in  *)
(* the tracker.                                                            *)
PausesAfterSmallFrames ==
  clean /\ tx # NoTx =>
    tx.inside = 0 /\ tx.after = IF tx.wire <= SmallFrame THEN 1 ELSE 0

=============================================================================
