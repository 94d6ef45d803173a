------------------------------ MODULE Delivery ------------------------------
(***************************************************************************)
(* What the sliding-window link promises to the code above it: the frames  *)
(* of the device's response reach the caller in order and exactly once,    *)
(* and the device is told that a frame arrived only after the caller has   *)
(* it.  Frames are named by their position in the response.                *)
(***************************************************************************)
EXTENDS Naturals, Sequences

VARIABLES
  delivered,   \* frames handed to the caller since the receiver was reset
  confirmed    \* how many leading frames the device knows were delivered

vars == <<delivered, confirmed>>

Init ==
  /\ delivered = << >>
  /\ confirmed = 0

(* The next frame, and only the next one, reaches the caller. *)
Deliver ==
  /\ delivered' = Append(delivered, Len(delivered))
  /\ UNCHANGED confirmed

(* The device learns of frames the caller already has. *)
Confirm ==
  /\ \E c \in confirmed .. Len(delivered) : confirmed' = c
  /\ UNCHANGED delivered

Next == Deliver \/ Confirm

Spec == Init /\ [][Next]_vars

(* A device may start its response again.  It then comes from its first    *)
(* frame, in the same order, to a receiver that was reset.                 *)
Restart == delivered' = << >> /\ confirmed' = 0

RestartableSpec == Init /\ [][Next \/ Restart]_vars
=============================================================================
