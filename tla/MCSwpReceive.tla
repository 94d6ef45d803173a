---------------------------- MODULE MCSwpReceive ----------------------------
(* Responses of a device for SwpReceive.                                     *)
EXTENDS SwpReceive

Part(n) == [last |-> FALSE, len |-> n]
Final(n) == [last |-> TRUE, len |-> n]

SomeScripts ==
  { <<Part(1), Part(0), Part(1), Final(1)>>,  \* fills the buffer exactly
    <<Part(2), Final(2)>>,           \* one byte too many
    <<Final(0)>>,                    \* an empty ACK
    <<Final(1), Part(1)>> }          \* a frame after the answer
=============================================================================
