---------------------------- MODULE MCSwpStream -----------------------------
(* Responses of a device for SwpStream: one well-formed response of four    *)
(* frames, and responses that break the order of the two sequences.         *)
EXTENDS SwpStream

T  == [class |-> "tree", last |-> FALSE]
TL == [class |-> "tree", last |-> TRUE]
A  == [class |-> "attestation", last |-> FALSE]
AL == [class |-> "attestation", last |-> TRUE]
Err == [class |-> "error", last |-> TRUE]
Other == [class |-> "other", last |-> FALSE]

GoodScripts == { <<T, TL, A, AL>>, <<TL, AL>> }

BadScripts ==
  { <<A, TL, AL>>,        \* attestation before the tree
    <<T, AL>>,            \* the tree never ends
    <<TL, AL, TL>>,       \* a tree after the attestation
    <<TL, A, T, AL>>,     \* a tree frame inside the attestation
    <<TL, TL, AL>>,       \* two trees
    <<TL, AL, AL>>,       \* two attestations
    <<TL, Err>>,          \* the device fails
    <<Other, TL, AL>> }   \* a frame of another command

AllScripts == GoodScripts \cup BadScripts
=============================================================================
