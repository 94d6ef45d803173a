------------------------------ MODULE Requests ------------------------------
(***************************************************************************)
(* What attestation, attestation-file and endorse ask the device to sign,  *)
(* and what attestation later verifies the answer against.                 *)
(*                                                                         *)
(* A run is known by its options: payload files, or the values of endorse, *)
(* NotGiven where one is missing.  A value that is not hex is refused like *)
(* one that is missing.  Bytes are [source, include], the encoding of a    *)
(* signing request, or other [data].  An encoding never fails: its buffer  *)
(* starts larger than what it must hold.                                   *)
(***************************************************************************)
EXTENDS Integers, Sequences

CONSTANTS
  Files,           \* names of payload files
  NotGiven,        \* an option that is not given
  Empty,           \* the bytes of an empty or a missing file
  ExampleSources,  \* the source data of a request made without a file
  Time,            \* std::time
  Torn             \* the bytes of a file whose writing failed half-way

VARIABLE disk      \* the payload files

(* CBOR [[item, ...], true], a signing request. *)
SignPayload(source) == [source |-> source, include |-> TRUE]

IsRequest(bytes) == DOMAIN bytes = {"source", "include"}

(* A sequence, whatever its items; bytes whose items are in sequence. *)
Itemised(source) == source \in Seq({source[i] : i \in DOMAIN source})
WellFormed(bytes) == bytes # Empty /\ IsRequest(bytes) => Itemised(bytes.source)

IsFileMode(run) == run.command = "attestation-file"

-----------------------------------------------------------------------------
(* attestation and attestation-file. *)

(* Options that exclude one another, a missing one, or an unreadable file. *)
AttestationRefused(run) ==
  \/ run.payload_cbor # NotGiven /\ run.out_payload_cbor # NotGiven
  \/ run.payload_cbor # NotGiven /\ run.payload_file # NotGiven
  \/ IsFileMode(run) /\ run.payload_cbor # NotGiven
  \/ IsFileMode(run) /\ run.payload_file = NotGiven
  \/ run.payload_cbor # NotGiven /\ disk[run.payload_cbor] = Empty
  \/ run.payload_file # NotGiven /\ disk[run.payload_file] = Empty

(* The payload that is kept for the verification, or written to            *)
(* --out-payload-cbor.                                                     *)
VerifyPayload(run) ==
  CASE run.payload_cbor # NotGiven -> disk[run.payload_cbor]
    [] run.payload_file # NotGiven -> SignPayload(<<disk[run.payload_file]>>)
    [] OTHER -> SignPayload(ExampleSources)

(* Mutant: attestation-file sends the encoded request as if it were data. *)
WirePayloadEncoded(run) == VerifyPayload(run)

(* attestation-file sends the bytes of the file as they are. *)
WirePayload(run) ==
  IF IsFileMode(run) THEN disk[run.payload_file] ELSE VerifyPayload(run)

(* The payload is only written to a file, whole or not, and nothing sent. *)
Generates(run) ==
  /\ run.command # "endorse" /\ run.out_payload_cbor # NotGiven
  /\ ~AttestationRefused(run)
  /\ \E bytes \in {VerifyPayload(run), Torn, Empty} :
       disk' = [disk EXCEPT ![run.out_payload_cbor] = bytes]

-----------------------------------------------------------------------------
(* endorse. *)

HasBuildArgs(run) ==
  \/ run.org_id # NotGiven \/ run.org_pk # NotGiven
  \/ run.not_before # NotGiven \/ run.not_after # NotGiven

EndorseRefused(run) ==
  IF run.data_hex # NotGiven
  THEN HasBuildArgs(run)
  ELSE run.org_id = NotGiven \/ run.org_pk = NotGiven

Seconds(value) == IF value = NotGiven THEN 0 ELSE value
NotBefore(run) ==
  IF Seconds(run.not_before) <= 0 THEN Time ELSE Seconds(run.not_before)
NotAfter(run) == Seconds(run.not_after)

BuilderPayloadSplit(run) ==   \* mutant: as README.md:194 puts it
  SignPayload(<<[data |-> run.org_id], [data |-> run.org_pk],
                [data |-> <<NotBefore(run)>>], [data |-> <<NotAfter(run)>>]>>)

(* Two items of two values each, so that a tree of depth three has a slot  *)
(* for both.                                                               *)
BuilderPayload(run) ==
  SignPayload(<<[data |-> run.org_id \o run.org_pk],
                [data |-> <<NotBefore(run), NotAfter(run)>>]>>)

EndorsePayload(run) ==
  IF run.data_hex # NotGiven THEN SignPayload(<<[data |-> run.data_hex]>>) ELSE BuilderPayload(run)

-----------------------------------------------------------------------------
(* What is sent, and how the device reads it: FLAG_SIGN carries an encoded *)
(* request, FLAG_SIGN_FILE the one item itself.                            *)

Sends(run) ==
  IF run.command = "endorse" THEN ~EndorseRefused(run)
  ELSE ~AttestationRefused(run) /\ run.out_payload_cbor = NotGiven

Sent(run) ==
  IF run.command = "endorse" THEN EndorsePayload(run) ELSE WirePayload(run)

(* decode_source_data_from_payload; bytes that do not decode count as none *)
(* given.                                                                  *)
Decoded(bytes) ==
  [known |-> IsRequest(bytes), source |-> IF IsRequest(bytes) THEN bytes.source ELSE << >>]

DeviceReads(run, bytes) ==
  IF IsFileMode(run) THEN SignPayload(<<bytes>>) ELSE bytes
=============================================================================
