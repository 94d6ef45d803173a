------------------------------- MODULE Attest -------------------------------
(***************************************************************************)
(* From the options of a run to the client's verdict: a device that signs  *)
(* with XmssPlatform answers the requests that the client's runs send,     *)
(* keeps answering after a power cycle, and may attach leaf hashes left    *)
(* over from an earlier request; the client, or a later verify, holds a    *)
(* tree of one answer against an attestation of another (Artifacts shows   *)
(* how files come to be mixed) and against the payload of any run, as a    *)
(* run may take the late answer to another (Sessions shows how).           *)
(*                                                                         *)
(* How the device builds its tree is not in the repository: it is taken    *)
(* from what SourceChain expects of it.                                    *)
(***************************************************************************)
EXTENDS XmssPlatform, SourceChain, Requests

CONSTANTS
  Runs,        \* runs of attestation, attestation-file and endorse to make
  Disks,       \* what the payload files may hold at first
  Devices,     \* [depth, flags, word]: depth and security flags of the trees
               \* and what the first word of the public key reads as
  MaxAnswers   \* answers to requests (bound)

ASSUME AttestParameters ==
  /\ \A d \in Devices :
       /\ d.depth \in Nat /\ 2 ^ d.depth \in Nat \ {0}
       /\ d.depth >= 3 => 2 ^ d.depth >= 8
  /\ \A d \in Disks : DOMAIN d = Files /\ \A f \in Files : WellFormed(d[f])
  /\ \A run \in Runs : run.command # "endorse" =>
       {run.payload_cbor, run.payload_file, run.out_payload_cbor} \subseteq Files \cup {NotGiven}
  /\ WellFormed(Torn) /\ Itemised(ExampleSources)

VARIABLES
  device,    \* the device at hand
  answers    \* answers so far, with the run and the request each is for

attestVars == <<pvars, disk, device, answers>>

AttestInit ==
  /\ PlatformInit
  /\ disk \in Disks
  /\ device \in Devices
  /\ answers = << >>

(* Leaves 0 to 4 are the device's own (identity, time, key, epoch, ...)    *)
(* and differ from answer to answer; the slots of the source data follow,  *)
(* as many as there are in the tree, the unused ones zero.                 *)
Leaves == 2 ^ device.depth
SlotCount == IF Leaves = 32 THEN 17 ELSE Leaves - LeafSourceStart

ZeroLeaf == [zeros |-> 32]

LeafHashes(n) ==
  LET source == answers[n].request.source IN
  [leaf \in 1 .. Leaves |->
     LET item == leaf - LeafSourceStart IN
     IF item <= 0 THEN Sha256([answer |-> n, leaf |-> leaf])
     ELSE IF item <= Len(source) /\ item <= SlotCount THEN Sha256(source[item])
     ELSE ZeroLeaf]

(* A tree that says how its leaves are hashed has them hashed that way. *)
TreeLeaves(n) ==
  LET hashes == LeafHashes(n) IN
  [leaf \in 1 .. Leaves |->
     IF device.flags.present
     THEN HashLeaf(hashes[leaf], device.depth, device.flags)
     ELSE hashes[leaf]]

(* The levels between the leaves and the root decide nothing. *)
RootOf(n) == [node |-> TreeLeaves(n)]

TreeOf(n) ==
  [depth |-> device.depth, flags |-> device.flags,
   nodes |-> Append(TreeLeaves(n), RootOf(n))]

AttestationOf(n) ==
  LET a == answers[n] IN
  [pk |-> [word |-> device.word, key |-> a.key], root |-> RootOf(n),
   sig |-> [oid |-> DefaultOid, key |-> a.key, root |-> RootOf(n)],
   leaf_hashes |-> IF a.request.include THEN LeafHashes(a.hashes) ELSE << >>]

(* The verification of attestation is given its payload, that of verify,   *)
(* over the files of endorse, none.                                        *)
NoPayload == [known |-> FALSE, source |-> << >>]
PayloadOf(run) ==
  IF run.command = "endorse" THEN NoPayload ELSE Decoded(VerifyPayload(run))

(* The last answer, and the one to come. *)
Recent == {Len(answers), Len(answers) + 1} \ {0}

(* Mutant: an answer goes out although mcu_xmss_sign failed. *)
AnswerUnsigned(run) ==
  /\ Len(answers) < MaxAnswers /\ initialized
  /\ Sends(run) /\ IsRequest(DeviceReads(run, Sent(run)))
  /\ \E hashes \in Recent :
       answers' = Append(answers, [run |-> run, request |-> DeviceReads(run, Sent(run)),
                                   payload |-> PayloadOf(run), key |-> key, hashes |-> hashes])
  /\ UNCHANGED <<pvars, disk, device>>

(* A run sends a request that decodes and is answered with a tree and an   *)
(* attestation: mcu_xmss_sign over the root, the key of mcu_xmss_get_pk,   *)
(* and leaf hashes, which may be those of the last answer, from a buffer   *)
(* that was not refreshed.                                                 *)
Answer(run) ==
  /\ Len(answers) < MaxAnswers
  /\ Sends(run) /\ IsRequest(DeviceReads(run, Sent(run)))
  /\ Sign
  /\ \E hashes \in Recent :
       answers' = Append(answers, [run |-> run, request |-> DeviceReads(run, Sent(run)),
                                   payload |-> PayloadOf(run), key |-> key, hashes |-> hashes])
  /\ UNCHANGED <<disk, device>>

AttestNext ==
  \/ \E run \in Runs : Answer(run)
  \/ \E run \in Runs : Generates(run) /\ UNCHANGED <<pvars, device, answers>>
  \/ (InitRam \/ TestSignVerify \/ PowerCycle) /\ UNCHANGED <<disk, device, answers>>

AttestSpec == AttestInit /\ [][AttestNext]_attestVars

-----------------------------------------------------------------------------
(* Properties. *)

(* Files and answers keep their shape, and an answer never carries a key   *)
(* the device has not generated.                                           *)
AttestTypeOK ==
  /\ device \in Devices
  /\ DOMAIN disk = Files /\ \A f \in Files : WellFormed(disk[f])
  /\ Itemised(answers) /\ Len(answers) <= Len(signatures)
  /\ \A n \in DOMAIN answers :
       /\ answers[n].run \in Runs /\ Itemised(answers[n].payload.source)
       /\ answers[n].key \in 1 .. generated /\ answers[n].hashes \in {n - 1, n}

(* What attestation verifies an answer against is what the device was      *)
(* asked to sign, whether it was read from a file that an earlier run      *)
(* generated, built from one, or sent as the bare bytes of one.            *)
AsksWhatItVerifies ==
  \A n \in DOMAIN answers :
    answers[n].run.command # "endorse" =>
      answers[n].payload = [known |-> TRUE, source |-> answers[n].request.source]

Payloads == {NoPayload} \cup {answers[n].payload : n \in DOMAIN answers}

(* A tree and an attestation that pass are those of one answer: files of   *)
(* two sessions never pass, whatever the payload (Artifacts!Verifies).     *)
PassIsOneAnswer ==
  \A i, j \in DOMAIN answers, p \in Payloads :
    Passes(TreeOf(i), AttestationOf(j), p) => i = j

(* A pass with a run's payload, for a tree that carries its security       *)
(* flags, says that each item of the run with a slot is the one that was   *)
(* requested and is in the signed tree, even if the answer is that to      *)
(* another run or the device attached leaf hashes of another request.      *)
(* Items beyond the slots are passed over with a warning.                  *)
PassBindsItems ==
  \A i, j \in DOMAIN answers, p \in Payloads :
    /\ device.flags.present
    /\ Passes(TreeOf(i), AttestationOf(j), p)
    => \A n \in 1 .. Len(p.source) :
         n <= SlotCount =>
           /\ n <= Len(answers[i].request.source)
           /\ p.source[n] = answers[i].request.source[n]

(* What the device did right passes: without a payload always, and with    *)
(* the payload of its own run if the leaf hashes were asked for.  Only a   *)
(* key sent without its OID that happens to begin like one is refused.     *)
GenuinePasses ==
  \A n \in DOMAIN answers :
    LET a == answers[n] IN
    device.word = DefaultOid \/ device.word \notin KnownOids =>
      /\ Passes(TreeOf(n), AttestationOf(n), NoPayload)
      /\ a.request.include /\ a.hashes = n => Passes(TreeOf(n), AttestationOf(n), a.payload)

(* Each item that endorse sends has a slot in a tree of depth three, where *)
(* four items would not (cmd_endorse.cpp:95): none is passed over.         *)
EndorsementsFit ==
  \A n \in DOMAIN answers :
    answers[n].run.command = "endorse" /\ device.depth >= 3 =>
      Len(answers[n].request.source) <= SlotCount
=============================================================================
