----------------------------- MODULE SourceChain -----------------------------
(***************************************************************************)
(* verify_attestation_bundle_verbose as operators: which items of the      *)
(* source data are compared with which leaves of the tree, and when a tree *)
(* and an attestation pass.                                                *)
(*                                                                         *)
(* A tree is [depth, flags, nodes], its nodes stored from the leaves up to *)
(* the root; an attestation is [pk, root, sig, leaf_hashes], pk and sig    *)
(* Absent when they are empty; a payload is [known, source], known when    *)
(* one was given and decodes.  Hashes are ideal: equal for equal inputs    *)
(* only.  Printing (labels, validation data, the timestamp leaf) decides   *)
(* nothing and is left out.                                                *)
(***************************************************************************)
EXTENDS Integers, Sequences

CONSTANTS
  KnownOids,    \* key types that xmssmt_parse_oid knows
  DefaultOid    \* 0x00000005, XMSSMT-SHA2_40/8_256

ASSUME OidParameters == DefaultOid \in KnownOids

-----------------------------------------------------------------------------
(* An empty byte string. *)
Absent == << >>

(* Hashing. *)

Sha256(data) == [sha256 |-> data]

(* hash_leaf: what comes before the data depends on the tree's flags. *)
HashLeaf(data, depth, flags) ==
  LET prefix == (IF flags.use_node_prefix THEN <<0>> ELSE << >>) \o
                (IF flags.use_depth_prefix THEN <<depth % 256>> ELSE << >>)
      digest == Sha256([prefix |-> prefix, data |-> data])
  IN  IF flags.use_double_leaf_hash THEN Sha256(digest) ELSE digest

(* Entry pos of a vector, counted from nought; out of range has no value. *)
Has(vector, pos) == pos < Len(vector)
Entry(vector, pos) == vector[pos + 1]

-----------------------------------------------------------------------------
(* Slots of the source data.  Item i of the source data, from 1, belongs   *)
(* to leaf LeafPos(i).  leaves is 1 << depth.                              *)

LeafSourceStart == 5

LeafPos(i) == LeafSourceStart + i - 1

LeafSourceEndIncluded(leaves, count) ==   \* mutant: one slot too many
  IF leaves = 32 THEN 22
  ELSE IF LeafPos(count) < leaves THEN LeafPos(count) ELSE leaves

LeafSourceEnd(leaves, count) ==
  IF leaves = 32 THEN 21
  ELSE IF LeafPos(count) < leaves - 1 THEN LeafPos(count) ELSE leaves - 1

(* The items the loop reaches: it stops, with a warning, at the first that *)
(* has no slot.                                                            *)
CrossChecked(leaves, count) ==
  {i \in 1 .. count : LeafPos(i) <= LeafSourceEnd(leaves, count)}

L1(attestation, source, i) ==
  /\ Has(attestation.leaf_hashes, LeafPos(i))
  /\ Entry(attestation.leaf_hashes, LeafPos(i)) = Sha256(source[i])

L2Skipped(tree, attestation, i) == TRUE   \* mutant

(* Checked only in a tree that says how its leaves are hashed. *)
L2(tree, attestation, i) ==
  tree.flags.present =>
    /\ Has(tree.nodes, LeafPos(i))
    /\ Entry(tree.nodes, LeafPos(i)) =
         HashLeaf(Entry(attestation.leaf_hashes, LeafPos(i)), tree.depth, tree.flags)

(* A payload that does not decode is treated like none: nothing to check. *)
SourceChainOK(tree, attestation, payload) ==
  payload.known =>
    \A i \in CrossChecked(2 ^ tree.depth, Len(payload.source)) :
      L1(attestation, payload.source, i) /\ L2(tree, attestation, i)

-----------------------------------------------------------------------------
(* The signature.  pk is [word, key]: what its first four bytes mean as an *)
(* OID, and the key pair; sig is [oid, key, root].                         *)

(* A first word that is no known OID stands for the default one, and the   *)
(* key may come with its OID in front or without.                          *)
OidUsed(pk) == IF pk.word \in KnownOids THEN pk.word ELSE DefaultOid

(* stardome_xmss_verify_detached: the lengths of key and signature must be *)
(* those of the OID, and no two OIDs have signatures of the same length.   *)
VerifyDetached(pk, root, sig) ==
  /\ sig.oid = OidUsed(pk)
  /\ sig.key = pk.key /\ sig.root = root

VerifyXmssSignature(attestation, root) ==
  /\ attestation.sig # Absent
  /\ attestation.root = root
  /\ attestation.pk # Absent
  /\ VerifyDetached(attestation.pk, attestation.root, attestation.sig)

(* Mutant: the attested root is used in place of the tree's. *)
PassesAttestedRoot(tree, attestation, payload) ==
  /\ tree.nodes # << >>
  /\ SourceChainOK(tree, attestation, payload)
  /\ VerifyXmssSignature(attestation, attestation.root)

(* The verdict on a tree and an attestation that both decode. *)
Passes(tree, attestation, payload) ==
  /\ tree.nodes # << >>
  /\ LET calculated_root == tree.nodes[Len(tree.nodes)] IN
     /\ calculated_root = attestation.root
     /\ SourceChainOK(tree, attestation, payload)
     /\ VerifyXmssSignature(attestation, calculated_root)
=============================================================================
