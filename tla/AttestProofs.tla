---------------------------- MODULE AttestProofs -----------------------------
(***************************************************************************)
(* Proofs about XmssPlatform, for every size of the index space and any    *)
(* number of key generations, signatures and power cycles, and about       *)
(* Attest, for every tree, every request, every content of the payload     *)
(* files and any number of answers.                                        *)
(***************************************************************************)
EXTENDS Attest, TLAPS, SequenceTheorems

-----------------------------------------------------------------------------
(* The platform alone. *)

(* Two numbers with one remainder are a whole modulus apart. *)
LEMMA SameRemainder ==
  ASSUME NEW m \in Nat \ {0}, NEW x \in Nat, NEW y \in Nat, x < y, x % m = y % m
  PROVE  y - x >= m
<1> DEFINE qx == x \div m
           qy == y \div m
           X == qx * m
           Y == qy * m
           r == x % m
<1>1. x = X + r /\ y = Y + r /\ r \in Int /\ qx \in Int /\ qy \in Int
  OBVIOUS
<1>2. (qy - qx) * m = Y - X /\ X \in Int /\ Y \in Int
  BY <1>1
<1>3. ASSUME qy <= qx PROVE FALSE
  <2>1. qx - qy \in Nat /\ (qx - qy) * m >= 0
    BY <1>1, <1>3
  <2>2. (qx - qy) * m = X - Y
    BY <1>1
  <2> HIDE DEF X, Y, r, qx, qy
  <2> QED
    BY <1>1, <1>2, <2>1, <2>2
<1>4. qy - qx - 1 \in Nat
  BY <1>1, <1>3
<1>5. (qy - qx - 1) * m >= 0 /\ (qy - qx - 1) * m = (qy - qx) * m - m
  BY <1>1, <1>4
<1> HIDE DEF X, Y, r, qx, qy
<1> QED
  BY <1>1, <1>2, <1>5

(* An index written by set_sk_index fits the index bytes. *)
LEMMA SkIndexRange ==
  ASSUME NEW i \in Nat
  PROVE  SkIndex(i) \in 0 .. IndexSpace - 1
BY PlatformParameters DEF SkIndex

-----------------------------------------------------------------------------
(* The signatures of the key at hand are the last ram_index ones, made     *)
(* with the indices from nought up; all earlier ones are of other keys.    *)

Older == Len(signatures) - ram_index

CurrentKeyCounts ==
  initialized =>
    /\ ram_index <= Len(signatures)
    /\ \A i \in 1 .. Older : signatures[i].key < key
    /\ \A i \in Older + 1 .. Len(signatures) :
         signatures[i] = [key |-> key, index |-> SkIndex(i - 1 - Older)]

PlatformInv ==
  /\ PlatformTypeOK
  /\ CurrentKeyCounts
  /\ OneTimeKeysOnce

Signature == [key : 1 .. generated, index : 0 .. IndexSpace - 1]

LEMMA InitPlatformInv == PlatformInit => PlatformInv
<1> SUFFICES ASSUME PlatformInit
             PROVE  PlatformInv
  OBVIOUS
<1>1. /\ initialized = FALSE /\ key = 0 /\ ram_index = 0 /\ generated = 0
      /\ signatures = << >>
  BY DEF PlatformInit
<1>2. signatures \in Seq(Signature) /\ DOMAIN signatures = {}
  BY <1>1, EmptySeq
<1>3. PlatformTypeOK
  <2>1. initialized \in BOOLEAN /\ generated \in Nat /\ ram_index \in Nat
    BY <1>1
  <2>2. key \in 0 .. generated /\ (initialized <=> key # 0)
    BY <1>1
  <2> QED
    BY <1>1, <1>2, <2>1, <2>2 DEF PlatformTypeOK, Signature
<1>4. CurrentKeyCounts /\ OneTimeKeysOnce
  BY <1>1, <1>2 DEF CurrentKeyCounts, OneTimeKeysOnce
<1> QED
  BY <1>3, <1>4 DEF PlatformInv

(* A signature takes the next index of the current key. *)
LEMMA SignStep ==
  ASSUME PlatformInv, Sign
  PROVE  PlatformInv'
<1> DEFINE n == Len(signatures)
           s == [key |-> key, index |-> SkIndex(ram_index)]
<1>1. /\ PlatformTypeOK /\ CurrentKeyCounts /\ OneTimeKeysOnce
      /\ initialized /\ key \in 1 .. generated /\ ram_index \in Nat
      /\ signatures \in Seq(Signature) /\ n \in Nat
  BY LenProperties DEF PlatformInv, PlatformTypeOK, Sign, Signature
<1>2. /\ signatures' = Append(signatures, s)
      /\ ram_index' = ram_index + 1
      /\ UNCHANGED <<initialized, key, generated>>
  BY DEF Sign
<1>3. s \in Signature
  BY <1>1, SkIndexRange DEF Signature
<1>4. /\ signatures' \in Seq(Signature)
      /\ Len(signatures') = n + 1
      /\ \A i \in 1 .. n : signatures'[i] = signatures[i]
      /\ signatures'[n + 1] = s
  BY <1>1, <1>2, <1>3, AppendProperties
<1>5. /\ Older' = Older /\ Older \in 0 .. n
      /\ \A i \in 1 .. Older : signatures[i].key < key
      /\ \A i \in Older + 1 .. n :
           signatures[i] = [key |-> key, index |-> SkIndex(i - 1 - Older)]
  BY <1>1, <1>2, <1>4 DEF Older, CurrentKeyCounts
<1>6. PlatformTypeOK'
  BY <1>1, <1>2, <1>4 DEF PlatformTypeOK, Signature
<1>7. CurrentKeyCounts'
  <2>1. ram_index' <= Len(signatures')
    BY <1>1, <1>2, <1>4 DEF CurrentKeyCounts
  <2>2. \A i \in 1 .. Older : signatures'[i].key < key'
    BY <1>1, <1>2, <1>4, <1>5 DEF CurrentKeyCounts
  <2>3. ASSUME NEW i \in Older + 1 .. n + 1
        PROVE  signatures'[i] = [key |-> key, index |-> SkIndex(i - 1 - Older)]
    <3>1. CASE i = n + 1
      <4>1. i - 1 - Older = ram_index
        BY <1>1, <3>1 DEF Older
      <4> QED
        BY <1>4, <3>1, <4>1
    <3>2. CASE i \in Older + 1 .. n
      BY <1>1, <1>4, <1>5, <3>2 DEF CurrentKeyCounts
    <3> QED
      BY <1>1, <1>5, <3>1, <3>2
  <2> QED
    BY <1>2, <1>4, <1>5, <2>1, <2>2, <2>3 DEF CurrentKeyCounts
<1>8. OneTimeKeysOnce'
  <2> SUFFICES ASSUME NEW i \in 1 .. n + 1, NEW j \in 1 .. n + 1, i < j,
                      signatures'[i] = signatures'[j]
               PROVE  j - i >= IndexSpace
    BY <1>4 DEF OneTimeKeysOnce
  <2>1. CASE j <= n
    BY <1>1, <1>4, <2>1 DEF OneTimeKeysOnce
  <2>2. CASE j = n + 1 /\ i \in 1 .. Older
    <3>1. signatures'[i].key < key /\ signatures'[j].key = key /\ key \in Int
      BY <1>1, <1>4, <1>5, <2>2
    <3> QED
      BY <3>1
  <2>3. CASE j = n + 1 /\ i \in Older + 1 .. n
    <3>1. signatures'[i].index = SkIndex(i - 1 - Older)
      <4>1. signatures'[i] = signatures[i]
        BY <1>4, <2>3
      <4>2. signatures[i] = [key |-> key, index |-> SkIndex(i - 1 - Older)]
        BY <1>5, <2>3
      <4> QED
        BY <4>1, <4>2
    <3>2. signatures'[i].index = SkIndex(ram_index)
      BY <1>4, <2>3
    <3>3. i - 1 - Older \in Nat /\ i - 1 - Older < ram_index
      BY <1>1, <1>5, <2>3 DEF Older
    <3>4. ram_index - (i - 1 - Older) >= IndexSpace
      BY <1>1, <3>1, <3>2, <3>3, PlatformParameters, SameRemainder DEF SkIndex
    <3> QED
      BY <1>1, <2>3, <3>4 DEF Older
  <2> QED
    BY <1>1, <1>5, <2>1, <2>2, <2>3
<1> QED
  BY <1>6, <1>7, <1>8 DEF PlatformInv

(* A new key has signed nothing. *)
LEMMA InitRamStep ==
  ASSUME PlatformInv, InitRam
  PROVE  PlatformInv'
<1>1. /\ PlatformTypeOK /\ OneTimeKeysOnce /\ generated \in Nat
      /\ signatures \in Seq(Signature)
  BY DEF PlatformInv, PlatformTypeOK, Signature
<1>2. /\ initialized' = TRUE /\ ram_index' = 0 /\ signatures' = signatures
      /\ generated' = generated + 1 /\ key' = generated + 1
  BY DEF InitRam
<1>3. \A i \in DOMAIN signatures : signatures[i] \in Signature
  BY <1>1, ElementOfSeq
<1>4. Len(signatures) \in Nat /\ DOMAIN signatures = 1 .. Len(signatures)
  BY <1>1, LenProperties
<1>5. \A i \in DOMAIN signatures : signatures[i].key < key'
  BY <1>1, <1>2, <1>3 DEF Signature
<1>6. Signature \subseteq Signature'
  BY <1>1, <1>2 DEF Signature
<1>7. signatures' \in Seq(Signature')
  <2> HIDE DEF Signature
  <2> QED
    BY <1>1, <1>2, <1>6
<1>8. PlatformTypeOK'
  BY <1>1, <1>2, <1>7 DEF PlatformTypeOK, Signature
<1>9. CurrentKeyCounts'
  BY <1>2, <1>4, <1>5 DEF CurrentKeyCounts, Older
<1>10. OneTimeKeysOnce'
  BY <1>1, <1>2 DEF OneTimeKeysOnce
<1> QED
  BY <1>8, <1>9, <1>10 DEF PlatformInv

(* Without a key there is nothing to count. *)
LEMMA PowerCycleStep ==
  ASSUME PlatformInv, PowerCycle
  PROVE  PlatformInv'
<1>1. /\ initialized' = FALSE /\ key' = 0 /\ ram_index' = 0
      /\ generated' = generated /\ signatures' = signatures
  BY DEF PowerCycle
<1>2. /\ PlatformTypeOK /\ OneTimeKeysOnce /\ generated \in Nat
      /\ signatures \in Seq(Signature)
  BY DEF PlatformInv, PlatformTypeOK, Signature
<1>3. PlatformTypeOK'
  <2>1. (initialized \in BOOLEAN)' /\ (generated \in Nat)' /\ (ram_index \in Nat)'
    BY <1>1, <1>2
  <2>2. (key \in 0 .. generated /\ (initialized <=> key # 0))'
    BY <1>1, <1>2
  <2>3. signatures' \in Seq(Signature')
    BY <1>1, <1>2 DEF Signature
  <2> QED
    BY <1>1, <2>1, <2>2, <2>3 DEF PlatformTypeOK, Signature
<1>4. CurrentKeyCounts' /\ OneTimeKeysOnce'
  BY <1>1, <1>2 DEF CurrentKeyCounts, OneTimeKeysOnce
<1> QED
  BY <1>3, <1>4 DEF PlatformInv

LEMMA PlatformInvStep ==
  PlatformInv /\ [PlatformNext]_pvars => PlatformInv'
<1> SUFFICES ASSUME PlatformInv, [PlatformNext]_pvars
             PROVE  PlatformInv'
  OBVIOUS
<1>1. CASE InitRam
  BY <1>1, InitRamStep
<1>2. CASE Sign \/ TestSignVerify
  BY <1>2, SignStep DEF TestSignVerify
<1>3. CASE PowerCycle
  BY <1>3, PowerCycleStep
<1>4. CASE UNCHANGED pvars
  BY <1>4 DEF pvars, PlatformInv, PlatformTypeOK, CurrentKeyCounts, Older, OneTimeKeysOnce
<1> QED
  BY <1>1, <1>2, <1>3, <1>4 DEF PlatformNext

(* In every reachable state the variables of mcu_xmss.c keep their types,  *)
(* the current key has signed with the indices from nought to ram_index,   *)
(* and no one-time key has signed twice within an index space.             *)
THEOREM PlatformInvariant == PlatformSpec => []PlatformInv
<1>1. PlatformInit => PlatformInv
  BY InitPlatformInv
<1>2. PlatformInv /\ [PlatformNext]_pvars => PlatformInv'
  BY PlatformInvStep
<1> QED
  BY <1>1, <1>2, PTL DEF PlatformSpec

(* Every variable of mcu_xmss.c keeps its type. *)
THEOREM PlatformTypeCorrect == PlatformSpec => []PlatformTypeOK
<1>1. PlatformInv => PlatformTypeOK
  BY DEF PlatformInv
<1> QED
  BY <1>1, PlatformInvariant, PTL

(* No one-time key signs twice, whatever the order of key generations,     *)
(* signatures, self-tests and power cycles, until one key pair has used    *)
(* every index that set_sk_index can write.                                *)
THEOREM OneTimeKeys == PlatformSpec => []OneTimeKeysOnce
<1>1. PlatformInv => OneTimeKeysOnce
  BY DEF PlatformInv
<1> QED
  BY <1>1, PlatformInvariant, PTL


-----------------------------------------------------------------------------
(* Hashes. *)

(* Equal hashes are hashes of equal data. *)
LEMMA Sha256Injective ==
  ASSUME NEW a, NEW b, Sha256(a) = Sha256(b)
  PROVE  a = b
BY DEF Sha256

(* So it is with the hash of a leaf, under one tree's flags. *)
LEMMA HashLeafInjective ==
  ASSUME NEW a, NEW b, NEW depth, NEW flags,
         HashLeaf(a, depth, flags) = HashLeaf(b, depth, flags)
  PROVE  a = b
<1> DEFINE prefix == (IF flags.use_node_prefix THEN <<0>> ELSE << >>) \o
                     (IF flags.use_depth_prefix THEN <<depth % 256>> ELSE << >>)
           A == [prefix |-> prefix, data |-> a]
           B == [prefix |-> prefix, data |-> b]
<1>1. /\ HashLeaf(a, depth, flags) = IF flags.use_double_leaf_hash THEN Sha256(Sha256(A)) ELSE Sha256(A)
      /\ HashLeaf(b, depth, flags) = IF flags.use_double_leaf_hash THEN Sha256(Sha256(B)) ELSE Sha256(B)
  BY Zenon DEF HashLeaf
<1>2. A = B => a = b
  OBVIOUS
<1> HIDE DEF prefix, A, B
<1>3. Sha256(A) = Sha256(B)
  <2>1. Sha256(Sha256(A)) = Sha256(Sha256(B)) => Sha256(A) = Sha256(B)
    BY Sha256Injective
  <2> QED
    BY <1>1, <2>1
<1> QED
  BY <1>2, <1>3, Sha256Injective

(* The leaf of an empty slot is no hash. *)
LEMMA ZeroLeafIsNoHash ==
  ASSUME NEW a
  PROVE  ZeroLeaf # Sha256(a)
<1>1. DOMAIN ZeroLeaf = {"zeros"} /\ DOMAIN Sha256(a) = {"sha256"}
  BY DEF ZeroLeaf, Sha256
<1> QED
  BY <1>1

-----------------------------------------------------------------------------
(* Sequences. *)

(* Appending to a function on 1 .. n. *)
LEMMA AppendToFunction ==
  ASSUME NEW n \in Nat, NEW f, NEW x, f = [i \in 1 .. n |-> f[i]]
  PROVE  /\ Len(f) = n
         /\ Len(Append(f, x)) = n + 1
         /\ Append(f, x)[n + 1] = x
         /\ \A i \in 1 .. n : Append(f, x)[i] = f[i]
<1> DEFINE S == {f[i] : i \in 1 .. n} \cup {x}
<1>1. f \in [1 .. n -> S]
  OBVIOUS
<1>2. f \in Seq(S) /\ Len(f) = n
  BY <1>1, SeqDef, LenProperties
<1>3. x \in S
  OBVIOUS
<1> HIDE DEF S
<1> QED
  BY <1>2, <1>3, AppendProperties

(* A sequence stays one when it is appended to. *)
LEMMA ItemisedAppend ==
  ASSUME NEW s, Itemised(s), NEW x
  PROVE  /\ Itemised(Append(s, x))
         /\ Len(s) \in Nat /\ DOMAIN s = 1 .. Len(s)
         /\ Len(Append(s, x)) = Len(s) + 1
         /\ DOMAIN Append(s, x) = 1 .. Len(s) + 1
         /\ \A i \in 1 .. Len(s) : Append(s, x)[i] = s[i]
         /\ Append(s, x)[Len(s) + 1] = x
<1> DEFINE S == {s[i] : i \in DOMAIN s} \cup {x}
           t == Append(s, x)
           T == {t[i] : i \in DOMAIN t}
<1>1. s \in Seq(S)
  <2>1. s \in Seq({s[i] : i \in DOMAIN s})
    BY DEF Itemised
  <2> QED
    BY <2>1
<1>2. x \in S
  OBVIOUS
<1> HIDE DEF S
<1>3. /\ t \in Seq(S) /\ Len(t) = Len(s) + 1
      /\ \A i \in 1 .. Len(s) : t[i] = s[i]
      /\ t[Len(s) + 1] = x
  BY <1>1, <1>2, AppendProperties
<1>4. /\ Len(s) \in Nat /\ DOMAIN s = 1 .. Len(s)
      /\ DOMAIN t = 1 .. Len(s) + 1
  BY <1>1, <1>3, LenProperties
<1>5. t \in Seq(T)
  <2>1. t = [i \in 1 .. Len(t) |-> t[i]]
    BY <1>3, LenProperties
  <2>2. t \in [1 .. Len(t) -> T] /\ Len(t) \in Nat
    BY <1>3, <1>4, <2>1
  <2> HIDE DEF t, T
  <2> QED
    BY <2>2, SeqDef
<1> QED
  BY <1>3, <1>4, <1>5 DEF Itemised

(* Written-out sequences are sequences. *)
LEMMA ItemisedEmpty == Itemised(<< >>) /\ DOMAIN << >> = {} /\ Len(<< >>) = 0
BY DEF Itemised

LEMMA ItemisedSingle ==
  ASSUME NEW a
  PROVE  Itemised(<<a>>)
BY DEF Itemised

-----------------------------------------------------------------------------
(* Requests. *)

(* A payload that is not refused has its items in sequence. *)
LEMMA VerifyPayloadItemised ==
  ASSUME NEW run \in Runs, run.command # "endorse", ~AttestationRefused(run),
         DOMAIN disk = Files, \A f \in Files : WellFormed(disk[f]),
         IsRequest(VerifyPayload(run))
  PROVE  Itemised(VerifyPayload(run).source)
<1>1. CASE run.payload_cbor # NotGiven
  <2>1. /\ run.payload_cbor \in Files /\ disk[run.payload_cbor] # Empty
        /\ run.payload_file = NotGiven
    BY <1>1, AttestParameters DEF AttestationRefused
  <2>2. VerifyPayload(run) = disk[run.payload_cbor]
    BY <1>1, <2>1 DEF VerifyPayload
  <2> QED
    BY <2>1, <2>2 DEF WellFormed
<1>2. CASE run.payload_cbor = NotGiven /\ run.payload_file # NotGiven
  <2>1. VerifyPayload(run) = SignPayload(<<disk[run.payload_file]>>)
    BY <1>2 DEF VerifyPayload
  <2>2. VerifyPayload(run).source = <<disk[run.payload_file]>>
    BY <2>1 DEF SignPayload
  <2> QED
    BY <2>2, ItemisedSingle
<1>3. CASE run.payload_cbor = NotGiven /\ run.payload_file = NotGiven
  <2>1. VerifyPayload(run) = SignPayload(ExampleSources)
    BY <1>3 DEF VerifyPayload
  <2> QED
    BY <2>1, AttestParameters DEF SignPayload
<1> QED
  BY <1>1, <1>2, <1>3

(* A request that is sent and decodes asks for the items that the answer   *)
(* is verified against.                                                    *)
LEMMA SentIsVerified ==
  ASSUME NEW run, run.command # "endorse", Sends(run),
         IsRequest(DeviceReads(run, Sent(run)))
  PROVE  Decoded(VerifyPayload(run)) =
           [known |-> TRUE, source |-> DeviceReads(run, Sent(run)).source]
<1> DEFINE request == DeviceReads(run, Sent(run))
<1>1. ~AttestationRefused(run) /\ Sent(run) = WirePayload(run)
  BY DEF Sends, Sent
<1>2. request = VerifyPayload(run)
  <2>1. CASE IsFileMode(run)
    <3>1. run.payload_cbor = NotGiven /\ run.payload_file # NotGiven
      BY <1>1, <2>1 DEF AttestationRefused
    <3> QED
      BY <1>1, <2>1, <3>1 DEF WirePayload, VerifyPayload, DeviceReads
  <2>2. CASE ~IsFileMode(run)
    BY <1>1, <2>2 DEF WirePayload, DeviceReads
  <2> QED
    BY <2>1, <2>2
<1>3. IsRequest(VerifyPayload(run))
  BY <1>2
<1> QED
  BY <1>2, <1>3 DEF Decoded

-----------------------------------------------------------------------------
(* The invariant.  Besides the type of the files and answers it says what  *)
(* payload each answer is verified against.                                *)

PayloadsAsRequested ==
  \A n \in DOMAIN answers :
    answers[n].payload =
      IF answers[n].run.command = "endorse" THEN NoPayload
      ELSE [known |-> TRUE, source |-> answers[n].request.source]

(* endorse asks for one item or two. *)
EndorsementsAreShort ==
  \A n \in DOMAIN answers :
    answers[n].run.command = "endorse" => Len(answers[n].request.source) \in 0 .. 2

AttestInv ==
  /\ PlatformInv
  /\ AttestTypeOK
  /\ PayloadsAsRequested
  /\ EndorsementsAreShort

LEMMA EndorsementSource ==
  ASSUME NEW run, run.command = "endorse"
  PROVE  Len(DeviceReads(run, Sent(run)).source) \in 0 .. 2
<1>1. DeviceReads(run, Sent(run)) = EndorsePayload(run)
  BY DEF DeviceReads, Sent, IsFileMode
<1>2. \A a, b : Len(<<a>>) = 1 /\ Len(<<a, b>>) = 2
  OBVIOUS
<1>3. \A source : SignPayload(source).source = source
  BY DEF SignPayload
<1>4. CASE run.data_hex # NotGiven
  <2>1. EndorsePayload(run) = SignPayload(<<[data |-> run.data_hex]>>)
    BY <1>4 DEF EndorsePayload
  <2>2. EndorsePayload(run).source = <<[data |-> run.data_hex]>>
    BY <1>3, <2>1
  <2> QED
    BY <1>1, <1>2, <2>2
<1>5. CASE run.data_hex = NotGiven
  <2>1. PICK a, b : EndorsePayload(run) = SignPayload(<<a, b>>)
    BY <1>5 DEF EndorsePayload, BuilderPayload
  <2>2. EndorsePayload(run).source = <<a, b>>
    BY <1>3, <2>1
  <2> QED
    BY <1>1, <1>2, <2>2
<1> QED
  BY <1>4, <1>5

LEMMA InitAttestInv == AttestInit => AttestInv
<1> SUFFICES ASSUME AttestInit PROVE AttestInv
  OBVIOUS
<1>1. PlatformInv
  BY InitPlatformInv DEF AttestInit
<1>2. answers = << >> /\ Itemised(answers) /\ DOMAIN answers = {} /\ Len(answers) = 0
  BY ItemisedEmpty DEF AttestInit
<1>3. Len(signatures) = 0
  BY DEF AttestInit, PlatformInit
<1>4. /\ device \in Devices
      /\ DOMAIN disk = Files /\ \A f \in Files : WellFormed(disk[f])
  BY AttestParameters DEF AttestInit
<1> QED
  BY <1>1, <1>2, <1>3, <1>4
     DEF AttestInv, AttestTypeOK, PayloadsAsRequested, EndorsementsAreShort

(* An answer adds one to the answers: its type and its payload. *)
LEMMA AnswerStep ==
  ASSUME AttestInv, NEW run \in Runs, Answer(run)
  PROVE  AttestInv'
<1> DEFINE request == DeviceReads(run, Sent(run))
           N == Len(answers) + 1
<1>1. /\ Sign /\ Sends(run) /\ IsRequest(request)
      /\ UNCHANGED <<disk, device>>
  BY DEF Answer
<1>2. PICK hashes \in Recent :
        answers' = Append(answers, [run |-> run, request |-> request,
                                    payload |-> PayloadOf(run), key |-> key, hashes |-> hashes])
  BY DEF Answer
<1> DEFINE r == [run |-> run, request |-> request,
                 payload |-> PayloadOf(run), key |-> key, hashes |-> hashes]
<1>3. PlatformInv'
  BY <1>1, PlatformInvStep DEF AttestInv, PlatformNext
<1>4. r.run = run /\ r.request = request /\ r.payload = PayloadOf(run) /\ r.key = key /\ r.hashes = hashes
  OBVIOUS
<1>5. answers' = Append(answers, r)
  BY <1>2
<1>6. PayloadOf(run) = IF run.command = "endorse" THEN NoPayload
                       ELSE [known |-> TRUE, source |-> request.source]
  BY <1>1, SentIsVerified DEF PayloadOf
<1>7. Itemised(PayloadOf(run).source)
  <2>1. CASE run.command = "endorse"
    BY <2>1, ItemisedEmpty DEF PayloadOf, NoPayload
  <2>2. CASE run.command # "endorse"
    <3>1. ~AttestationRefused(run) /\ PayloadOf(run) = Decoded(VerifyPayload(run))
      BY <1>1, <2>2 DEF Sends, PayloadOf
    <3>2. CASE IsRequest(VerifyPayload(run))
      <4>1. Itemised(VerifyPayload(run).source)
        BY <2>2, <3>1, <3>2, VerifyPayloadItemised DEF AttestInv, AttestTypeOK
      <4> QED
        BY <3>1, <3>2, <4>1 DEF Decoded
    <3>3. CASE ~IsRequest(VerifyPayload(run))
      BY <3>1, <3>3, ItemisedEmpty DEF Decoded
    <3> QED
      BY <3>2, <3>3
  <2> QED
    BY <2>1, <2>2
<1>8. /\ Len(signatures') = Len(signatures) + 1 /\ Len(signatures) \in Nat
      /\ generated' = generated /\ key \in 1 .. generated
  <2>1. PlatformTypeOK /\ initialized
    BY <1>1 DEF AttestInv, PlatformInv, Sign
  <2>2. key \in 1 .. generated /\ signatures \in Seq([key : 1 .. generated, index : 0 .. IndexSpace - 1])
    BY <2>1 DEF PlatformTypeOK
  <2>3. ram_index \in Nat
    BY <2>1 DEF PlatformTypeOK
  <2>4. [key |-> key, index |-> SkIndex(ram_index)] \in [key : 1 .. generated, index : 0 .. IndexSpace - 1]
    BY <2>2, <2>3, SkIndexRange
  <2> QED
    BY <1>1, <2>2, <2>4, AppendProperties, LenProperties DEF Sign
<1>15. run.command = "endorse" => Len(request.source) \in 0 .. 2
  BY EndorsementSource
<1> HIDE DEF r, request
<1>9. /\ Itemised(answers') /\ Len(answers) \in Nat /\ Len(answers') = N
      /\ DOMAIN answers = 1 .. Len(answers) /\ DOMAIN answers' = 1 .. N
      /\ answers'[N] = r
      /\ \A n \in 1 .. Len(answers) : answers'[n] = answers[n]
  BY <1>5, ItemisedAppend DEF AttestInv, AttestTypeOK
<1>10. hashes \in {N - 1, N}
  BY <1>9 DEF Recent
<1>11. ASSUME NEW n \in DOMAIN answers'
       PROVE  /\ answers'[n].run \in Runs /\ Itemised(answers'[n].payload.source)
              /\ answers'[n].key \in 1 .. generated' /\ answers'[n].hashes \in {n - 1, n}
              /\ answers'[n].payload =
                   IF answers'[n].run.command = "endorse" THEN NoPayload
                   ELSE [known |-> TRUE, source |-> answers'[n].request.source]
              /\ answers'[n].run.command = "endorse" => Len(answers'[n].request.source) \in 0 .. 2
  <2>1. CASE n = N
    BY <2>1, <1>4, <1>6, <1>7, <1>8, <1>9, <1>10, <1>15
  <2>2. CASE n # N
    <3>1. n \in DOMAIN answers /\ answers'[n] = answers[n]
      BY <2>2, <1>9
    <3> QED
      BY <3>1, <1>8
         DEF AttestInv, AttestTypeOK, PayloadsAsRequested, EndorsementsAreShort
  <2> QED
    BY <2>1, <2>2
<1>12. Len(answers') <= Len(signatures')
  BY <1>8, <1>9 DEF AttestInv, AttestTypeOK
<1>13. AttestTypeOK'
  BY <1>1, <1>9, <1>11, <1>12 DEF AttestInv, AttestTypeOK, WellFormed
<1>14. PayloadsAsRequested' /\ EndorsementsAreShort'
  BY <1>11 DEF PayloadsAsRequested, NoPayload, EndorsementsAreShort
<1> QED
  BY <1>3, <1>13, <1>14 DEF AttestInv

(* Generating a payload file leaves bytes whose items are in sequence. *)
LEMMA GeneratesStep ==
  ASSUME AttestInv, NEW run \in Runs, Generates(run), UNCHANGED <<pvars, device, answers>>
  PROVE  AttestInv'
<1>1. PlatformInv'
  BY PlatformInvStep DEF AttestInv
<1>2. PICK bytes \in {VerifyPayload(run), Torn, Empty} :
        disk' = [disk EXCEPT ![run.out_payload_cbor] = bytes]
  BY DEF Generates
<1>3. WellFormed(bytes)
  <2>1. run.command # "endorse" /\ ~AttestationRefused(run)
    BY DEF Generates
  <2>2. WellFormed(VerifyPayload(run))
    BY <2>1, VerifyPayloadItemised DEF WellFormed, AttestInv, AttestTypeOK
  <2> QED
    BY <2>2, AttestParameters DEF WellFormed
<1>4. DOMAIN disk' = Files /\ \A f \in Files : disk'[f] = bytes \/ disk'[f] = disk[f]
  BY <1>2 DEF AttestInv, AttestTypeOK
<1>5. \A f \in Files : WellFormed(disk[f])
  BY DEF AttestInv, AttestTypeOK
<1>6. \A f \in Files : WellFormed(disk'[f])
  BY <1>3, <1>4, <1>5
<1>7. generated' = generated /\ signatures' = signatures /\ answers' = answers /\ device' = device
  BY DEF pvars
<1>8. AttestTypeOK'
  BY <1>4, <1>6, <1>7 DEF AttestInv, AttestTypeOK, WellFormed
<1>9. PayloadsAsRequested' /\ EndorsementsAreShort'
  BY <1>7 DEF AttestInv, PayloadsAsRequested, NoPayload, EndorsementsAreShort
<1> QED
  BY <1>1, <1>8, <1>9 DEF AttestInv

(* What the device does by itself disturbs no answer. *)
LEMMA PlatformAloneStep ==
  ASSUME AttestInv, InitRam \/ TestSignVerify \/ PowerCycle, UNCHANGED <<disk, device, answers>>
  PROVE  AttestInv'
<1>1. PlatformInv'
  BY PlatformInvStep DEF AttestInv, PlatformNext
<1>2. /\ generated \in Nat /\ generated' \in Nat /\ generated <= generated'
      /\ Len(signatures) <= Len(signatures')
  <2>1. PlatformTypeOK /\ PlatformTypeOK'
    BY <1>1 DEF AttestInv, PlatformInv
  <2>2. Len(signatures) \in Nat /\ generated \in Nat /\ generated' \in Nat
    BY <2>1, LenProperties DEF PlatformTypeOK
  <2>3. CASE InitRam \/ PowerCycle
    BY <2>2, <2>3 DEF InitRam, PowerCycle
  <2>4. CASE TestSignVerify
    <3>1. /\ generated' = generated
          /\ signatures' = Append(signatures, [key |-> key, index |-> SkIndex(ram_index)])
      BY <2>4 DEF TestSignVerify, Sign
    <3> QED
      BY <2>1, <2>2, <3>1, AppendProperties, LenProperties DEF PlatformTypeOK
  <2> QED
    BY <2>3, <2>4
<1>3. Len(answers) \in Nat /\ answers' = answers
  BY ItemisedAppend DEF AttestInv, AttestTypeOK
<1>4. Len(signatures) \in Nat /\ Len(signatures') \in Nat
  BY <1>1, LenProperties DEF AttestInv, PlatformInv, PlatformTypeOK
<1>5. AttestTypeOK'
  BY <1>2, <1>3, <1>4 DEF AttestInv, AttestTypeOK, WellFormed
<1>6. PayloadsAsRequested' /\ EndorsementsAreShort'
  BY <1>3 DEF AttestInv, PayloadsAsRequested, NoPayload, EndorsementsAreShort
<1> QED
  BY <1>1, <1>5, <1>6 DEF AttestInv

LEMMA AttestInvStep == AttestInv /\ [AttestNext]_attestVars => AttestInv'
<1> SUFFICES ASSUME AttestInv, [AttestNext]_attestVars PROVE AttestInv'
  OBVIOUS
<1>1. ASSUME NEW run \in Runs, Answer(run) PROVE AttestInv'
  BY <1>1, AnswerStep
<1>2. ASSUME NEW run \in Runs, Generates(run), UNCHANGED <<pvars, device, answers>>
      PROVE  AttestInv'
  BY <1>2, GeneratesStep
<1>3. CASE (InitRam \/ TestSignVerify \/ PowerCycle) /\ UNCHANGED <<disk, device, answers>>
  BY <1>3, PlatformAloneStep
<1>4. CASE UNCHANGED attestVars
  <2>1. UNCHANGED <<pvars, disk, device, answers>>
    BY <1>4 DEF attestVars
  <2>2. PlatformInv'
    BY <2>1, PlatformInvStep DEF AttestInv
  <2> QED
    BY <2>1, <2>2 DEF AttestInv, AttestTypeOK, PayloadsAsRequested, pvars, WellFormed, NoPayload,
                          EndorsementsAreShort
<1> QED
  BY <1>1, <1>2, <1>3, <1>4 DEF AttestNext

(* The invariant holds in every reachable state. *)
THEOREM AttestInvariant == AttestSpec => []AttestInv
BY InitAttestInv, AttestInvStep, PTL DEF AttestSpec

(* Files and answers keep their shape. *)
THEOREM AttestTypeCorrect == AttestSpec => []AttestTypeOK
<1>1. AttestInv => AttestTypeOK
  BY DEF AttestInv
<1> QED
  BY <1>1, AttestInvariant, PTL

(* To the platform, answering a request is one signature: the composition  *)
(* takes no step that mcu_xmss.c does not allow.                           *)
THEOREM AttestImplementsPlatform == AttestSpec => PlatformSpec
<1>1. AttestInit => PlatformInit
  BY DEF AttestInit
<1>2. [AttestNext]_attestVars => [PlatformNext]_pvars
  <2> SUFFICES ASSUME [AttestNext]_attestVars PROVE [PlatformNext]_pvars
    OBVIOUS
  <2>1. ASSUME NEW run \in Runs, Answer(run) PROVE PlatformNext
    BY <2>1 DEF Answer, PlatformNext
  <2>2. CASE \E run \in Runs : Generates(run) /\ UNCHANGED <<pvars, device, answers>>
    BY <2>2
  <2>3. CASE InitRam \/ TestSignVerify \/ PowerCycle
    BY <2>3 DEF PlatformNext
  <2>4. CASE UNCHANGED attestVars
    BY <2>4 DEF attestVars
  <2> QED
    BY <2>1, <2>2, <2>3, <2>4 DEF AttestNext
<1> QED
  BY <1>1, <1>2, PTL DEF AttestSpec, PlatformSpec

(* With answers to requests between them, too, no one-time key signs twice *)
(* before its indices have run out.                                        *)
THEOREM AnswersUseKeysOnce == AttestSpec => []OneTimeKeysOnce
BY AttestImplementsPlatform, OneTimeKeys, PTL

(* attestation verifies an answer against the items it asked to be signed, *)
(* in every form of the request (cmd_attestation.cpp:353-385).             *)
THEOREM VerifiesWhatWasAsked == AttestSpec => []AsksWhatItVerifies
<1>1. AttestInv => AsksWhatItVerifies
  BY DEF AttestInv, PayloadsAsRequested, AsksWhatItVerifies
<1> QED
  BY <1>1, AttestInvariant, PTL

-----------------------------------------------------------------------------
(* Trees. *)

(* The leaves of a tree are as many as its depth says. *)
LEMMA TreeShape ==
  ASSUME device \in Devices, NEW i
  PROVE  /\ Leaves \in Nat \ {0}
         /\ Leaves = 2 ^ device.depth
         /\ LeafHashes(i) = [leaf \in 1 .. Leaves |-> LeafHashes(i)[leaf]]
         /\ Len(LeafHashes(i)) = Leaves
         /\ Len(TreeOf(i).nodes) = Leaves + 1
         /\ TreeOf(i).nodes[Leaves + 1] = RootOf(i)
         /\ \A leaf \in 1 .. Leaves :
              /\ TreeOf(i).nodes[leaf] = TreeLeaves(i)[leaf]
              /\ TreeLeaves(i)[leaf] =
                   IF device.flags.present
                   THEN HashLeaf(LeafHashes(i)[leaf], device.depth, device.flags)
                   ELSE LeafHashes(i)[leaf]
<1>1. Leaves \in Nat \ {0} /\ Leaves = 2 ^ device.depth
  BY AttestParameters DEF Leaves
<1> HIDE DEF Leaves
<1>2. LeafHashes(i) = [leaf \in 1 .. Leaves |-> LeafHashes(i)[leaf]]
  BY DEF LeafHashes
<1>3. /\ TreeLeaves(i) = [leaf \in 1 .. Leaves |-> TreeLeaves(i)[leaf]]
      /\ \A leaf \in 1 .. Leaves : TreeLeaves(i)[leaf] =
           IF device.flags.present
           THEN HashLeaf(LeafHashes(i)[leaf], device.depth, device.flags)
           ELSE LeafHashes(i)[leaf]
  BY DEF TreeLeaves
<1>4. TreeOf(i).nodes = Append(TreeLeaves(i), RootOf(i))
  BY DEF TreeOf
<1>5. Len(LeafHashes(i)) = Leaves
  BY <1>1, <1>2, AppendToFunction
<1>6. /\ Len(TreeOf(i).nodes) = Leaves + 1
      /\ TreeOf(i).nodes[Leaves + 1] = RootOf(i)
      /\ \A leaf \in 1 .. Leaves : TreeOf(i).nodes[leaf] = TreeLeaves(i)[leaf]
  BY <1>1, <1>3, <1>4, AppendToFunction
<1> QED
  BY <1>1, <1>2, <1>3, <1>5, <1>6

(* The first leaf is the device's own and differs from answer to answer. *)
LEMMA FirstLeaf ==
  ASSUME device \in Devices, NEW i
  PROVE  LeafHashes(i)[1] = Sha256([answer |-> i, leaf |-> 1])
<1>1. 1 \in 1 .. Leaves
  BY TreeShape
<1> HIDE DEF Leaves
<1> QED
  BY <1>1 DEF LeafHashes, LeafSourceStart

(* Equal roots are roots of one answer. *)
LEMMA RootsDiffer ==
  ASSUME device \in Devices, NEW i, NEW j, RootOf(i) = RootOf(j)
  PROVE  i = j
<1>1. TreeLeaves(i) = TreeLeaves(j)
  BY DEF RootOf
<1>2. 1 \in 1 .. Leaves
  BY TreeShape
<1>3. LeafHashes(i)[1] = LeafHashes(j)[1]
  <2>1. CASE device.flags.present
    BY <1>1, <1>2, <2>1, TreeShape, HashLeafInjective
  <2>2. CASE ~device.flags.present
    BY <1>1, <1>2, <2>2, TreeShape
  <2> QED
    BY <2>1, <2>2
<1>4. Sha256([answer |-> i, leaf |-> 1]) = Sha256([answer |-> j, leaf |-> 1])
  BY <1>3, FirstLeaf
<1>5. [answer |-> i, leaf |-> 1] = [answer |-> j, leaf |-> 1]
  BY <1>4, Sha256Injective
<1> QED
  BY <1>5

LEMMA PassingRoot ==
  ASSUME device \in Devices, NEW i, NEW j, NEW p,
         Passes(TreeOf(i), AttestationOf(j), p)
  PROVE  i = j
<1>1. Len(TreeOf(i).nodes) = Leaves + 1 /\ TreeOf(i).nodes[Leaves + 1] = RootOf(i)
  BY TreeShape
<1>2. AttestationOf(j).root = RootOf(j)
  BY DEF AttestationOf
<1>3. TreeOf(i).nodes[Len(TreeOf(i).nodes)] = AttestationOf(j).root
  BY DEF Passes
<1> QED
  BY <1>1, <1>2, <1>3, RootsDiffer

(* Every item with a slot is compared. *)
LEMMA SlotsAreChecked ==
  ASSUME device \in Devices, NEW count \in Nat, NEW n \in 1 .. count, n <= SlotCount
  PROVE  /\ n \in CrossChecked(2 ^ device.depth, count)
         /\ n + LeafSourceStart \in 1 .. Leaves
<1>1. Leaves \in Nat \ {0} /\ Leaves = 2 ^ device.depth
  BY TreeShape
<1> HIDE DEF Leaves
<1>2. n + LeafSourceStart \in 1 .. Leaves
  BY <1>1 DEF SlotCount, LeafSourceStart
<1>3. LeafPos(n) <= LeafSourceEnd(Leaves, count)
  BY <1>1 DEF LeafPos, LeafSourceEnd, SlotCount, LeafSourceStart
<1> QED
  BY <1>1, <1>2, <1>3 DEF CrossChecked

(* What is compared has a slot, and is there to be compared. *)
LEMMA CheckedHasSlot ==
  ASSUME device \in Devices, NEW count \in Nat,
         NEW n \in CrossChecked(2 ^ device.depth, count)
  PROVE  /\ n \in 1 .. count /\ n <= SlotCount
         /\ LeafPos(n) \in 0 .. Leaves - 1 /\ LeafPos(n) + 1 - LeafSourceStart = n
<1>1. Leaves \in Nat \ {0} /\ Leaves = 2 ^ device.depth
  BY TreeShape
<1>2. /\ n \in 1 .. count
      /\ LeafPos(n) <= LeafSourceEnd(Leaves, count)
  BY <1>1 DEF CrossChecked
<1> HIDE DEF Leaves
<1> QED
  BY <1>1, <1>2 DEF LeafPos, LeafSourceEnd, SlotCount, LeafSourceStart

(* What is compared and found equal is the item that was requested. *)
LEMMA CheckedItem ==
  ASSUME device \in Devices, device.flags.present, NEW i, NEW source, NEW n,
         Len(source) \in Nat, n \in 1 .. Len(source), n <= SlotCount,
         L1(AttestationOf(i), source, n), L2(TreeOf(i), AttestationOf(i), n)
  PROVE  /\ n <= Len(answers[i].request.source)
         /\ source[n] = answers[i].request.source[n]
<1> DEFINE leaf == n + LeafSourceStart
           hash == Entry(AttestationOf(i).leaf_hashes, LeafPos(n))
<1>1. leaf \in 1 .. Leaves /\ n \in Nat \ {0}
  BY SlotsAreChecked
<1>2. LeafPos(n) + 1 = leaf
  BY <1>1 DEF LeafPos, LeafSourceStart
<1>3. leaf - LeafSourceStart = n
  BY <1>1 DEF LeafSourceStart
<1>4. hash = Sha256(source[n])
  BY DEF L1
<1>5. TreeOf(i).depth = device.depth /\ TreeOf(i).flags = device.flags
  BY DEF TreeOf
<1> HIDE DEF leaf, hash
<1>6. TreeOf(i).nodes[leaf] = HashLeaf(hash, device.depth, device.flags)
  <2>1. Entry(TreeOf(i).nodes, LeafPos(n)) = HashLeaf(hash, TreeOf(i).depth, TreeOf(i).flags)
    BY <1>5 DEF L2, hash
  <2> QED
    BY <1>2, <1>5, <2>1 DEF Entry
<1>7. TreeOf(i).nodes[leaf] = HashLeaf(LeafHashes(i)[leaf], device.depth, device.flags)
  <2>1. /\ TreeOf(i).nodes[leaf] = TreeLeaves(i)[leaf]
        /\ device.flags.present =>
             TreeLeaves(i)[leaf] = HashLeaf(LeafHashes(i)[leaf], device.depth, device.flags)
    BY <1>1, TreeShape
  <2> QED
    BY <2>1, Zenon
<1>8. LeafHashes(i)[leaf] = Sha256(source[n])
  <2>1. HashLeaf(LeafHashes(i)[leaf], device.depth, device.flags) = HashLeaf(hash, device.depth, device.flags)
    BY <1>6, <1>7
  <2>2. LeafHashes(i)[leaf] = hash
    BY <2>1, HashLeafInjective
  <2> QED
    BY <1>4, <2>2
<1>9. LeafHashes(i)[leaf] = IF n <= Len(answers[i].request.source)
                            THEN Sha256(answers[i].request.source[n])
                            ELSE ZeroLeaf
  <2> HIDE DEF Leaves, SlotCount
  <2> QED
    BY <1>1, <1>3 DEF LeafHashes
<1> QED
  BY <1>8, <1>9, ZeroLeafIsNoHash, Sha256Injective

-----------------------------------------------------------------------------
(* What a pass says. *)

(* A tree and an attestation that pass belong to one answer of the device. *)
THEOREM OneAnswerPasses == AttestSpec => []PassIsOneAnswer
<1>1. AttestInv => PassIsOneAnswer
  BY PassingRoot DEF AttestInv, AttestTypeOK, PassIsOneAnswer
<1> QED
  BY <1>1, AttestInvariant, PTL

LEMMA InvBindsItems == AttestInv => PassBindsItems
<1> SUFFICES ASSUME AttestInv, NEW i \in DOMAIN answers, NEW j \in DOMAIN answers,
                    NEW p \in Payloads, device.flags.present,
                    Passes(TreeOf(i), AttestationOf(j), p),
                    NEW n \in 1 .. Len(p.source), n <= SlotCount
             PROVE  /\ n <= Len(answers[i].request.source)
                    /\ p.source[n] = answers[i].request.source[n]
  BY DEF PassBindsItems
<1>1. device \in Devices
  BY DEF AttestInv, AttestTypeOK
<1>2. j = i
  BY <1>1, PassingRoot
<1>3. p # NoPayload
  <2>1. Len(NoPayload.source) = 0
    BY ItemisedEmpty DEF NoPayload
  <2> QED
    BY <2>1
<1>4. p.known /\ Itemised(p.source)
  <2>1. PICK k \in DOMAIN answers : p = answers[k].payload
    BY <1>3 DEF Payloads
  <2>2. p = [known |-> TRUE, source |-> answers[k].request.source]
    BY <1>3, <2>1 DEF AttestInv, PayloadsAsRequested
  <2>3. p.known
    BY <2>2, Zenon
  <2>4. Itemised(p.source)
    BY <2>1 DEF AttestInv, AttestTypeOK
  <2> QED
    BY <2>3, <2>4
<1>5. Len(p.source) \in Nat
  BY <1>4, ItemisedAppend
<1>6. SourceChainOK(TreeOf(i), AttestationOf(i), p)
  BY <1>2 DEF Passes
<1>7. TreeOf(i).depth = device.depth
  BY DEF TreeOf
<1>8. n \in CrossChecked(2 ^ TreeOf(i).depth, Len(p.source))
  BY <1>1, <1>5, <1>7, SlotsAreChecked
<1>9. L1(AttestationOf(i), p.source, n) /\ L2(TreeOf(i), AttestationOf(i), n)
  BY <1>4, <1>6, <1>8 DEF SourceChainOK
<1> QED
  BY <1>1, <1>5, <1>9, CheckedItem

(* A pass with a payload, over a tree that carries its flags, says that    *)
(* the items with a slot are those requested and signed, in trees of any   *)
(* depth and with any combination of hashing options.                      *)
THEOREM PassesBindItems == AttestSpec => []PassBindsItems
BY InvBindsItems, AttestInvariant, PTL

-----------------------------------------------------------------------------
(* What the device did right. *)

(* The signature over the root passes, if the key is not mistaken for one  *)
(* with another OID in front.                                              *)
LEMMA SignaturePasses ==
  ASSUME NEW n, device.word = DefaultOid \/ device.word \notin KnownOids
  PROVE  VerifyXmssSignature(AttestationOf(n), RootOf(n))
<1> DEFINE pk == [word |-> device.word, key |-> answers[n].key]
           sig == [oid |-> DefaultOid, key |-> answers[n].key, root |-> RootOf(n)]
<1>1. /\ AttestationOf(n).pk = pk /\ AttestationOf(n).sig = sig
      /\ AttestationOf(n).root = RootOf(n)
  BY DEF AttestationOf
<1>2. pk # Absent /\ sig # Absent
  BY DEF Absent
<1>3. /\ sig.oid = DefaultOid /\ sig.key = pk.key /\ sig.root = RootOf(n)
      /\ pk.word = device.word
  OBVIOUS
<1> HIDE DEF pk, sig
<1>4. VerifyDetached(pk, RootOf(n), sig)
  BY <1>3 DEF VerifyDetached, OidUsed
<1> QED
  BY <1>1, <1>2, <1>4 DEF VerifyXmssSignature

LEMMA PassesWith ==
  ASSUME device \in Devices, NEW n, NEW p,
         device.word = DefaultOid \/ device.word \notin KnownOids,
         SourceChainOK(TreeOf(n), AttestationOf(n), p)
  PROVE  Passes(TreeOf(n), AttestationOf(n), p)
<1>1. Leaves \in Nat /\ Len(TreeOf(n).nodes) = Leaves + 1
      /\ TreeOf(n).nodes[Leaves + 1] = RootOf(n)
  BY TreeShape
<1>2. TreeOf(n).nodes # << >>
  BY <1>1
<1>3. AttestationOf(n).root = RootOf(n)
  BY DEF AttestationOf
<1> QED
  BY <1>1, <1>2, <1>3, SignaturePasses DEF Passes

(* The items a request asked for are those that its tree and its leaf      *)
(* hashes hold.                                                            *)
LEMMA OwnItemsChecked ==
  ASSUME device \in Devices, NEW n \in DOMAIN answers,
         answers[n].request.include, answers[n].hashes = n,
         Len(answers[n].request.source) \in Nat
  PROVE  \A i \in CrossChecked(2 ^ TreeOf(n).depth, Len(answers[n].request.source)) :
           /\ L1(AttestationOf(n), answers[n].request.source, i)
           /\ L2(TreeOf(n), AttestationOf(n), i)
<1> DEFINE source == answers[n].request.source
<1> SUFFICES ASSUME NEW i \in CrossChecked(2 ^ device.depth, Len(source))
             PROVE  L1(AttestationOf(n), source, i) /\ L2(TreeOf(n), AttestationOf(n), i)
  BY DEF TreeOf
<1>1. /\ i \in 1 .. Len(source) /\ i <= SlotCount
      /\ LeafPos(i) \in 0 .. Leaves - 1 /\ LeafPos(i) + 1 - LeafSourceStart = i
  BY CheckedHasSlot
<1>2. Leaves \in Nat
  BY TreeShape
<1> DEFINE leaf == LeafPos(i) + 1
<1>3. leaf \in 1 .. Leaves /\ leaf - LeafSourceStart = i
  <2>2. leaf \in 1 .. Leaves
    <3> HIDE DEF Leaves
    <3> QED
      BY <1>1, <1>2
  <2> HIDE DEF Leaves
  <2>3. leaf - LeafSourceStart = i
    BY <1>1 DEF LeafPos, LeafSourceStart
  <2> QED
    BY <2>2, <2>3
<1>4. AttestationOf(n).leaf_hashes = LeafHashes(n)
  BY DEF AttestationOf
<1>5. Has(LeafHashes(n), LeafPos(i)) /\ Entry(LeafHashes(n), LeafPos(i)) = LeafHashes(n)[leaf]
  <2>1. Len(LeafHashes(n)) = Leaves
    BY TreeShape
  <2>2. LeafPos(i) < Leaves
    BY <1>1, <1>2
  <2> QED
    BY <2>1, <2>2 DEF Has, Entry
<1>6. LeafHashes(n)[leaf] = Sha256(source[i])
  <2>1. LeafHashes(n)[leaf] =
          IF leaf - LeafSourceStart <= 0 THEN Sha256([answer |-> n, leaf |-> leaf])
          ELSE IF /\ leaf - LeafSourceStart <= Len(source)
                  /\ leaf - LeafSourceStart <= SlotCount
               THEN Sha256(source[leaf - LeafSourceStart])
          ELSE ZeroLeaf
    <3> HIDE DEF leaf, Leaves, SlotCount
    <3> QED
      BY <1>3 DEF LeafHashes
  <2>2. i <= Len(source) /\ i <= SlotCount /\ ~(i <= 0)
    BY <1>1
  <2> HIDE DEF leaf, source
  <2> QED
    BY <1>3, <2>1, <2>2
<1>7. L1(AttestationOf(n), source, i)
  BY <1>4, <1>5, <1>6 DEF L1
<1>8. ASSUME device.flags.present
      PROVE  /\ Has(TreeOf(n).nodes, LeafPos(i))
             /\ Entry(TreeOf(n).nodes, LeafPos(i)) =
                  HashLeaf(Entry(LeafHashes(n), LeafPos(i)), device.depth, device.flags)
  <2>1. /\ Len(TreeOf(n).nodes) = Leaves + 1
        /\ TreeOf(n).nodes[leaf] = TreeLeaves(n)[leaf]
        /\ TreeLeaves(n)[leaf] =
             IF device.flags.present
             THEN HashLeaf(LeafHashes(n)[leaf], device.depth, device.flags)
             ELSE LeafHashes(n)[leaf]
    BY <1>3, TreeShape
  <2>2. LeafPos(i) < Leaves + 1
    BY <1>1, <1>2
  <2> HIDE DEF Leaves
  <2>3. Has(TreeOf(n).nodes, LeafPos(i))
    BY <2>1, <2>2 DEF Has
  <2>4. TreeOf(n).nodes[leaf] = HashLeaf(LeafHashes(n)[leaf], device.depth, device.flags)
    BY <1>8, <2>1
  <2>5. Entry(TreeOf(n).nodes, LeafPos(i)) = TreeOf(n).nodes[leaf]
    BY DEF Entry
  <2> QED
    BY <1>5, <2>3, <2>4, <2>5
<1>9. TreeOf(n).flags = device.flags /\ TreeOf(n).depth = device.depth
  BY DEF TreeOf
<1>10. L2(TreeOf(n), AttestationOf(n), i)
  BY <1>4, <1>8, <1>9 DEF L2
<1> QED
  BY <1>7, <1>10

LEMMA InvGenuinePasses == AttestInv => GenuinePasses
<1> SUFFICES ASSUME AttestInv, NEW n \in DOMAIN answers,
                    device.word = DefaultOid \/ device.word \notin KnownOids
             PROVE  /\ Passes(TreeOf(n), AttestationOf(n), NoPayload)
                    /\ answers[n].request.include /\ answers[n].hashes = n
                         => Passes(TreeOf(n), AttestationOf(n), answers[n].payload)
  BY DEF GenuinePasses
<1>1. device \in Devices
  BY DEF AttestInv, AttestTypeOK
<1>2. ~NoPayload.known
  BY DEF NoPayload
<1>3. Passes(TreeOf(n), AttestationOf(n), NoPayload)
  BY <1>1, <1>2, PassesWith DEF SourceChainOK
<1>4. ASSUME answers[n].request.include, answers[n].hashes = n
      PROVE  Passes(TreeOf(n), AttestationOf(n), answers[n].payload)
  <2>1. CASE answers[n].payload = NoPayload
    BY <1>3, <2>1
  <2>2. CASE answers[n].payload # NoPayload
    <3> DEFINE p == answers[n].payload
    <3>1. p = [known |-> TRUE, source |-> answers[n].request.source]
      BY <2>2 DEF AttestInv, PayloadsAsRequested
    <3>2. p.source = answers[n].request.source
      BY <3>1
    <3>3. Len(p.source) \in Nat
      BY ItemisedAppend DEF AttestInv, AttestTypeOK
    <3>4. SourceChainOK(TreeOf(n), AttestationOf(n), p)
      <4>1. \A i \in CrossChecked(2 ^ TreeOf(n).depth, Len(p.source)) :
              L1(AttestationOf(n), p.source, i) /\ L2(TreeOf(n), AttestationOf(n), i)
        BY <1>1, <1>4, <3>2, <3>3, OwnItemsChecked
      <4> HIDE DEF p
      <4> QED
        BY <4>1 DEF SourceChainOK
    <3> QED
      BY <1>1, <3>4, PassesWith
  <2> QED
    BY <2>1, <2>2
<1> QED
  BY <1>3, <1>4

(* What the device did right is never refused, in trees of any depth and   *)
(* with payloads of any length: nothing that the code compares is compared *)
(* with another leaf than its own.                                         *)
THEOREM GenuineAnswersPass == AttestSpec => []GenuinePasses
BY InvGenuinePasses, AttestInvariant, PTL

LEMMA InvEndorsementsFit == AttestInv => EndorsementsFit
<1> SUFFICES ASSUME AttestInv, NEW n \in DOMAIN answers,
                    answers[n].run.command = "endorse", device.depth >= 3
             PROVE  Len(answers[n].request.source) <= SlotCount
  BY DEF EndorsementsFit
<1> DEFINE length == Len(answers[n].request.source)
<1>1. length \in 0 .. 2
  BY DEF AttestInv, EndorsementsAreShort
<1>2. Leaves \in Nat /\ Leaves >= 8
  BY AttestParameters DEF AttestInv, AttestTypeOK, Leaves
<1>3. SlotCount \in Nat /\ SlotCount >= 2
  <2> HIDE DEF Leaves
  <2> QED
    BY <1>2 DEF SlotCount, LeafSourceStart
<1> HIDE DEF length
<1>4. length <= SlotCount
  BY <1>1, <1>3
<1> QED
  BY <1>4 DEF length

(* Every item that endorse sends has a slot in a tree of depth three or    *)
(* more, whatever the values of its options.                               *)
THEOREM EndorsementsHaveSlots == AttestSpec => []EndorsementsFit
BY InvEndorsementsFit, AttestInvariant, PTL
=============================================================================
