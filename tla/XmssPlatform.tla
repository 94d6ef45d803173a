---------------------------- MODULE XmssPlatform ----------------------------
(***************************************************************************)
(* mcu_xmss.c: the device's signing key, kept in RAM only, and the index   *)
(* of the next one-time key.  XMSS stays secure only while no one-time key *)
(* signs two messages.                                                     *)
(*                                                                         *)
(* A key pair is known by the number of its generation; key generation     *)
(* draws from a random source, so no two generations are equal.  With      *)
(* XMSSMT-SHA2_40/8_256 a signature is larger than the static fallback     *)
(* buffers, so a failed malloc is always an error.                         *)
(***************************************************************************)
EXTENDS Integers, Sequences

CONSTANTS
  IndexSpace,     \* indices that fit index_bytes (2^40 in the code)
  MaxKeys,        \* key generations (bound)
  MaxSignatures   \* signatures (bound)

ASSUME PlatformParameters ==
  /\ IndexSpace \in Nat \ {0}
  /\ MaxKeys \in Nat /\ MaxSignatures \in Nat

VARIABLES
  initialized,   \* g_initialized
  key,           \* the pair in g_sk_static and g_pk_static; 0 before the first
  ram_index,     \* g_ram_index
  generated,     \* key pairs generated so far
  signatures     \* every signature made, as the one-time key it used

pvars == <<initialized, key, ram_index, generated, signatures>>

PlatformInit ==
  /\ initialized = FALSE
  /\ key = 0
  /\ ram_index = 0
  /\ generated = 0
  /\ signatures = << >>

(* set_sk_index: the index bytes of the secret key hold the low bits. *)
SkIndex(index) == index % IndexSpace

-----------------------------------------------------------------------------
(* Mutant: the index is reset before the key generation, which may fail. *)
InitRamResetsFirst ==
  /\ generated < MaxKeys
  /\ ram_index' = 0
  /\ \/ generated' = generated + 1 /\ key' = generated' /\ initialized' = TRUE
     \/ UNCHANGED <<generated, key, initialized>>
  /\ UNCHANGED signatures

(* mcu_xmss_init_ram: nothing changes unless the key generation succeeded. *)
InitRam ==
  /\ generated < MaxKeys
  /\ generated' = generated + 1
  /\ key' = generated'
  /\ ram_index' = 0
  /\ initialized' = TRUE
  /\ UNCHANGED signatures

(* mcu_xmss_sign: a copy of the secret key, with the index set, is signed  *)
(* with and thrown away.  The failures (no key, no memory, an error of     *)
(* xmssmt_sign) return before anything changes.                            *)
Sign ==
  /\ initialized
  /\ Len(signatures) < MaxSignatures
  /\ signatures' = Append(signatures, [key |-> key, index |-> SkIndex(ram_index)])
  /\ ram_index' = ram_index + 1
  /\ UNCHANGED <<initialized, key, generated>>

(* mcu_xmss_test_sign_verify signs like any caller: it has used up a       *)
(* one-time key even when a later malloc or the verification fails.        *)
TestSignVerify == Sign

(* The device loses power: the static variables are as at program start.   *)
(* mcu_xmss_shutdown, which changes nothing, may or may not come before.   *)
PowerCycle ==
  /\ initialized
  /\ initialized' = FALSE
  /\ key' = 0
  /\ ram_index' = 0
  /\ UNCHANGED <<generated, signatures>>

PlatformNext == InitRam \/ Sign \/ TestSignVerify \/ PowerCycle

PlatformSpec == PlatformInit /\ [][PlatformNext]_pvars

-----------------------------------------------------------------------------
(* Properties. *)

(* Every variable keeps its type: mcu_xmss.c counts from nought in the     *)
(* index of a key it has generated, and without a key there is no index.   *)
PlatformTypeOK ==
  /\ initialized \in BOOLEAN
  /\ generated \in Nat
  /\ key \in 0 .. generated /\ (initialized <=> key # 0)
  /\ ram_index \in Nat /\ (initialized \/ ram_index = 0)
  /\ signatures \in Seq([key : 1 .. generated, index : 0 .. IndexSpace - 1])

(* No one-time key signs twice, over re-initialisation, self-tests and     *)
(* power cycles without a saved index, until a single key pair has made as *)
(* many signatures as there are indices: g_ram_index has 64 bits, the      *)
(* secret key keeps fewer, and nothing refuses the first one too many.     *)
OneTimeKeysOnce ==
  \A i, j \in DOMAIN signatures :
    i < j /\ signatures[i] = signatures[j] => j - i >= IndexSpace
=============================================================================
