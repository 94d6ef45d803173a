------------------------------ MODULE MCAttest ------------------------------
(* Trees without source slots, with three, and with the seventeen of the   *)
(* device's usual depth; payload files with requests that fit, overflow    *)
(* and repeat items, that ask for no leaf hashes, or are no requests.      *)
EXTENDS Attest

CONSTANTS x, y, orgId, orgPk, otherWord, otherOid

Data(value) == [data |-> <<value>>]
X == Data(x)
Y == Data(y)

MCTorn == [data |-> <<x, y>>]
MCExampleSources == <<X, Y>>

MCSources ==
  {<< >>, <<X>>, <<Y, Y, X, X>>, [n \in 1 .. 18 |-> IF n = 18 THEN Y ELSE X]}

MCFiles == {"data", "cbor"}

MCDisks ==
  [data : {X}, cbor : {SignPayload(s) : s \in MCSources} \cup
                      {[source |-> <<X>>, include |-> FALSE]}]

Attestation(command, cbor, file, out) ==
  [command |-> command, payload_cbor |-> cbor, payload_file |-> file, out_payload_cbor |-> out]

Endorse(hex, id, pk, after) ==
  [command |-> "endorse", data_hex |-> hex, org_id |-> id, org_pk |-> pk,
   not_before |-> NotGiven, not_after |-> after]

MCRuns ==
  {Attestation("attestation", NotGiven, NotGiven, NotGiven),
   Attestation("attestation", "cbor", NotGiven, NotGiven),
   Attestation("attestation", NotGiven, "data", "cbor"),
   Attestation("attestation-file", NotGiven, "data", NotGiven),
   Attestation("attestation-file", "cbor", "data", NotGiven),
   Endorse(NotGiven, <<orgId>>, <<orgPk>>, NotGiven),
   Endorse(<<x>>, NotGiven, NotGiven, 1)}

Plain == [present |-> FALSE, use_node_prefix |-> FALSE,
          use_depth_prefix |-> FALSE, use_double_leaf_hash |-> FALSE]
Secure == [present |-> TRUE, use_node_prefix |-> TRUE,
           use_depth_prefix |-> TRUE, use_double_leaf_hash |-> TRUE]

MCDevices ==
  {[depth |-> 5, flags |-> Secure, word |-> DefaultOid],
   [depth |-> 3, flags |-> Secure, word |-> otherWord],
   [depth |-> 3, flags |-> Plain, word |-> DefaultOid],
   [depth |-> 3, flags |-> Secure, word |-> otherOid],
   [depth |-> 2, flags |-> Secure, word |-> DefaultOid]}
=============================================================================
