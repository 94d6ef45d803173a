---------------------------- MODULE MCArtifacts -----------------------------
(* One slot that writes the artifacts and one that verifies them meanwhile. *)
EXTENDS Artifacts, TLC

CONSTANTS writer, reader

OneWriter ==
  (writer :> Commands \ {"verify"}) @@ (reader :> {"verify"})
=============================================================================
