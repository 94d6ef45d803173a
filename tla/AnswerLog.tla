----------------------------- MODULE AnswerLog ------------------------------
(***************************************************************************)
(* What bootlog promises whoever reads its log: the device carries out an  *)
(* exchange at most once, and all that ever happens to the log is that the *)
(* answer of an exchange that was carried out comes to stand at its end,   *)
(* no answer a second time.                                                *)
(***************************************************************************)
EXTENDS Sequences

CONSTANT Exchanges

VARIABLES
  served,   \* exchanges the device carried out
  log       \* whose answers the log holds, in the order of the file

vars == <<served, log>>

Init == served = {} /\ log = << >>

Serve ==
  /\ \E i \in Exchanges \ served : served' = served \cup {i}
  /\ UNCHANGED log

Keep ==
  /\ \E i \in served :
       /\ \A k \in DOMAIN log : log[k] # i
       /\ log' = Append(log, i)
  /\ UNCHANGED served

Next == Serve \/ Keep

Spec == Init /\ [][Next]_vars
=============================================================================
