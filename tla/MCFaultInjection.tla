-------------------------- MODULE MCFaultInjection --------------------------
(* Requests for FaultInjection: one frame without payload, and fragments.   *)
EXTENDS FaultInjection

Small == [wire |-> SmallFrame, empty |-> FALSE]
Large == [wire |-> SmallFrame + 1, empty |-> FALSE]

SomeRequests ==
  { <<[wire |-> SmallFrame - 1, empty |-> TRUE]>>,
    <<Large, Large, Large, Small>>,
    <<Large, Small>> }
=============================================================================
