----------------------------- MODULE MCSwpLink ------------------------------
(* Model checking SwpLink: the sizes come from the configurations.           *)
EXTENDS SwpLink
=============================================================================
