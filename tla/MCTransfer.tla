----------------------------- MODULE MCTransfer -----------------------------
(* Instances of Transfer for TLC: the configurations give the sizes.          *)
EXTENDS Transfer
=============================================================================
