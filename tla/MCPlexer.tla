------------------------------ MODULE MCPlexer ------------------------------
(* Instances of Plexer for TLC: the configurations give small numbers of      *)
(* streams, writes and failures.                                              *)
EXTENDS Plexer
=============================================================================
