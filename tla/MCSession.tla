----------------------------- MODULE MCSession ------------------------------
(* Instances of Session for TLC: the configurations give the connections.    *)
EXTENDS Session
=============================================================================
