-------------------------- MODULE MCDispatchQueue --------------------------
(* Instances of DispatchQueue for TLC: clients, service threads and jobs are  *)
(* model values given by the configurations.                                  *)
EXTENDS DispatchQueue
=============================================================================
