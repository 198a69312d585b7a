-------------------------- MODULE MCDispatchTimer --------------------------
(* Instances of DispatchTimer for TLC.                                        *)
EXTENDS DispatchTimer, TLC

TimerSymmetry == Permutations(Timer) \cup Permutations(Caller)
=============================================================================
