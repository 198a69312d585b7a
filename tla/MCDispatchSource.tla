-------------------------- MODULE MCDispatchSource --------------------------
(* An instance of DispatchSource for TLC: two streams of a plexer on its down *)
(* queue, and a service reference of the browser on a queue of its own.       *)
EXTENDS DispatchSource

CONSTANTS streamA, streamB, sdref, downQueue, sdrefQueue

MCQueueOf == [s \in Source |-> IF s = sdref THEN sdrefQueue ELSE downQueue]
(* One stream gets more, part of it while it is being serviced.               *)
MCMaxData == [s \in Source |-> IF s = streamA THEN 2 ELSE 1]
MCFdOf == [s \in Source |-> CASE s = streamA -> 5 [] s = streamB -> 6 [] OTHER -> 7]
=============================================================================
