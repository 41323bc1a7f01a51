-------------------------- MODULE MCQueuedEventBus --------------------------
(* Constants for checking QueuedEventBus with TLC.                         *)
EXTENDS QueuedEventBus

CONSTANTS e1, e2, e3, s1, s2

\* e1 and e3 are for everybody, e2 only for s2.
MCWants == {<<s1, e1>>, <<s2, e1>>, <<s2, e2>>, <<s1, e3>>, <<s2, e3>>}
=============================================================================
