---------------------------- MODULE FifoChannel ----------------------------
(***************************************************************************)
(* What users of AsyncQueue rely on: items enter a channel of bounded      *)
(* capacity one at a time and leave it, each once, in the order in which   *)
(* they entered.                                                           *)
(***************************************************************************)
EXTENDS Integers, Sequences

CONSTANTS
    Items,
    MaxSize     \* capacity, 0 for unlimited

VARIABLES
    entered,    \* the items accepted so far, in order
    left        \* how many of them have been handed out

vars == <<entered, left>>

Init == entered = <<>> /\ left = 0

Enter(x) ==
    /\ MaxSize = 0 \/ Len(entered) - left < MaxSize
    /\ entered' = Append(entered, x)
    /\ UNCHANGED left

Leave ==
    /\ left < Len(entered)
    /\ left' = left + 1
    /\ UNCHANGED entered

Next == (\E x \in Items : Enter(x)) \/ Leave

Spec == Init /\ [][Next]_vars
=============================================================================
