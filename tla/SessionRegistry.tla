-------------------------- MODULE SessionRegistry --------------------------
(***************************************************************************)
(* What the rest of the backend may rely on from the session manager: a    *)
(* table of dialogs of bounded capacity in which some entries are busy     *)
(* producing an answer.  An entry may disappear to make room or because it *)
(* is closed or has expired, but never while it is busy.                   *)
(* DialogSessionManager implements this specification.                     *)
(***************************************************************************)
EXTENDS FiniteSets, Integers

CONSTANTS
    Dialogs,    \* dialog ids
    Capacity    \* most sessions held at a time

VARIABLES
    open,       \* the dialogs that have a session
    busy        \* those whose answer is being streamed

vars == <<open, busy>>

Init == open = {} /\ busy = {}

\* A new session; when the table is full one idle session makes room for it.
Open(d) ==
    /\ d \notin open
    /\ \/ Cardinality(open) < Capacity /\ open' = open \cup {d}
       \/ \E idle \in open \ busy : open' = (open \ {idle}) \cup {d}
    /\ UNCHANGED busy

\* Sessions are closed, by a client or because they expired.
Drop(gone) ==
    /\ gone \subseteq open \ busy
    /\ open' = open \ gone
    /\ UNCHANGED busy

Begin(d) ==
    /\ d \in open
    /\ busy' = busy \cup {d}
    /\ UNCHANGED open

End(d) ==
    /\ d \in busy
    /\ busy' = busy \ {d}
    /\ UNCHANGED open

Next ==
    \/ \E d \in Dialogs : Open(d) \/ Begin(d) \/ End(d)
    \/ \E gone \in SUBSET open : Drop(gone)

Spec == Init /\ [][Next]_vars
=============================================================================
