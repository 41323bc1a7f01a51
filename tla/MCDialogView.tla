---------------------------- MODULE MCDialogView ----------------------------
(***************************************************************************)
(* DialogView for TLC: dialogs and messages are interchangeable.           *)
(***************************************************************************)
EXTENDS DialogView

Symmetry == Permutations(Dialogs) \cup Permutations(MsgIds)
=============================================================================
