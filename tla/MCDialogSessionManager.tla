----------------------- MODULE MCDialogSessionManager -----------------------
(* Constants for checking DialogSessionManager with TLC.                   *)
EXTENDS DialogSessionManager, TLC

\* Dialogs and message ids are only compared, so their permutations are
\* symmetries of the specification.
Symmetry == Permutations(Dialogs) \cup Permutations(MsgIds)
=============================================================================
