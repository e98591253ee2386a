---------------------------- MODULE MCWorkspace ----------------------------
(***************************************************************************)
(* Instances of Workspace for TLC.                                         *)
(***************************************************************************)
EXTENDS Workspace

CONSTANTS j1, j2

\* Humans push to and delete the branch of one job; that of the other may exist
\* before its job has worked.
BothTouched == {<<"push", j1>>, <<"delete", j1>>, <<"orphan", j2>>}
=============================================================================
