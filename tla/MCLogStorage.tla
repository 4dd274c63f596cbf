---------------------------- MODULE MCLogStorage ----------------------------
(***************************************************************************)
(* Module LogStorage for TLC.                                              *)
(***************************************************************************)
EXTENDS LogStorage

\* Leaders whose logs part from each other at indexes 2 and 3.
MCLogs == {<<1, 1, 1, 1>>, <<1, 2, 2>>, <<1, 1, 3>>}
=============================================================================
