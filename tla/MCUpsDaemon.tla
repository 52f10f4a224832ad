---------------------------- MODULE MCUpsDaemon -----------------------------
(* The daemon with one or two parameters. *)
EXTENDS ReadingCheck
CONSTANTS p1, p2
MCOneObject == <<p1>>
MCTwoObjects == <<p1, p2>>
=============================================================================
