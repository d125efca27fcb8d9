----------------------------- MODULE MCHostLoop -----------------------------
(***************************************************************************)
(* HostLoop for TLC.                                                       *)
(***************************************************************************)
EXTENDS HostLoop

CONSTANTS a, b
=============================================================================
