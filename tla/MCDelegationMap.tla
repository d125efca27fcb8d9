-------------------------- MODULE MCDelegationMap --------------------------
(***************************************************************************)
(* DelegationMap for TLC.                                                  *)
(***************************************************************************)
EXTENDS DelegationMap

CONSTANTS h1, h2, h3
=============================================================================
