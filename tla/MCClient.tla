------------------------------ MODULE MCClient ------------------------------
(***************************************************************************)
(* Client for TLC: what each client runs.                                  *)
(***************************************************************************)
EXTENDS Client

CONSTANTS h1, h2, c1, c2

NoRequest == [h \in Host |-> {}]
SetupAndGets == [c \in Client |-> IF c = c1 THEN "setup" ELSE "g"]
SetsOnly == [c \in Client |-> "s"]
ShardsOnly == [c \in Client |-> IF c = c1 THEN "f" ELSE "g"]
=============================================================================
