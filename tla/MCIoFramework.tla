--------------------------- MODULE MCIoFramework ---------------------------
(***************************************************************************)
(* A server and a client: the client sends two packets, the server one.    *)
(***************************************************************************)
EXTENDS IoFramework

CONSTANTS s, c, x, y

PacketsBothWays ==
    {[src |-> c, dst |-> s, id |-> x], [src |-> c, dst |-> s, id |-> y],
     [src |-> s, dst |-> c, id |-> 1]}

\* The packets of the client differ in name only.
Alike == Permutations({x, y})
=============================================================================
