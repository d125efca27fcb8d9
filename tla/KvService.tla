----------------------------- MODULE KvService -----------------------------
(***************************************************************************)
(* What the hosts of IronSHT together promise their clients: one table,    *)
(* whatever host a key lives on, and requests that take effect one at a    *)
(* time, each at most once. A host may never answer a request (it          *)
(* redirects the client, or gives up), so nothing is promised of when.     *)
(* It is the service whose requests and replies abstract_service_t.rs      *)
(* declares; app_interface_t.rs declares the table.                        *)
(***************************************************************************)
CONSTANTS Key, NoValue, Requests

VARIABLES
    table,      \* the value of every key, NoValue if it has none
    requests,   \* the requests clients have made
    replies     \* what was answered to which request

vars == <<table, requests, replies>>

AppReply(r, v) == [request |-> r, v |-> v]

Init ==
    /\ table = [k \in Key |-> NoValue]
    /\ requests = {}
    /\ replies = {}

Submit(r) ==
    /\ requests' = requests \cup {r}
    /\ UNCHANGED <<table, replies>>

Unanswered(r) == \A a \in replies : a.request # r

AppGetRequest(r) ==
    /\ r.msg.m.type = "GetRequest"
    /\ Unanswered(r)
    /\ replies' = replies \cup {AppReply(r, table[r.msg.m.k])}
    /\ UNCHANGED <<table, requests>>

AppSetRequest(r) ==
    /\ r.msg.m.type = "SetRequest"
    /\ Unanswered(r)
    /\ table' = [table EXCEPT ![r.msg.m.k] = r.msg.m.v]
    /\ replies' = replies \cup {AppReply(r, r.msg.m.v)}
    /\ UNCHANGED requests

Next ==
    \/ \E r \in Requests : Submit(r)
    \/ \E r \in requests : AppGetRequest(r) \/ AppSetRequest(r)

Spec == Init /\ [][Next]_vars
=============================================================================
