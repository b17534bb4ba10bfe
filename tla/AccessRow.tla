----------------------------- MODULE AccessRow -----------------------------
(***************************************************************************)
(* What the users table promises of one person's access (web/db/users_pg.go, *)
(* queries/users.sql): it starts with a request, is decided any number of   *)
(* times, and only forgetting the row lets the person ask again.            *)
(***************************************************************************)
CONSTANT Users

VARIABLE access

Outcome == {"approved", "rejected", "revoked"}

Set(u, s) == access' = [access EXCEPT ![u] = s]

Request(u) == access[u] = "none" /\ Set(u, "pending")
Settle(u)  == access[u] # "none" /\ \E s \in Outcome : Set(u, s)
Forget(u)  == access[u] # "none" /\ Set(u, "none")

RowInit == access = [u \in Users |-> "none"]
RowNext == \E u \in Users : Request(u) \/ Settle(u) \/ Forget(u)

RowSpec == RowInit /\ [][RowNext]_access
=============================================================================
