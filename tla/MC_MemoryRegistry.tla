------------------------- MODULE MC_MemoryRegistry -------------------------
(* Model-checking instance of MemoryRegistry: three connections, two of   *)
(* one user (so a user key must survive one removal and vanish on the     *)
(* second) and one anonymous; two users; two groups.                       *)
EXTENDS MemoryRegistry

CONSTANTS c1, c2, c3, u1, u2

\* connection.user_id of each connection; it never changes.
Owner == (c1 :> u1) @@ (c2 :> u1) @@ (c3 :> NoUser)

\* Callers that pass the connection's own user_id.
OwnUser(c) == {Owner[c]}

\* Callers that may pass any user_id, e.g. one the connection was not
\* registered under.
AnyUser(c) == Users \cup {NoUser}
=============================================================================
