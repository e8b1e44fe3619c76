--------------------------- MODULE MemoryRegistry ---------------------------
(***************************************************************************)
(* The presence registry of src/core/backends/memory.py MemoryBackend:    *)
(* the set of registered connections, each connection's data, and the    *)
(* secondary index user_id -> connections.  Every registry method runs   *)
(* under self._lock with no await inside, so each is one atomic step.    *)
(* Metadata and heartbeat_timeout are stored and never read by the       *)
(* backend; they are left out.  The read-only methods (get groups,       *)
(* count, get user connections) are the views defined below.             *)
(*                                                                         *)
(* The backend takes the user_id of registry_remove_connection from its  *)
(* caller instead of from the stored data.  CallerUsers(c) is the set of *)
(* user_ids a caller may pass for connection c: every user, or only the  *)
(* connection's own.                                                      *)
(***************************************************************************)
EXTENDS FiniteSets, PyDict

CONSTANTS
  Conns,          \* connection ids (channel names)
  Users,          \* user ids
  Groups,         \* group names
  NoUser,         \* user_id None
  CallerUsers(_)  \* user_ids a caller passes for a connection

VARIABLES
  regConns,   \* _registry_connections
  regData,    \* _registry_connection_data: conn -> [user, groups]
  userConns   \* _registry_user_connections: user -> conns

vars == <<regConns, regData, userConns>>

TypeOK ==
  /\ regConns \subseteq Conns
  /\ DOMAIN regData \subseteq Conns
  /\ \A c \in DOMAIN regData :
       regData[c] \in [user : Users \cup {NoUser}, groups : SUBSET Groups]
  /\ DOMAIN userConns \subseteq Users
  /\ \A u \in DOMAIN userConns : userConns[u] \subseteq Conns

Init ==
  /\ regConns = {}
  /\ regData = EmptyMap
  /\ userConns = EmptyMap

(* Mutants: plausible slips in the code below.                            *)

\* registry_remove_connection without deleting the emptied user key.
RegistryRemoveKeepKey(c, u) ==
  /\ regConns' = regConns \ {c}
  /\ regData' = Del(regData, c)
  /\ userConns' = IF u # NoUser /\ u \in DOMAIN userConns
                    THEN (u :> (userConns[u] \ {c})) @@ userConns
                    ELSE userConns

\* registry_add_connection: (re)write the connection's data, and index it
\* under a truthy user_id.
RegistryAdd(c, u, gs) ==
  /\ regConns' = regConns \cup {c}
  /\ regData' = (c :> [user |-> u, groups |-> gs]) @@ regData
  /\ userConns' = IF u # NoUser THEN AddMember(userConns, u, c) ELSE userConns

\* registry_remove_connection: forget the connection and discard it from
\* the index entry of the user_id the caller passes.
RegistryRemove(c, u) ==
  /\ regConns' = regConns \ {c}
  /\ regData' = Del(regData, c)
  /\ userConns' = IF u # NoUser /\ u \in DOMAIN userConns
                    THEN DiscardMember(userConns, u, c)
                    ELSE userConns

\* registry_update_groups: replace the groups of a registered connection;
\* unknown connections are ignored (that step stutters).
RegistryUpdateGroups(c, gs) ==
  /\ c \in DOMAIN regData
  /\ regData' = [regData EXCEPT ![c].groups = gs]
  /\ UNCHANGED <<regConns, userConns>>

Next ==
  \E c \in Conns :
    \/ \E u \in CallerUsers(c), gs \in SUBSET Groups : RegistryAdd(c, u, gs)
    \/ \E u \in CallerUsers(c) : RegistryRemove(c, u)
    \/ \E gs \in SUBSET Groups : RegistryUpdateGroups(c, gs)

Spec == Init /\ [][Next]_vars

\* registry_get_user_connections / registry_count_connections
UserConnections(u) == SetAt(userConns, u)
ConnectionCount == Cardinality(regConns)

-----------------------------------------------------------------------------
(* Properties.                                                             *)

\* The user index a correct registry would hold: each user with at least
\* one registered connection, mapped to exactly those connections.
ExpectedUserIndex ==
  LET owners == {regData[c].user : c \in DOMAIN regData} \ {NoUser}
  IN  [u \in owners |-> {c \in DOMAIN regData : regData[c].user = u}]

\* Spec section 3 (Registry) and section 8: the connection set, the data
\* map and the user index agree, with no empty user keys;
\* registry_get_user_connections(u) is exactly the live connections most
\* recently added under u.  It is about add indexing under the new user_id
\* without un-indexing a previous one, and remove trusting the caller's
\* user_id and deleting the key when it empties.
RegistryIndexesAgree ==
  /\ regConns = DOMAIN regData
  /\ userConns = ExpectedUserIndex
=============================================================================
