---------------------------- MODULE ChannelLayer ----------------------------
(***************************************************************************)
(* Connections of one process over the in-memory backend: the consumer of *)
(* src/fastapi_channel/consumer/base.py, the ConnectionManager it calls,  *)
(* the backend's group index (MemoryBackend) and its registry             *)
(* (MemoryRegistry, composed by INSTANCE).                                *)
(*                                                                         *)
(* The ConnectionManager and Connection are imported by the consumer but  *)
(* are not in this repository; their steps follow spec.md sections 4.2,   *)
(* 4.3 and 5.  join_group and leave_group call the backend first and then *)
(* update the connection's mirror, with the backend call as a suspension  *)
(* point between the two; disconnect moves the connection to              *)
(* DISCONNECTING, leaves every group of the mirror as it was when it      *)
(* started, removes the connection from the registry, and ends in         *)
(* DISCONNECTED; it returns at once on a DISCONNECTED connection.         *)
(*                                                                         *)
(* Tasks: per connection, the transport loop that calls handle_message    *)
(* (whose receive() hook, application code that may await anything, can *)
(* join or leave a group before it returns) and, when the socket          *)
(* closes, consumer.disconnect(); and the manager's heartbeat monitor,    *)
(* which disconnects connections whose heartbeat has expired.  Time is    *)
(* abstracted to `stale`: the heartbeat timeout elapsed since the latest  *)
(* pong.  group_send and the queues do not change what this model tracks  *)
(* and are left to MemoryBackend.                                          *)
(***************************************************************************)
EXTENDS FiniteSets, PyDict

CONSTANTS
  Conns,           \* channel names of accepted connections
  Users,           \* user ids
  Owner,           \* connection -> its user_id, or NoUser
  NoUser,          \* user_id None
  Groups,          \* group names the application uses
  NoGroup,         \* no group argument
  MonitorEnabled   \* whether the manager runs its heartbeat monitor

Tasks == {"client", "monitor"}

States == {"CONNECTING", "CONNECTED", "DISCONNECTING", "DISCONNECTED"}

\* What a connection's transport task is doing: idle between frames,
\* inside the application's receive() hook, suspended inside join_group
\* or leave_group after the backend call, inside the on_disconnect hook,
\* inside manager.disconnect, or finished.
ClientOps == {"idle", "recv", "join", "leave", "hook", "disconnect", "closed"}

VARIABLES
  groups,                          \* BaseBackend.groups
  regConns, regData, userConns,    \* the backend's registry
  state,                           \* connection -> Connection.state
  mirror,                          \* connection -> Connection.groups
  stale,                           \* connection -> heartbeat timed out
  client,                          \* connection -> its transport task
  disc                             \* connection -> task -> its disconnect

vars == <<groups, regConns, regData, userConns, state, mirror, stale,
          client, disc>>

\* BaseBackend.group_add and group_discard (MemoryBackend's GroupAdd and
\* GroupDiscard, which touch only the group index).
GroupAdd(g, c) == groups' = AddMember(groups, g, c)

\* group_discard, a no-op for an absent group.
GroupDiscard(g, c) ==
  groups' = IF g \in DOMAIN groups THEN DiscardMember(groups, g, c)
                                   ELSE groups

\* The manager registers and removes a connection under its own user_id.
Registry == INSTANCE MemoryRegistry WITH CallerUsers <- LAMBDA c : {Owner[c]}

NoDisc == [ph |-> "none", todo |-> {}]

Idle == [op |-> "idle", g |-> NoGroup]

TypeOK ==
  /\ DOMAIN groups \subseteq Groups
  /\ \A g \in DOMAIN groups : groups[g] \subseteq Conns
  /\ Registry!TypeOK
  /\ state \in [Conns -> States]
  /\ mirror \in [Conns -> SUBSET Groups]
  /\ stale \in [Conns -> BOOLEAN]
  /\ client \in [Conns -> [op : ClientOps, g : Groups \cup {NoGroup}]]
  /\ disc \in [Conns -> [Tasks -> [ph : {"none", "leave"},
                                  todo : SUBSET Groups]]]

Init ==
  /\ groups = EmptyMap
  /\ Registry!Init
  /\ state = [c \in Conns |-> "CONNECTING"]
  /\ mirror = [c \in Conns |-> {}]
  /\ stale = [c \in Conns |-> FALSE]
  /\ client = [c \in Conns |-> Idle]
  /\ disc = [c \in Conns |-> [t \in Tasks |-> NoDisc]]

\* The socket is open from accept until disconnect closes it.
TransportOpen(c) == state[c] \in {"CONNECTED", "DISCONNECTING"}

RegistryVars == <<regConns, regData, userConns>>

-----------------------------------------------------------------------------
(* The manager accepts the socket and registers the connection.           *)

Connect(c) ==
  /\ state[c] = "CONNECTING"
  /\ state' = [state EXCEPT ![c] = "CONNECTED"]
  /\ Registry!RegistryAdd(c, Owner[c], {})
  /\ UNCHANGED <<groups, mirror, stale, client, disc>>

-----------------------------------------------------------------------------
(* The transport task: handle_message and the receive() hook it calls.    *)

\* handle_message on a frame other than pong, once the stages have passed
\* it: the task awaits the application's receive() hook.
Frame(c) ==
  /\ client[c] = Idle /\ TransportOpen(c)
  /\ client' = [client EXCEPT ![c] = [op |-> "recv", g |-> NoGroup]]
  /\ UNCHANGED <<groups, RegistryVars, state, mirror, stale, disc>>

\* The receive() hook returns without a group call.
ReceiveReturns(c) ==
  /\ client[c].op = "recv"
  /\ client' = [client EXCEPT ![c] = Idle]
  /\ UNCHANGED <<groups, RegistryVars, state, mirror, stale, disc>>

\* Mutant: join_group passes group and channel in swapped order.
ClientJoinSwapped(c, g) ==
  /\ client[c].op = "recv"
  /\ GroupAdd(c, g)
  /\ client' = [client EXCEPT ![c] = [op |-> "join", g |-> g]]
  /\ UNCHANGED <<RegistryVars, state, mirror, stale, disc>>

\* The hook calls consumer.join_group -> manager.join_group, which checks
\* no connection state: group_add, then suspended until the backend
\* returns.
ClientJoin(c, g) ==
  /\ client[c].op = "recv"
  /\ GroupAdd(g, c)
  /\ client' = [client EXCEPT ![c] = [op |-> "join", g |-> g]]
  /\ UNCHANGED <<RegistryVars, state, mirror, stale, disc>>

\* join_group resumes, adds the group to the mirror, and the hook returns.
ClientJoinMirror(c) ==
  /\ client[c].op = "join"
  /\ mirror' = [mirror EXCEPT ![c] = @ \cup {client[c].g}]
  /\ client' = [client EXCEPT ![c] = Idle]
  /\ UNCHANGED <<groups, RegistryVars, state, stale, disc>>

\* The hook calls consumer.leave_group -> manager.leave_group:
\* group_discard first.
ClientLeave(c, g) ==
  /\ client[c].op = "recv"
  /\ GroupDiscard(g, c)
  /\ client' = [client EXCEPT ![c] = [op |-> "leave", g |-> g]]
  /\ UNCHANGED <<RegistryVars, state, mirror, stale, disc>>

\* leave_group resumes, removes the group from the mirror, and the hook
\* returns.
ClientLeaveMirror(c) ==
  /\ client[c].op = "leave"
  /\ mirror' = [mirror EXCEPT ![c] = @ \ {client[c].g}]
  /\ client' = [client EXCEPT ![c] = Idle]
  /\ UNCHANGED <<groups, RegistryVars, state, stale, disc>>

\* handle_message on a "pong" frame: update_heartbeat() and return.
Pong(c) ==
  /\ client[c] = Idle /\ TransportOpen(c)
  /\ stale' = [stale EXCEPT ![c] = FALSE]
  /\ UNCHANGED <<groups, RegistryVars, state, mirror, client, disc>>

\* The socket closes (the client left, or the monitor closed it): the
\* transport task calls consumer.disconnect(), which first awaits the
\* application's on_disconnect hook.
TransportClosed(c) ==
  /\ client[c] = Idle /\ state[c] # "CONNECTING"
  /\ client' = [client EXCEPT ![c] = [op |-> "hook", g |-> NoGroup]]
  /\ UNCHANGED <<groups, RegistryVars, state, mirror, stale, disc>>

\* The heartbeat timeout elapses without a pong.
Expire(c) ==
  /\ state[c] = "CONNECTED" /\ ~stale[c]
  /\ stale' = [stale EXCEPT ![c] = TRUE]
  /\ UNCHANGED <<groups, RegistryVars, state, mirror, client, disc>>

-----------------------------------------------------------------------------
(* manager.disconnect(channel, code), run by task t.                      *)

\* Return at once on a DISCONNECTED connection; otherwise move to
\* DISCONNECTING and take the mirror as the groups to leave.
BeginDisconnect(c, t) ==
  IF state[c] = "DISCONNECTED" THEN UNCHANGED <<state, disc>>
  ELSE /\ state' = [state EXCEPT ![c] = "DISCONNECTING"]
       /\ disc' = [disc EXCEPT ![c][t] = [ph |-> "leave", todo |-> mirror[c]]]

\* consumer.disconnect: on_disconnect has returned; call manager.disconnect.
ClientHookDone(c) ==
  /\ client[c].op = "hook"
  /\ BeginDisconnect(c, "client")
  /\ client' = [client EXCEPT ![c].op = IF state[c] = "DISCONNECTED"
                                          THEN "closed" ELSE "disconnect"]
  /\ UNCHANGED <<groups, RegistryVars, mirror, stale>>

\* The heartbeat monitor, between two disconnects of its own, disconnects
\* a connected connection whose heartbeat has expired.
MonitorCheck(c) ==
  /\ MonitorEnabled
  /\ state[c] = "CONNECTED" /\ stale[c]
  /\ \A d \in Conns : disc[d]["monitor"].ph = "none"
  /\ BeginDisconnect(c, "monitor")
  /\ UNCHANGED <<groups, RegistryVars, mirror, stale, client>>

\* leave_group for one group of the snapshot.
DisconnectLeave(c, t, g) ==
  /\ disc[c][t].ph = "leave" /\ g \in disc[c][t].todo
  /\ GroupDiscard(g, c)
  /\ mirror' = [mirror EXCEPT ![c] = @ \ {g}]
  /\ disc' = [disc EXCEPT ![c][t].todo = @ \ {g}]
  /\ UNCHANGED <<RegistryVars, state, stale, client>>

\* Mutant: unregistering waits until the mirror is empty.
DisconnectFinishDrained(c, t) ==
  /\ disc[c][t].ph = "leave" /\ mirror[c] = {}
  /\ Registry!RegistryRemove(c, Owner[c])
  /\ state' = [state EXCEPT ![c] = "DISCONNECTED"]
  /\ disc' = [disc EXCEPT ![c][t] = NoDisc]
  /\ client' = IF t = "client" THEN [client EXCEPT ![c].op = "closed"]
                               ELSE client
  /\ UNCHANGED <<groups, mirror, stale>>

\* Every group left: remove the registry entry, mark the connection
\* DISCONNECTED and close the socket.
DisconnectFinish(c, t) ==
  /\ disc[c][t].ph = "leave" /\ disc[c][t].todo = {}
  /\ Registry!RegistryRemove(c, Owner[c])
  /\ state' = [state EXCEPT ![c] = "DISCONNECTED"]
  /\ disc' = [disc EXCEPT ![c][t] = NoDisc]
  /\ client' = IF t = "client" THEN [client EXCEPT ![c].op = "closed"]
                               ELSE client
  /\ UNCHANGED <<groups, mirror, stale>>

-----------------------------------------------------------------------------

Next ==
  \E c \in Conns :
    \/ Connect(c)
    \/ Frame(c)
    \/ ReceiveReturns(c)
    \/ \E g \in Groups : ClientJoin(c, g) \/ ClientLeave(c, g)
    \/ ClientJoinMirror(c)
    \/ ClientLeaveMirror(c)
    \/ Pong(c)
    \/ TransportClosed(c)
    \/ Expire(c)
    \/ ClientHookDone(c)
    \/ MonitorCheck(c)
    \/ \E t \in Tasks :
         \/ \E g \in Groups : DisconnectLeave(c, t, g)
         \/ DisconnectFinish(c, t)

\* The event loop resumes every task whose await has completed and runs
\* the periodic monitor; clients, the heartbeat timer and the application
\* hooks' calls get no fairness.
Fairness ==
  \A c \in Conns :
    /\ WF_vars(ClientJoinMirror(c))
    /\ WF_vars(ClientLeaveMirror(c))
    /\ WF_vars(ClientHookDone(c))
    /\ WF_vars(MonitorCheck(c))
    /\ \A t \in Tasks :
         /\ WF_vars(\E g \in Groups : DisconnectLeave(c, t, g))
         /\ WF_vars(DisconnectFinish(c, t))

Spec == Init /\ [][Next]_vars /\ Fairness

-----------------------------------------------------------------------------
(* Properties.                                                             *)

\* The groups the backend's index holds connection c in.
IndexedGroups(c) == {g \in DOMAIN groups : c \in groups[g]}

\* Spec sections 3 (Connection) and 5: once disconnect has finished, the
\* connection is in no group of the backend's index, has no registry
\* entry, and its mirror is empty.  It is about manager.disconnect leaving
\* the groups of a snapshot of the mirror while the transport task's
\* receive() hook is still running and may call join_group, which checks
\* no connection state.
DisconnectedLeavesNoTrace ==
  \A c \in Conns :
    state[c] = "DISCONNECTED" =>
      /\ IndexedGroups(c) = {}
      /\ c \notin regConns
      /\ mirror[c] = {}

\* Connections whose socket is open: accepted and not yet disconnected.
Live == {c \in Conns : TransportOpen(c)}

\* Spec sections 3 and 8 (Registry): the registry holds exactly the live
\* connections, and registry_get_user_connections(u) is exactly the live
\* connections of user u, with no key for a user who has none.  It is
\* about the manager registering on accept and unregistering on the
\* disconnect that finishes (a second, overlapping disconnect removing an
\* absent entry), and remove_connection discarding from the user index
\* and deleting a user's key only with the last of several connections.
PresenceMatchesLiveConnections ==
  /\ regConns = Live
  /\ DOMAIN regData = Live
  /\ userConns = [u \in {Owner[c] : c \in Live} \ {NoUser} |->
                    {c \in Live : Owner[c] = u}]

\* Spec section 4.2: a connected connection whose heartbeat has expired is
\* eventually disconnected, unless a pong arrives first.  It is about the
\* periodic monitor and every disconnect it or the transport task starts
\* running to completion under the event loop's scheduling.
ExpiredConnectionsAreClosed ==
  \A c \in Conns :
    (state[c] = "CONNECTED" /\ stale[c]) ~>
      (state[c] = "DISCONNECTED" \/ ~stale[c])
=============================================================================
