CONSTANTS
  c1 = c1  c2 = c2  c3 = c3  u1 = u1
  Conns = {c1, c2}
  Users = {u1}
  Owner <- MCOwner
  NoUser = NoUser
  Groups = {g1, g2}
  NoGroup = NoGroup
  MonitorEnabled = TRUE

SPECIFICATION Spec

INVARIANT PresenceMatchesLiveConnections
PROPERTY ExpiredConnectionsAreClosed

CHECK_DEADLOCK FALSE
