CONSTANTS
  c1 = c1  c2 = c2  c3 = c3  u1 = u1
  Conns = {c1, c2, c3}
  Users = {u1}
  Owner <- MCOwner3
  NoUser = NoUser
  Groups = {g1, g2}
  NoGroup = NoGroup
  MonitorEnabled = FALSE

SPECIFICATION Spec

INVARIANT TypeOK
INVARIANT PresenceMatchesLiveConnections

CHECK_DEADLOCK FALSE
