CONSTANTS
  c1 = c1  c2 = c2  c3 = c3  u1 = u1  u2 = u2
  Conns = {c1, c2, c3}
  Users = {u1, u2}
  Groups = {g1, g2}
  NoUser = NoUser
  CallerUsers <- AnyUser

SPECIFICATION Spec

INVARIANT RegistryIndexesAgree
