CONSTANTS
  ca = ca  cn = cn  u1 = u1
  Conns = {ca, cn}
  Owner <- MCOwner
  NoUser = NoUser
  Stages <- MCStages
  Links <- MCLinks
  NoLink = NoLink
  \* Settings has no RATE_LIMIT_ENABLED: enabled as an application would set it
  RateLimitEnabled = TRUE
  Rate <- MCRate
  Window <- MCWindow
  Burst <- MCBurst
  MaxTime <- MCMaxTime
  FrameKinds = {"object", "invalid", "nonobject"}
  Types = {"message", "ping", "pong", "connect", "list"}
  Priorities = {"known", "unhashable"}
  Ttls = {"none", "zero", "nonnumeric"}
  Sizes = {"small", "large"}
  AppResults = {"ok", "MessageError"}
  None = None

SPECIFICATION Spec

INVARIANT TypeOK
INVARIANT UnauthenticatedNeverDelivered
INVARIANT MessageRoundTrip

PROPERTY RejectedTrafficCostsNoTokens
