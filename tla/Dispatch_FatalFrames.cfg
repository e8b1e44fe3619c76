CONSTANTS
  ca = ca  cn = cn  u1 = u1
  Conns = {ca, cn}
  Owner <- MCOwner
  NoUser = NoUser
  Stages <- MCStages
  Links <- MCLinks
  NoLink = NoLink
  \* Settings has no RATE_LIMIT_ENABLED: enabled as an application would set it
  RateLimitEnabled = TRUE
  Rate <- MCRate
  Window <- MCWindow
  Burst <- MCBurst
  MaxTime <- MCMaxTime
  FrameKinds = {"object", "invalid"}
  Types = {"message"}
  Priorities = {"known", "unhashable"}
  Ttls = {"none"}
  Sizes = {"small"}
  AppResults = {"ok"}
  None = None

SPECIFICATION Spec

INVARIANT ClientFramesNeverFatal
