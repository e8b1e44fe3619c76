CONSTANTS
  Keys = {k1}
  Rate <- MCRate
  Window <- MCWindow
  Burst <- MCBurst
  MaxTime <- MCMaxTime
  MaxSkew <- MCMaxSkew

SPECIFICATION Spec

INVARIANT TypeOK
INVARIANT SlidingWindowBound
