CONSTANTS
  Channels = {c1, c2}
  Groups = {g1}
  Msgs = {m1}
  Receivers = {r1, r2}
  NoWait = NoWait
  MaxQueues <- MCMaxQueues
  MaxQueueLen <- MCMaxQueueLen
  MaxInflight <- MCMaxInflight
  MaxCounter <- MCMaxCounter

SPECIFICATION Spec

INVARIANT TypeOK
INVARIANT GroupKeysNonEmpty
INVARIANT ListenersAreCurrentQueues
INVARIANT NoStrandedGetter

PROPERTY PubSubRefined
PROPERTY QueuedMessagesReachWaiters
