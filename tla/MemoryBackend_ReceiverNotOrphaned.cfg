CONSTANTS
  Channels = {c1, c2}
  Groups = {g1, g2}
  Msgs = {m1}
  Receivers = {r1}
  NoWait = NoWait
  MaxQueues <- MCMaxQueues
  MaxQueueLen <- MCMaxQueueLen
  MaxInflight <- MCMaxInflight
  MaxCounter <- MCMaxCounter

SPECIFICATION Spec


INVARIANT ReceiverNotOrphaned
