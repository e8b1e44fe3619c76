--------------------------- MODULE MemoryBackend ---------------------------
(***************************************************************************)
(* The pub/sub half of the in-memory channel layer backend:               *)
(*   src/core/backends/base.py    BaseBackend  (group index, counter,     *)
(*                                flush)                                  *)
(*   src/core/backends/memory.py  MemoryBackend (channel queues,          *)
(*                                listeners, publish, group_send,         *)
(*                                receive, cleanup)                       *)
(*                                                                         *)
(* The backend runs on one asyncio event loop.  Every method that only    *)
(* takes self._lock and mutates dicts never suspends (an uncontended      *)
(* asyncio.Lock is acquired without yielding, and put() on an unbounded   *)
(* asyncio.Queue never waits), so each is one atomic step.  Two methods   *)
(* really suspend, and are split at the suspension point:                 *)
(*   group_send  snapshots the member set, then awaits asyncio.gather of  *)
(*               one publish task per member; those tasks run later, as  *)
(*               one block, in the event loop's FIFO ready queue;         *)
(*   get_message binds the channel's current queue, then awaits get()    *)
(*               on it, possibly under a timeout.                         *)
(* An asyncio.Queue object is represented by a queue id; queues holds the *)
(* contents of every queue ever created, also those no channel maps to,  *)
(* and getters its _getters deque: the tasks suspended in get() whose    *)
(* future no put() has resolved yet.  A put() resolves the oldest one    *)
(* (_wakeup_next); the woken task resumes later, and takes an item only  *)
(* if the queue still holds one then.                                    *)
(***************************************************************************)
EXTENDS Naturals, Sequences, FiniteSets, SequencesExt, PyDict

CONSTANTS
  Channels,     \* channel names
  Groups,       \* group names
  Msgs,         \* message payloads (opaque to the backend)
  Receivers,    \* tasks that call receive(channel, timeout)
  NoWait,       \* a receiver that is not suspended in receive()
  MaxQueues,    \* bound: asyncio.Queue objects subscribe() may create
  MaxQueueLen,  \* bound: messages one queue holds
  MaxInflight,  \* bound: group_send fan-outs scheduled and not yet run
  MaxCounter    \* bound: _channel_counter

ASSUME MaxQueues \in Nat /\ MaxQueueLen \in Nat /\ MaxInflight \in Nat
ASSUME MaxCounter \in Nat

QueueIds == 1..MaxQueues

VARIABLES
  groups,     \* BaseBackend.groups: group -> set of channels
  channels,   \* MemoryBackend.channels: channel -> its queue
  listeners,  \* MemoryBackend.listeners (defaultdict(set)): channel -> queues
  queues,     \* queue id -> messages held by that asyncio.Queue
  nextQueue,  \* queues created so far (ids 1..nextQueue are in use)
  inflight,   \* gathered publish blocks not yet run, in ready-queue order
  waiting,    \* receiver -> the queue it is suspended on in get(), or NoWait
  getters,    \* queue id -> receivers in its _getters deque, oldest first
  counter     \* BaseBackend._channel_counter

vars == <<groups, channels, listeners, queues, nextQueue, inflight,
          waiting, getters, counter>>

\* _get_group_channels: a copy of the group's members, empty when absent.
GroupChannels(g) == SetAt(groups, g)

Waiter == [q : QueueIds, ch : Channels, timed : BOOLEAN, woken : BOOLEAN]

TypeOK ==
  /\ DOMAIN groups \subseteq Groups
  /\ \A g \in DOMAIN groups : groups[g] \subseteq Channels
  /\ DOMAIN channels \subseteq Channels
  /\ \A c \in DOMAIN channels : channels[c] \in QueueIds
  /\ DOMAIN listeners \subseteq Channels
  /\ \A c \in DOMAIN listeners : listeners[c] \subseteq QueueIds
  /\ queues \in [QueueIds -> Seq(Msgs)]
  /\ nextQueue \in 0..MaxQueues
  /\ inflight \in Seq([msg : Msgs, chans : SUBSET Channels])
  /\ waiting \in [Receivers -> Waiter \cup {NoWait}]
  /\ getters \in [QueueIds -> Seq(Receivers)]
  /\ counter \in 0..MaxCounter

Init ==
  /\ groups = EmptyMap
  /\ channels = EmptyMap
  /\ listeners = EmptyMap
  /\ queues = [q \in QueueIds |-> <<>>]
  /\ nextQueue = 0
  /\ inflight = <<>>
  /\ waiting = [r \in Receivers |-> NoWait]
  /\ getters = [q \in QueueIds |-> <<>>]
  /\ counter = 0

-----------------------------------------------------------------------------
(* The put() calls of publish(c, m) for every c in chans: each listener   *)
(* queue of each channel receives one copy of m per channel it listens   *)
(* for, and each put_nowait resolves the oldest pending getter of that  *)
(* queue, if it has one.                                                  *)
Copies(chans, q) == Cardinality({c \in chans : q \in SetAt(listeners, c)})

WokenBy(chans, q) ==
  SubSeq(getters[q], 1,
         IF Copies(chans, q) < Len(getters[q]) THEN Copies(chans, q)
                                                ELSE Len(getters[q]))

Fanout(chans, m) ==
  /\ queues' = [q \in QueueIds |->
                  queues[q] \o [i \in 1..Copies(chans, q) |-> m]]
  /\ getters' = [q \in QueueIds |->
                   SubSeq(getters[q], Len(WokenBy(chans, q)) + 1,
                          Len(getters[q]))]
  /\ waiting' = [r \in Receivers |->
                  IF waiting[r] # NoWait
                     /\ r \in ToSet(WokenBy(chans, waiting[r].q))
                  THEN [waiting[r] EXCEPT !.woken = TRUE]
                  ELSE waiting[r]]

FanoutFits(chans) ==
  \A q \in QueueIds : Len(queues[q]) + Copies(chans, q) <= MaxQueueLen

(* Mutants: plausible slips in the code below, each checked to break a    *)
(* property.                                                              *)

\* group_discard without `if not self.groups[group]: del ...`.
GroupDiscardKeepKey(g, c) ==
  /\ g \in DOMAIN groups
  /\ groups' = (g :> (groups[g] \ {c})) @@ groups
  /\ UNCHANGED <<channels, listeners, queues, nextQueue, inflight, waiting, getters,
                 counter>>

\* unsubscribe that forgets the queue but leaves it among the listeners.
UnsubscribeKeepListener(c) ==
  /\ c \in DOMAIN channels
  /\ channels' = Del(channels, c)
  /\ UNCHANGED <<groups, listeners, queues, nextQueue, inflight, waiting, getters,
                 counter>>

\* group_send that publishes to the group name instead of its members.
GroupSendStartToGroupName(g, m) ==
  /\ GroupChannels(g) # {}
  /\ Len(inflight) < MaxInflight
  /\ inflight' = Append(inflight, [msg |-> m, chans |-> {g}])
  /\ UNCHANGED <<groups, channels, listeners, queues, nextQueue, waiting, getters,
                 counter>>

\* subscribe that hands out a queue without counting it: the next new
\* channel gets the same asyncio.Queue.
SubscribeSharedQueue(c) ==
  LET fresh == c \notin DOMAIN channels
      q     == IF fresh THEN nextQueue + 1 ELSE channels[c]
  IN  /\ fresh => nextQueue < MaxQueues
      /\ channels' = (c :> q) @@ channels
      /\ listeners' = AddMember(listeners, c, q)
      /\ UNCHANGED <<groups, queues, nextQueue, inflight, waiting, getters, counter>>

\* group_add: create the key if absent, add the channel.
GroupAdd(g, c) ==
  /\ groups' = AddMember(groups, g, c)
  /\ UNCHANGED <<channels, listeners, queues, nextQueue, inflight, waiting, getters,
                 counter>>

\* group_discard: a no-op for an absent group (that step stutters);
\* removing the last member deletes the key.
GroupDiscard(g, c) ==
  /\ g \in DOMAIN groups
  /\ groups' = DiscardMember(groups, g, c)
  /\ UNCHANGED <<channels, listeners, queues, nextQueue, inflight, waiting, getters,
                 counter>>

\* subscribe: create the channel's queue if it has none, then register it
\* as a listener of the channel.
Subscribe(c) ==
  LET fresh == c \notin DOMAIN channels
      q     == IF fresh THEN nextQueue + 1 ELSE channels[c]
  IN  /\ fresh => nextQueue < MaxQueues
      /\ channels' = (c :> q) @@ channels
      /\ listeners' = AddMember(listeners, c, q)
      /\ nextQueue' = IF fresh THEN nextQueue + 1 ELSE nextQueue
      /\ UNCHANGED <<groups, queues, inflight, waiting, getters, counter>>

\* unsubscribe: drop the channel's queue from its listeners and forget it.
\* Messages still in the queue, and tasks suspended on it, stay with it.
Unsubscribe(c) ==
  /\ c \in DOMAIN channels
  /\ listeners' = (c :> (SetAt(listeners, c) \ {channels[c]})) @@ listeners
  /\ channels' = Del(channels, c)
  /\ UNCHANGED <<groups, queues, nextQueue, inflight, waiting, getters, counter>>

\* publish: put the message on every listener queue of the channel.
Publish(c, m) ==
  /\ FanoutFits({c})
  /\ Fanout({c}, m)
  /\ UNCHANGED <<groups, channels, listeners, nextQueue, inflight, counter>>

\* group_send, up to its await: snapshot the members; an empty group
\* returns at once (that step stutters); otherwise one publish task per
\* member is created and the caller suspends in asyncio.gather.
GroupSendStart(g, m) ==
  /\ GroupChannels(g) # {}
  /\ Len(inflight) < MaxInflight
  /\ inflight' = Append(inflight, [msg |-> m, chans |-> GroupChannels(g)])
  /\ UNCHANGED <<groups, channels, listeners, queues, nextQueue, waiting, getters,
                 counter>>

\* The publish tasks of the oldest gather run, back to back, against the
\* listeners as they are now.  publish cannot raise on an unbounded queue,
\* so the failed-channel report that follows logs nothing.
GroupSendRun ==
  /\ inflight # <<>>
  /\ FanoutFits(Head(inflight).chans)
  /\ Fanout(Head(inflight).chans, Head(inflight).msg)
  /\ inflight' = Tail(inflight)
  /\ UNCHANGED <<groups, channels, listeners, nextQueue, counter>>

\* get_message on a channel whose queue holds a message: get() returns it
\* without suspending.  (On a channel with no queue it returns None and
\* changes nothing.)
ReceiveNow(r, c) ==
  /\ waiting[r] = NoWait
  /\ c \in DOMAIN channels
  /\ queues[channels[c]] # <<>>
  /\ queues' = [queues EXCEPT ![channels[c]] = Tail(@)]
  /\ UNCHANGED <<groups, channels, listeners, nextQueue, inflight, waiting, getters,
                 counter>>

\* get_message on a channel whose queue is empty: the task binds the queue
\* the channel maps to now, appends a getter future to its _getters and
\* suspends, with or without a timeout.
ReceiveSuspend(r, c, timed) ==
  /\ waiting[r] = NoWait
  /\ c \in DOMAIN channels
  /\ queues[channels[c]] = <<>>
  /\ waiting' = [waiting EXCEPT ![r] =
                   [q |-> channels[c], ch |-> c, timed |-> timed, woken |-> FALSE]]
  /\ getters' = [getters EXCEPT ![channels[c]] = Append(@, r)]
  /\ UNCHANGED <<groups, channels, listeners, queues, nextQueue, inflight,
                 counter>>

\* Mutant: the resumed getter that waits again without putting a new
\* getter future in _getters.
ReceiveRewaitNoGetter(r) ==
  /\ waiting[r] # NoWait
  /\ waiting[r].woken
  /\ queues[waiting[r].q] = <<>>
  /\ waiting' = [waiting EXCEPT ![r].woken = FALSE]
  /\ UNCHANGED <<groups, channels, listeners, queues, nextQueue, inflight,
                 getters, counter>>

\* A woken getter resumes: `while self.empty()` is false, so get_nowait()
\* takes the head and get_message returns it.
ReceiveWake(r) ==
  /\ waiting[r] # NoWait
  /\ waiting[r].woken
  /\ queues[waiting[r].q] # <<>>
  /\ queues' = [queues EXCEPT ![waiting[r].q] = Tail(@)]
  /\ waiting' = [waiting EXCEPT ![r] = NoWait]
  /\ UNCHANGED <<groups, channels, listeners, nextQueue, inflight, getters,
                 counter>>

\* A woken getter resumes to an empty queue (a get() that did not suspend
\* took the item first): the loop appends a fresh getter and waits again.
ReceiveRewait(r) ==
  /\ waiting[r] # NoWait
  /\ waiting[r].woken
  /\ queues[waiting[r].q] = <<>>
  /\ waiting' = [waiting EXCEPT ![r].woken = FALSE]
  /\ getters' = [getters EXCEPT ![waiting[r].q] = Append(@, r)]
  /\ UNCHANGED <<groups, channels, listeners, queues, nextQueue, inflight,
                 counter>>

\* Mutant: the cancelled get() that drops a wake-up it had already been
\* given instead of passing it to the next getter.
ReceiveTimeoutNoPassOn(r) ==
  /\ waiting[r] # NoWait
  /\ waiting[r].timed
  /\ waiting' = [waiting EXCEPT ![r] = NoWait]
  /\ getters' = [getters EXCEPT ![waiting[r].q] = Remove(@, r)]
  /\ UNCHANGED <<groups, channels, listeners, queues, nextQueue, inflight,
                 counter>>

\* wait_for's timeout fires: the task is cancelled inside `await getter`.
\* A getter no put() resolved is cancelled and removed from _getters.  A
\* getter already resolved is not cancelled, and if the queue still holds
\* an item its wake-up passes to the oldest remaining getter.  Either way
\* TimeoutError reaches the caller and no item is taken.
ReceiveTimeout(r) ==
  LET q == waiting[r].q
      passOn == waiting[r].woken /\ queues[q] # <<>> /\ getters[q] # <<>>
  IN  /\ waiting[r] # NoWait
      /\ waiting[r].timed
      /\ waiting' = [s \in Receivers |->
                       IF s = r THEN NoWait
                       ELSE IF passOn /\ s = Head(getters[q])
                            THEN [waiting[s] EXCEPT !.woken = TRUE]
                            ELSE waiting[s]]
      /\ getters' = [getters EXCEPT ![q] =
                       IF passOn THEN Tail(@) ELSE Remove(@, r)]
      /\ UNCHANGED <<groups, channels, listeners, queues, nextQueue, inflight,
                     counter>>

\* new_channel: bump the counter under the lock; the name is
\* prefix.time.counter.
NewChannel ==
  /\ counter < MaxCounter
  /\ counter' = counter + 1
  /\ UNCHANGED <<groups, channels, listeners, queues, nextQueue, inflight,
                 waiting, getters>>

\* flush: clear groups and self.subscriptions.  MemoryBackend never
\* writes self.subscriptions (its subscriptions live in channels and
\* listeners), so that dict is always empty and is not a variable here.
Flush ==
  /\ groups' = EmptyMap
  /\ UNCHANGED <<channels, listeners, queues, nextQueue, inflight, waiting, getters,
                 counter>>

\* cleanup: clear channels and listeners, then flush.
Cleanup ==
  /\ channels' = EmptyMap
  /\ listeners' = EmptyMap
  /\ groups' = EmptyMap
  /\ UNCHANGED <<queues, nextQueue, inflight, waiting, getters, counter>>

Next ==
  \/ \E g \in Groups, c \in Channels : GroupAdd(g, c) \/ GroupDiscard(g, c)
  \/ \E c \in Channels : Subscribe(c) \/ Unsubscribe(c)
  \/ \E c \in Channels, m \in Msgs : Publish(c, m)
  \/ \E g \in Groups, m \in Msgs : GroupSendStart(g, m)
  \/ GroupSendRun
  \/ \E r \in Receivers, c \in Channels :
        \/ ReceiveNow(r, c)
        \/ \E timed \in BOOLEAN : ReceiveSuspend(r, c, timed)
  \/ \E r \in Receivers :
        ReceiveWake(r) \/ ReceiveRewait(r) \/ ReceiveTimeout(r)
  \/ NewChannel
  \/ Flush
  \/ Cleanup

\* The event loop runs every ready task: scheduled publish blocks run,
\* woken getters resume, and armed timeouts fire.
Fairness ==
  /\ WF_vars(GroupSendRun)
  /\ \A r \in Receivers :
        WF_vars(ReceiveWake(r)) /\ WF_vars(ReceiveRewait(r))
          /\ WF_vars(ReceiveTimeout(r))

Spec == Init /\ [][Next]_vars /\ Fairness

-----------------------------------------------------------------------------
(* Properties.                                                             *)

\* Spec section 3, Group: a key is in the group index iff its channel set
\* is non-empty.  It is about group_discard deleting the key when the last
\* member leaves, and flush/cleanup leaving no keys behind.
GroupKeysNonEmpty == \A g \in DOMAIN groups : groups[g] # {}

\* publish feeds only the channel's own current queue: every queue
\* registered as a listener of c is the queue channels[c] maps to now.
\* It is about unsubscribe discarding the listener before forgetting the
\* queue, subscribe reusing the existing queue, and cleanup clearing both
\* dicts; otherwise a re-subscribed channel would have its messages put on
\* an orphaned queue as well, or a forgotten channel would still get them.
ListenersAreCurrentQueues ==
  \A c \in DOMAIN listeners :
    listeners[c] \subseteq (IF c \in DOMAIN channels THEN {channels[c]} ELSE {})

\* The refinement mapping to PubSubContract: membership is the group
\* index read as pairs, a channel is subscribed while it maps to a queue,
\* its inbox is the content of that queue, and the pending group sends are
\* the gathered publish blocks.  Orphaned queues are not visible.
Membership == {<<g, c>> \in Groups \X Channels :
                 g \in DOMAIN groups /\ c \in groups[g]}

Inbox == [c \in Channels |->
            IF c \in DOMAIN channels THEN queues[channels[c]] ELSE <<>>]

Contract == INSTANCE PubSubContract
              WITH members <- Membership, subscribed <- DOMAIN channels,
                   inbox <- Inbox, pending <- inflight

\* MemoryBackend implements the backend contract: every step of it is a
\* contract step on the mapped state or leaves that state alone.  It is
\* about publish reaching a channel only through listeners, one copy per
\* subscribed channel, subscribe keeping an existing queue, unsubscribe
\* and cleanup releasing a channel's queue, group_send delivering to its
\* snapshot of the members against the listeners of the moment the
\* gathered tasks run, a woken or immediate get() taking the head of the
\* channel's current queue, a timeout taking nothing, and the group
\* index's add, discard, flush and cleanup.
PubSubRefined == Contract!Spec

\* Spec section 5: no operation is allowed to block indefinitely awaiting a
\* channel that was released.  A receive() with no timeout suspended on
\* channel c must be suspended on the queue c maps to, so that messages
\* published to c can wake it; otherwise nothing can ever wake it.  It is about get_message binding self.channels[channel] before
\* awaiting get(), while unsubscribe (and cleanup) drop that queue.
ReceiverNotOrphaned ==
  \A r \in Receivers :
    waiting[r] # NoWait /\ ~waiting[r].timed =>
      /\ waiting[r].ch \in DOMAIN channels
      /\ channels[waiting[r].ch] = waiting[r].q

\* Spec section 4.1, receive: the caller is blocked only until a message
\* is available.  While a getter of a queue is still unresolved, every
\* item in that queue is promised to a woken getter that will resume and
\* take it; otherwise an item can sit in the queue while get_message
\* callers stay suspended on it (until their timeout, or forever).  It is
\* about put_nowait resolving one getter per item, a resumed getter that
\* finds the queue empty waiting again, and wait_for's cancellation of a
\* get() whose getter was already resolved handing its wake-up on.
NoStrandedGetter ==
  \A q \in QueueIds :
    getters[q] # <<>> =>
      Len(queues[q]) <= Cardinality({r \in Receivers :
                                       /\ waiting[r] # NoWait
                                       /\ waiting[r].q = q
                                       /\ waiting[r].woken})

\* The receivers suspended on queue q.
Waiters(q) == {r \in Receivers : waiting[r] # NoWait /\ waiting[r].q = q}

\* Spec section 4.1, receive blocks only until a message is available: a
\* message sitting in a queue that a get_message call is suspended on is
\* eventually taken, or every such call ends (by its timeout).  It is
\* about every put resolving a getter, the resumed task taking the item
\* or registering a new getter, and the event loop running woken tasks.
QueuedMessagesReachWaiters ==
  \A q \in QueueIds :
    (queues[q] # <<>> /\ Waiters(q) # {}) ~> (queues[q] = <<>> \/ Waiters(q) = {})

=============================================================================
