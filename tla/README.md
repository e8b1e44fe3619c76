# TLA+ models of the fastapi-channel layer

This directory models the channel layer in `src/` with TLA+ and checks it
with TLC. The layer is a pub/sub backend with a group index and a presence
registry, a middleware pipeline with a token-bucket rate limiter, and a
per-connection consumer dispatch loop. Every module is translated from the
source. The one exception is the ConnectionManager, which the code imports
but which is not in this repository. `ChannelLayer` models it from
`spec.md`, and `PROJECT.json` marks those definitions `spec_modelled`.

## 1. Inventory

### Components, their state and operations

| Component | Source | State | Operations |
|---|---|---|---|
| Group index | `core/backends/base.py` BaseBackend | `groups: group -> set(channel)`; a key exists only while its set is non-empty | `group_add`, `group_discard`, `group_channels` (read), `flush` |
| Pub/sub queues | `core/backends/memory.py` MemoryBackend | `channels: channel -> asyncio.Queue`, `listeners: channel -> set(Queue)` (defaultdict) | `subscribe`, `unsubscribe`, `publish`, `group_send` (fan-out through `asyncio.gather`), `get_message`/`receive` (await `get()` with an optional timeout), `cleanup` |
| Channel naming | `base.py` | `_channel_counter` | `new_channel` (counter under the lock) |
| Presence registry | `memory.py` | `_registry_connections`, `_registry_connection_data: conn -> {user_id, metadata, groups, heartbeat_timeout}`, `_registry_user_connections: user -> set(conn)` | `registry_add_connection`, `registry_remove_connection`, `registry_update_groups`, plus the reads `get_connection_groups`, `count_connections`, `get_user_connections` |
| Token bucket | `core/middleware/rate_limit.py` TokenBucketRateLimiter | `buckets: key -> (last_check, tokens)` | `allow(key)` |
| Middleware stages | `core/middleware/{base,auth,validation,rate_limit,logging}.py` | none (RateLimit owns a limiter) | `Middleware.__call__` (process, then `next_middleware`); `process` of Authentication, Validation, RateLimit and Logging |
| Consumer dispatch | `core/consumer/base.py`, `fastapi_channel/consumer/base.py` | `connection` counters and heartbeat; `groups` (the consumer's own mirror) | `handle_message`, `join_group`, `leave_group`, `send_to_group`, `disconnect` (fastapi_channel: `on_disconnect` and then `manager.disconnect`), `handle_error` |
| Message | `core/typed.py` | immutable record | `is_expired`, `to_dict`, `from_dict` (unknown priority falls back to NORMAL) |
| ConnectionManager, Connection | not in `src/` (imported from `core.connections`) | connection state machine, mirror of groups, heartbeat | `join_group`, `leave_group`, `send_group`, `disconnect` (spec 4.2, 4.3) |
| Settings, logging, package exports | `core/config.py`, `core/logging.py`, `__init__.py` files | configuration values, log formatting | not modelled: read-only values and I/O |

### How the components interact

The consumer's `handle_message` parses a raw frame and handles a `pong`
directly by refreshing the heartbeat. Any other frame becomes a `Message`
and passes through the middleware stages. The application's `receive`
hook gets the result. That hook calls the ConnectionManager, which calls
the backend: `group_add`/`group_discard` and the registry on join, leave
and disconnect, and `group_send` on broadcast. `group_send` calls `publish`
on every member channel. `publish` puts the message on that channel's
listener queues, where a task blocked in `receive` picks it up. The backend
and the rate limiter are shared by every connection in the process. The
connections themselves run as coroutines on one asyncio event loop.

### What is hard

- **Suspension points.** A coroutine can be suspended only at an `await`
  that really waits. An uncontended `asyncio.Lock` is acquired without
  yielding, and `put()` on an unbounded queue never waits. So every backend
  method that only takes the lock and edits dicts is atomic. Two methods do
  suspend. `group_send` snapshots the members, and its publish tasks run
  later. `get_message` binds a queue and then waits on it. Other tasks run
  in those gaps.
- **Timeouts.** `wait_for`'s timeout can race a `put()`: the get() may be
  cancelled after the put resolved its getter, and asyncio must then hand
  the wake-up to the next getter of the queue, or the item is stranded.
- **Call sequences.** Some sequences of legal calls break the backend's
  indexes: re-subscribe, re-register under another user, remove with a
  user_id the connection was not registered under, and flush.
- **Rate limiter arithmetic.** It uses `int()` truncation, float
  `rate / window`, and a wall clock.
- **Error containment** in `handle_message`. The spec requires that typed
  errors become an error response on the same connection and that only
  untyped errors propagate.
- **Disconnect racing with message handling.** The heartbeat monitor or the
  transport can disconnect a connection while its `handle_message` is
  suspended in application code.

### What makes each component correct

- **Group index.** A key exists iff its group is non-empty. Membership
  behaves as a set under add, discard and flush (spec 3, 8).
- **Pub/sub.** `publish` feeds only the channel's current queue. A blocked
  `receive` can always be woken by a publish to its channel (spec 5).
  `flush` clears subscriptions (4.1).
- **Registry.** The connection set, the data map and the user index agree.
  `get_user_connections(u)` is exact (spec 3, 8).
- **Token bucket.** It admits no more than burst plus refill in any
  interval. It does not deny a key that is owed a token (4.5, glossary).
- **Pipeline and dispatch.** The exemptions are honoured. Typed errors never
  escape `handle_message` and go to the originating connection only. A
  `pong` bypasses the pipeline (4.4, 4.6, 7).
- **Manager.** The mirror agrees with the backend. A disconnected connection
  is in no group and not in the registry. Disconnect is idempotent (4.3).

## 2. Modules and runs

| Module | Models | Notes |
|---|---|---|
| `PyDict` | dict and defaultdict(set) idioms | `AddMember`/`DiscardMember` are `group_add`/`group_discard`'s key handling, reused for the registry's user index |
| `MemoryBackend` | group index, queues, listeners, publish, group_send, receive, new_channel, flush, cleanup | one action per method; `group_send` is `GroupSendStart` plus `GroupSendRun` (the gathered tasks run later as one block in FIFO order); `get_message` is `ReceiveNow` (queue non-empty), or `ReceiveSuspend` followed by `ReceiveWake`, `ReceiveRewait` or `ReceiveTimeout`. An asyncio.Queue is a queue id, so a queue orphaned by `unsubscribe` still exists; `getters` is its `_getters` deque: each put resolves the oldest getter (`Fanout`/`WokenBy`), a resolved getter resumes and takes the head, or waits again if another `get()` took it first, and a timed-out getter that was already resolved hands its wake-up to the next (`ReceiveTimeout`) |
| `GroupIndex` | the contract's membership set (abstract) | used by `PubSubContract` for membership |
| `PubSubContract` | `BackendProtocol` of `core/typed.py` and spec 4.1, abstractly | one FIFO `inbox` per subscribed channel; `Publish` appends to a subscribed channel's inbox; `Receive` takes the head; `Unsubscribe` drops the inbox; `GroupSend` records the members at the time of the call and `GroupDeliver` later appends to those that are subscribed then; `Flush` is `GroupIndex`'s `Clear`, and the spec's clause that flush also clears subscriptions is not part of the contract (section 4). `MemoryBackend` refines it: `Inbox` maps each subscribed channel to the content of its current queue, `subscribed` is `DOMAIN channels`, `pending` is `inflight`. Orphaned queues, suspended receivers and timeouts are invisible to the contract |
| `MemoryRegistry` | registry methods | `CallerUsers(c)` is the set of user_ids a caller may pass |
| `TokenBucket` | `TokenBucketRateLimiter.allow` | integer wall clock `now` that moves with real time `real` (`Tick`) and may be set back by up to `MaxSkew` ticks (`StepBack`); a negative elapsed refills `int()` of a negative product, truncated toward zero; history variable `admits`; `Refilled`, `Allows` and `NewBucket` take the bucket map as an argument so that `Dispatch` can reuse them |
| `MessageModel` | `MessagePriority`, `Message`, `is_expired`, `to_dict`, `from_dict` of `core/typed.py` | pure operators over records: a dict is a record on its keys, `None` a model value, priorities the member names and their string values. `RoundTrip` compares `from_dict(to_dict(m))` with `m` for every message of a small set and every receiving time |
| `Dispatch` | `BaseConsumer.handle_message` of `core/consumer/base.py` and the four stages of `core/middleware/` | one action per way `handle_message` ends (invalid JSON, non-object, pong, unhashable priority, built message). A frame is abstracted to what the code branches on: type, priority kind, ttl kind, small/large size. Stages are operators returning pass, drop or an error kind. `CallStage` (recursive) is `Middleware.__call__` following `next_middleware`; `RunStages` is the consumer's loop over `middleware_stacks`. The limiter is `TokenBucket` keyed by connection. The validation stage's expiry check is `MessageModel`'s `IsExpired`. `outcome` records how each connection's latest frame ended |
| `ChannelLayer` | `join_group`, `leave_group`, `disconnect` and the pong branch of `fastapi_channel/consumer/base.py`, the ConnectionManager (spec-modelled), the group index and the registry | `MemoryRegistry` is composed by `INSTANCE` (with `CallerUsers` fixed to each connection's own user). Per connection, a transport task (`client`: idle, handling a received frame (`Frame`, ended by `ReceiveReturns`), in a join, in a leave, in the `on_disconnect` hook, in a disconnect, closed) and the manager's heartbeat monitor task. While handling a frame, the manager's join and leave call the backend (`ClientJoin`, `ClientLeave`) whatever the connection's state, as the code does, and update the connection's mirror after that await (`ClientJoinMirror`, `ClientLeaveMirror`). A disconnect is `BeginDisconnect` (return if DISCONNECTED, else DISCONNECTING and a snapshot of the mirror), one `DisconnectLeave` per snapshot group, then `DisconnectFinish` (registry removal, DISCONNECTED). Time is abstracted to `stale` (set by `Expire`, cleared by `Pong`) |

Each `MC_*` module fixes the constants for TLC. Its comment says why the
bounds are enough.

| Run | cfg | Expect | What it shows |
|---|---|---|---|
| backend_safety | `MemoryBackend.cfg` | pass | 2 channels, 1 group, 2 receivers, 2 queues, queue length 1, 1 fan-out in flight (about 127k states, 35 s). The index keeps no empty keys, publish reaches only current queues, no item waits in a queue while a getter of it is unresolved (`NoStrandedGetter`: two receivers are needed for a timed-out getter to hand its wake-up on, or for one getter to take the item another was woken for), `MemoryBackend` refines `PubSubContract` (`PubSubRefined`), and under the event loop's fairness a message in a queue some get() waits on is eventually taken unless all those calls time out (`QueuedMessagesReachWaiters`) |
| backend_orphaned_receiver | `MemoryBackend_ReceiverNotOrphaned.cfg` | violation | subscribe, then `receive(c, None)` suspends, then `unsubscribe(c)`: the receiver waits on a queue nothing will ever fill again |
| registry_any_user | `MemoryRegistry_AnyUser.cfg` | violation | `add(c1,u1); add(c1,u2)` leaves `c1` under `u1` |
| token_bucket_bound | `TokenBucket.cfg` | pass | rate 1 per 2 ticks, burst 2, 6 ticks of real time, wall clock up to 2 ticks behind (4.3k states): the sliding-window admission bound, in real time, holds; setting the clock back only costs tokens |
| dispatch_pipeline | `Dispatch.cfg` | pass | recommended stage order, two connections (one without a user), burst 1 and one token per 2 ticks, all frame features (42k states, about 2 min). An unauthenticated chat message is never delivered. An auth-rejected message spends no token. A `Message` survives `to_dict`/`from_dict` unchanged, its `created_at` included |
| dispatch_fatal_frames | `Dispatch_FatalFrames.cfg` | violation | frames a client can send make `handle_message` raise: a non-JSON frame (`ValidationError` raised inside the `JSONDecodeError` handler), a list-valued priority (`TypeError` from the `in _value2member_map_` test), and a second message within a refill period (`RateLimitError`, not in the except tuple) |
| dispatch_linked_twice | `Dispatch_LinkedTwice.cfg` | violation | logging is built with `next_middleware` set to ratelimit while both are listed: the consumer's loop calls ratelimit, then logging, whose `__call__` calls the same ratelimit object again, so one frame costs two tokens and a message whose bucket held a token is throttled (`ThrottledOnlyWhenEmpty`) |
| channel_layer_transport | `ChannelLayer.cfg` | pass | three connections (two of one user, one anonymous), two groups, no monitor (301k states, about 7 s). The registry and its user index hold exactly the live connections (`PresenceMatchesLiveConnections`) |
| channel_layer_monitor | `ChannelLayer_Monitor.cfg` | pass | two connections (one with a user) with the heartbeat monitor (240k states, about 22 s). The registry holds exactly the live connections although two disconnects of one connection may overlap. Every connected connection whose heartbeat expires is eventually disconnected unless a pong comes first, even when the transport's and the monitor's disconnects overlap |
| channel_layer_disconnect_race | `ChannelLayer_DisconnectRace.cfg` | violation | a frame's `join_group` reaches the backend while a disconnect is under way (after its snapshot of the mirror) or after it finished: `join_group` does not check the connection's state, so the DISCONNECTED connection stays in the group (`DisconnectedLeavesNoTrace`) |

**Fairness.** `MemoryBackend.Spec` assumes weak fairness on the three
things the event loop itself does. Scheduled publish blocks run, woken
getters resume (`ReceiveWake` or `ReceiveRewait`), and armed timeouts fire. Client calls (subscribe, publish
and so on) get no fairness, because clients may stop.

**Why the bounds are enough.** Two channels in one group let a fan-out
reach one member and not another, and let the group empty and be
recreated. Two receiving tasks are the least that exercises the getter
protocol: one woken getter timing out with the other still waiting, and a
get() that does not suspend taking the item a woken getter was resumed
for. (The two violation runs of the backend keep two groups and one
receiver; they need no more.) Two queue ids cover subscribe, unsubscribe and
re-subscribe of one channel (leaving an orphaned queue), or both channels
holding a queue; a third multiplies the liveness check's time by ten and
adds no new shape. The rate limiter
needs one key, because keys never share a bucket. Six ticks give three
refill periods, and a skew of two ticks lets a negative elapsed span a
whole token. `Dispatch` needs two connections: one with a user and one
without. Burst 1 with one token per two ticks makes the second message in a
period throttled, and the clock bound of 2 reaches one refill. An unknown
priority and a positive ttl take the same branches as a known priority and
no ttl, so the passing run leaves them out.

**Dispatch has no fairness.** It checks only safety, and frames arrive when
clients send them.

**ChannelLayer's fairness.** Weak fairness on what the event loop finishes
once it has started: the mirror update after a backend join or leave
returns, the end of the `on_disconnect` hook, each `DisconnectLeave` and
`DisconnectFinish`, and the monitor's check of an expired connection (the
monitor loops forever while the manager runs). No fairness on `Connect`,
`ClientJoin`, `ClientLeave`, `Pong`, `Expire` or `TransportClosed`: clients
and the clock may stop at any point. Runs of this module say
`CHECK_DEADLOCK FALSE`, because every connection closed is a legitimate end.

**ChannelLayer's bounds.** The transport run has three connections: two
owned by one user, so that the user index loses a connection that is not
the user's last, and one anonymous, the other branch of the index. The
monitor run keeps two connections (one with a user, one anonymous): the
monitor's task multiplies the interleavings, and the overlap it adds is
between two disconnects of one connection. Two groups
let a disconnect's snapshot hold one group while a join of the other is in
flight. `MessageModel` is checked on the messages `Dispatch` can build:
its types, senders, ttl 0 or 1 and two clock values, so that `is_expired`
is both true and false and `from_dict` could stamp a different time.

## 3. Plan

In order of importance:

1. **Done: `MemoryBackend`, `GroupIndex`, `MemoryRegistry`, `TokenBucket`,
   `MessageModel`.**
2. **Done: `Dispatch`** for `core/consumer/base.py`. `handle_message` of
   `fastapi_channel/consumer/base.py` is not modelled separately (see
   section 4).
3. **Done: `ChannelLayer`** (join, leave, disconnect, pong, heartbeat
   monitor, registry by composition). Still open: `send_to_group` through
   `MemoryBackend`'s fan-out, and `registry_update_groups`.
4. **Done: `PubSubContract`**, refined by `MemoryBackend`. Still open: an
   abstract presence contract for the registry methods.
5. **Done:** the backwards clock step of `TokenBucket`, and three
   connections in the `ChannelLayer` transport run.
6. **Done:** asyncio.Queue's getter/wake-up protocol under `get_message`
   (`getters`, `ReceiveRewait`, the hand-on in `ReceiveTimeout`), with
   `NoStrandedGetter` and `QueuedMessagesReachWaiters`.

## 4. Not modelled

- The transport (WebSocket send/receive) is an outcome recorded by the
  dispatch model, not a component.
- JSON encoding matters only through the size check, which is modelled as
  a small/large choice. `to_dict`/`from_dict` are modelled in
  `MessageModel`; the opaque `data` and `metadata` values are one model
  value.
- `send`, `send_json`, `send_to_group` and `handle_error` of the
  fastapi_channel consumer only write to the socket or the backend's
  queues; `ChannelLayer` tracks membership, not deliveries.
- `handle_message` of `fastapi_channel/consumer/base.py` parses and builds
  the Message exactly as the core consumer does, and runs one
  `middleware_stack`, which is `Dispatch`'s `CallStage` over
  `next_middleware` links. It catches no typed error: what happens to an
  escaping error is decided by the WebSocket loop that calls it and
  `handle_error`, and that loop is not in this repository. Its pong branch
  is `ChannelLayer`'s `Pong`.
- Traffic counters (`bytes_received`, `update_activity`) are never read by
  the code in `src/`.
- Logging output, `Settings` loading, package exports.
- The redis backend is not in this repository.
- `metadata` and `heartbeat_timeout` in registry entries are written and
  never read by the backend.
- Float rounding in `rate / window`: the models use exact ratios.
- The docstring of the fastapi_channel `send_to_group` says the message
  goes to every connection of the group except the sender, but
  `manager.send_group` hands it to `group_send`, which publishes to every
  member channel, the sender's own included. No run checks this: which
  channel the manager subscribes for a connection is not in this
  repository, so the model cannot say whether the sender's copy is read.
- `flush` of `MemoryBackend` clears the group index only and leaves
  `channels` and `listeners` in place, although spec 4.1 says it also
  clears subscriptions. `BaseBackend` (`core/typed.py`) promises nothing
  about subscriptions on flush, so the contract here is the code's; the
  divergence from spec 4.1 is recorded, not checked.
- The token bucket's denial of a key whose wall clock has not yet covered a
  full token is the arithmetic spec 4.5 prescribes (`int(elapsed * rate /
  window)`), so no run treats it as a defect.
- `Settings` has no `RATE_LIMIT_*` fields, so `getattr(settings,
  "RATE_LIMIT_ENABLED", False)` makes the rate limiter disabled by default.
  The `Dispatch` runs set `RateLimitEnabled` to TRUE, as an application
  that configures rate limiting by hand would; with it FALSE the stage
  passes every message and spends no token.
