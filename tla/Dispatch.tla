------------------------------ MODULE Dispatch ------------------------------
(***************************************************************************)
(* BaseConsumer.handle_message of src/core/consumer/base.py with the     *)
(* middleware stages of src/core/middleware/: one step per frame a        *)
(* connection receives.                                                   *)
(*                                                                         *)
(* None of the stages awaits anything that suspends, so a frame is        *)
(* handled in one step up to the application's receive() hook; what that *)
(* hook does is the result drawn from AppResults.  A frame is abstracted *)
(* to the features the code branches on: whether it parses, and to what; *)
(* its type; whether its priority is a known, an unknown or an unhashable *)
(* value; its ttl; whether its serialised size exceeds the maximum.       *)
(* The configured stages are Stages, the list the consumer iterates, and  *)
(* Links, the next_middleware each stage was constructed with.            *)
(*                                                                         *)
(* Error classes come from core/exceptions, which is not in this          *)
(* repository; they are the four kinds of spec section 7, none a subclass *)
(* of another, plus "Untyped" for any other exception.                   *)
(***************************************************************************)
EXTENDS Integers, Sequences, PyDict

CONSTANTS
  Conns,             \* connections (their channel_name is the rate-limit key)
  Owner,             \* connection -> its user_id, or NoUser
  NoUser,            \* user_id None
  Stages,            \* middleware_stacks: sequence of stage names
  Links,             \* stage name -> its next_middleware, or NoLink
  NoLink,            \* next_middleware None
  RateLimitEnabled,  \* settings.RATE_LIMIT_ENABLED
  Rate, Window, Burst,  \* RATE_LIMIT_MESSAGES, _WINDOW, _BURST
  MaxTime,           \* bound: last clock value explored
  FrameKinds,        \* what json.loads makes of a frame
  Types,             \* values of the frame's "type" field
  Priorities,        \* kinds of the frame's "priority" field
  Ttls,              \* kinds of the frame's "ttl_seconds" field
  Sizes,             \* serialised size against max_message_size
  AppResults,        \* outcomes of the application's receive() hook
  None               \* Python None

StageNames == {"auth", "ratelimit", "validation", "logging"}

ASSUME Links \in [StageNames -> StageNames \cup {NoLink}]
ASSUME FrameKinds \subseteq {"object", "invalid", "nonobject"}
ASSUME Types \subseteq {"message", "ping", "pong", "connect", "list"}
ASSUME Priorities \subseteq {"known", "unknown", "unhashable"}
ASSUME Ttls \subseteq {"none", "zero", "positive", "nonnumeric"}
ASSUME Sizes \subseteq {"small", "large"}
ASSUME AppResults \subseteq {"ok", "MessageError"}

TypedErrors == {"AuthenticationError", "ValidationError", "RateLimitError",
                "MessageError"}
Errors == TypedErrors \cup {"Untyped"}

\* The exception classes handle_message's second except clause names.
CaughtErrors == {"AuthenticationError", "ValidationError", "MessageError"}

Results == {"none", "heartbeat", "dropped", "delivered", "answered",
            "propagated"}

VARIABLES
  now,            \* time.time()
  buckets,        \* the RateLimitMiddleware's limiter buckets
  lastHeartbeat,  \* connection -> clock value of its latest pong
  outcome         \* connection -> how handling its latest frame ended

vars == <<now, buckets, lastHeartbeat, outcome>>

\* The limiter's allow(); its operators take the bucket map explicitly.
Limiter == INSTANCE TokenBucket
             WITH Keys <- Conns,
                  real <- now, MaxSkew <- 0,
                  admits <- [k \in Conns |-> <<>>]

NoOutcome == [res |-> "none", err |-> "none", type |-> "none"]

TypeOK ==
  /\ now \in 0..MaxTime
  /\ DOMAIN buckets \subseteq Conns
  /\ \A k \in DOMAIN buckets :
       buckets[k] \in [last : 0..MaxTime, tokens : 0..Burst]
  /\ lastHeartbeat \in [Conns -> 0..MaxTime]
  /\ outcome \in [Conns -> [res : Results, err : Errors \cup {"none"},
                            type : Types \cup {"none"}]]

Init ==
  /\ now = 0
  /\ buckets = EmptyMap
  /\ lastHeartbeat = [c \in Conns |-> 0]
  /\ outcome = [c \in Conns |-> NoOutcome]

-----------------------------------------------------------------------------
(* The stages.  A stage's result is "pass", "drop" (process returned     *)
(* None) or the error it raises.  `x in {...}` raises TypeError for an    *)
(* unhashable x, as a list-valued type does.                              *)

HandshakeTypes == {"ping", "pong", "connect"}

\* Mutant: the exemption test inverted.
AuthenticateInverted(m, c) ==
  CASE m.type = "list"              -> "Untyped"
    [] m.type \notin HandshakeTypes -> "pass"
    [] Owner[c] = NoUser            -> "AuthenticationError"
    [] OTHER                        -> "pass"

\* AuthenticationMiddleware.process
Authenticate(m, c) ==
  CASE m.type = "list"           -> "Untyped"
    [] m.type \in HandshakeTypes -> "pass"
    [] Owner[c] = NoUser         -> "AuthenticationError"
    [] OTHER                     -> "pass"

\* Mutant: the limiter keyed by the connection's user_id.
ThrottleByUser(m, c, b) ==
  CASE ~RateLimitEnabled         -> [res |-> "pass", b |-> b]
    [] m.type = "list"           -> [res |-> "Untyped", b |-> b]
    [] m.type \in {"ping", "pong"} -> [res |-> "pass", b |-> b]
    [] OTHER ->
         [res |-> IF Limiter!Allows(b, Owner[c]) THEN "pass" ELSE "RateLimitError",
          b   |-> (Owner[c] :> Limiter!NewBucket(b, Owner[c])) @@ b]

\* RateLimitMiddleware.process: its result and the limiter's buckets after;
\* the key is the connection's channel_name.
Throttle(m, c, b) ==
  CASE ~RateLimitEnabled         -> [res |-> "pass", b |-> b]
    [] m.type = "list"           -> [res |-> "Untyped", b |-> b]
    [] m.type \in {"ping", "pong"} -> [res |-> "pass", b |-> b]
    [] OTHER ->
         [res |-> IF Limiter!Allows(b, c) THEN "pass" ELSE "RateLimitError",
          b   |-> (c :> Limiter!NewBucket(b, c)) @@ b]

\* ValidationMiddleware.process: the size check (its own errors become
\* ValidationError), then is_expired(), which compares with ttl_seconds
\* outside the try and raises TypeError for a non-numeric one.
Validate(m, expired) ==
  CASE m.size = "large"       -> "ValidationError"
    [] m.ttl = "nonnumeric"   -> "Untyped"
    [] expired                -> "drop"
    [] OTHER                  -> "pass"

\* The Message value object; a message is checked for expiry 0 or 1
\* clock units after it was created.
Msg == INSTANCE MessageModel
         WITH MsgTypes <- Types, Datas <- {None}, Senders <- Conns,
              MsgGroups <- {None}, Ttls <- {0, 1}, Times <- 0..1

\* ttl_seconds of each numeric ttl kind: 0, or one the check never outlives.
TtlValue(ttl) == CASE ttl = "none" -> None [] ttl = "zero" -> 0
                   [] ttl = "positive" -> 1

\* The results message.is_expired() can give in ValidationMiddleware (for
\* a non-numeric ttl it raises, which Validate handles first).
ExpiryOutcomes(ttl) ==
  IF ttl = "nonnumeric" THEN {FALSE} ELSE
  {Msg!IsExpired([ttl_seconds |-> TtlValue(ttl), created_at |-> 0], e) :
     e \in 0..1}

\* stage.process(message, connection, consumer)
Process(s, m, c, b, expired) ==
  CASE s = "auth"       -> [res |-> Authenticate(m, c), b |-> b]
    [] s = "ratelimit"  -> Throttle(m, c, b)
    [] s = "validation" -> [res |-> Validate(m, expired), b |-> b]
    [] s = "logging"    -> [res |-> "pass", b |-> b]

\* Middleware.__call__: process, then hand a surviving message to
\* next_middleware.
RECURSIVE CallStage(_, _, _, _, _)
CallStage(s, m, c, b, expired) ==
  LET r == Process(s, m, c, b, expired)
  IN  IF r.res = "pass" /\ Links[s] # NoLink
        THEN CallStage(Links[s], m, c, r.b, expired)
        ELSE r

\* Mutant: the loop walks middleware_stacks from its last stage.
RECURSIVE RunStagesFromEnd(_, _, _, _, _)
RunStagesFromEnd(i, m, c, b, expired) ==
  IF i > Len(Stages) THEN [res |-> "pass", b |-> b]
  ELSE LET r == CallStage(Stages[Len(Stages) + 1 - i], m, c, b, expired)
       IN  IF r.res = "pass" THEN RunStagesFromEnd(i + 1, m, c, r.b, expired)
                             ELSE r

\* handle_message's loop over middleware_stacks from position i: stop at
\* the first stage that drops or raises.
RECURSIVE RunStages(_, _, _, _, _)
RunStages(i, m, c, b, expired) ==
  IF i > Len(Stages) THEN [res |-> "pass", b |-> b]
  ELSE LET r == CallStage(Stages[i], m, c, b, expired)
       IN  IF r.res = "pass" THEN RunStages(i + 1, m, c, r.b, expired)
                             ELSE r

-----------------------------------------------------------------------------
(* handle_message, one action per way it ends.                            *)

Ends(c, res, err, type) ==
  outcome' = [outcome EXCEPT ![c] = [res |-> res, err |-> err, type |-> type]]

\* json.loads raises JSONDecodeError; the handler raises ValidationError
\* from inside its except clause, so the sibling clause cannot catch it.
ReceiveInvalidJson(c) ==
  /\ "invalid" \in FrameKinds
  /\ Ends(c, "propagated", "ValidationError", "none")
  /\ UNCHANGED <<now, buckets, lastHeartbeat>>

\* The frame parses to a list, number or string: data.get raises
\* AttributeError.
ReceiveNonObject(c) ==
  /\ "nonobject" \in FrameKinds
  /\ Ends(c, "propagated", "Untyped", "none")
  /\ UNCHANGED <<now, buckets, lastHeartbeat>>

\* type "pong": update_heartbeat() and return, before any stage.
ReceivePong(c) ==
  /\ "object" \in FrameKinds /\ "pong" \in Types
  /\ lastHeartbeat' = [lastHeartbeat EXCEPT ![c] = now]
  /\ Ends(c, "heartbeat", "none", "pong")
  /\ UNCHANGED <<now, buckets>>

\* `priority_value in MessagePriority._value2member_map_` raises
\* TypeError for an unhashable priority (a list or an object).
ReceiveBadPriority(c, t) ==
  /\ "object" \in FrameKinds /\ "unhashable" \in Priorities
  /\ t # "pong"
  /\ Ends(c, "propagated", "Untyped", t)
  /\ UNCHANGED <<now, buckets, lastHeartbeat>>

\* A Message is built (an unknown priority falls back to NORMAL, which
\* nothing downstream reads), the stages run, and a surviving message goes
\* to receive().  Typed errors in CaughtErrors are answered on this
\* connection; any other exception leaves handle_message.
ReceiveMessage(c, t, ttl, size, app) ==
  /\ "object" \in FrameKinds /\ Priorities \cap {"known", "unknown"} # {}
  /\ t # "pong"
  /\ \E expired \in ExpiryOutcomes(ttl) :
       LET r == RunStages(1, [type |-> t, ttl |-> ttl, size |-> size],
                          c, buckets, expired)
       IN  /\ buckets' = r.b
           /\ CASE r.res = "pass" /\ app = "ok" ->
                     Ends(c, "delivered", "none", t)
                [] r.res = "pass" ->
                     Ends(c, "answered", app, t)
                [] r.res = "drop" ->
                     Ends(c, "dropped", "none", t)
                [] r.res \in CaughtErrors ->
                     Ends(c, "answered", r.res, t)
                [] OTHER ->
                     Ends(c, "propagated", r.res, t)
  /\ UNCHANGED <<now, lastHeartbeat>>

Tick ==
  /\ now < MaxTime
  /\ now' = now + 1
  /\ UNCHANGED <<buckets, lastHeartbeat, outcome>>

Next ==
  \/ Tick
  \/ \E c \in Conns :
       \/ ReceiveInvalidJson(c)
       \/ ReceiveNonObject(c)
       \/ ReceivePong(c)
       \/ \E t \in Types : ReceiveBadPriority(c, t)
       \/ \E t \in Types, ttl \in Ttls, size \in Sizes, app \in AppResults :
            ReceiveMessage(c, t, ttl, size, app)

Spec == Init /\ [][Next]_vars

-----------------------------------------------------------------------------
(* Properties.                                                             *)

\* Spec section 4.4: a message other than ping, pong or connect from a
\* connection without a user identity never reaches the application's
\* receive().  It is about the authentication stage's exemption set, its
\* user_id test, and handle_message stopping at the first stage that
\* raises.
UnauthenticatedNeverDelivered ==
  \A c \in Conns :
    Owner[c] = NoUser /\ outcome[c].res = "delivered" =>
      outcome[c].type \in HandshakeTypes

BucketOf(b, c) == IF c \in DOMAIN b THEN {b[c]} ELSE {}

\* Spec section 4.4 (recommended order): traffic the authentication stage
\* rejects is rejected before it spends a rate-limit token, so an
\* unauthenticated client cannot drain the bucket of its connection.  It
\* is about the order handle_message runs middleware_stacks in and the
\* rate-limit stage touching the bucket only when it is reached.
RejectedTrafficCostsNoTokens ==
  [][\A c \in Conns :
       outcome'[c].err = "AuthenticationError" =>
         BucketOf(buckets', c) = BucketOf(buckets, c)]_vars

\* Spec section 4.5: the rate-limit stage rejects a message only when the
\* connection's bucket holds no token at the time the message arrives, so
\* every message costs at most one token.  It is about allow()'s refill
\* and the pipeline reaching RateLimitMiddleware once per message, through
\* the consumer's loop and the next_middleware links together.
ThrottledOnlyWhenEmpty ==
  [][\A c \in Conns :
       /\ outcome'[c].err = "RateLimitError"
       /\ <<outcome'[c], BucketOf(buckets', c)>> # <<outcome[c], BucketOf(buckets, c)>>
       => c \in DOMAIN buckets /\ Limiter!Refilled(buckets, c) = 0]_vars

\* Spec sections 3 and 6: the group payload send_to_group builds with
\* to_dict is rebuilt by from_dict into the same Message (Msg!RoundTrip).
MessageRoundTrip == Msg!RoundTrip

\* Spec sections 4.6 and 7: whatever frame a client sends, handle_message
\* answers typed errors with an error response on the same connection
\* (malformed JSON as ValidationError INVALID_JSON, a throttled message as
\* RateLimitError, an unknown priority falls back to NORMAL), so no frame
\* makes it raise and end the connection.  It is about the JSONDecodeError
\* handler raising, the except tuple omitting RateLimitError, and the
\* priority lookup hashing a client-supplied value.
ClientFramesNeverFatal ==
  \A c \in Conns : outcome[c].res # "propagated"
=============================================================================
