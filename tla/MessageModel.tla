---------------------------- MODULE MessageModel ----------------------------
(***************************************************************************)
(* The Message value object of src/core/typed.py: is_expired, to_dict and *)
(* from_dict.  A dict is a TLA+ record (a function on its string keys);   *)
(* MessagePriority members are the strings "HIGH", "NORMAL", "LOW" and    *)
(* their values "high", "normal", "low"; None is a model value.  Payload  *)
(* and metadata contents are opaque.  to_dict is what send_to_group puts  *)
(* on the backend, and from_dict rebuilds the Message on the other side.  *)
(***************************************************************************)
EXTENDS Integers, TLC

CONSTANTS
  None,       \* Python None
  MsgTypes,   \* values of Message.type
  Datas,      \* opaque data and metadata values
  Senders,    \* channel names
  MsgGroups,  \* group names
  Ttls,       \* numeric ttl_seconds values
  Times       \* clock values

Members == {"HIGH", "NORMAL", "LOW"}

\* MessagePriority._value2member_map_, inverted: member -> value.
EnumValue == ("HIGH" :> "high") @@ ("NORMAL" :> "normal") @@ ("LOW" :> "low")

\* The Message dataclass: every field, the defaults applied.
Messages ==
  [type : MsgTypes, data : Datas, sender_id : Senders \cup {None},
   group : MsgGroups \cup {None}, metadata : Datas,
   priority : Members, ttl_seconds : Ttls \cup {None}, created_at : Times]

\* Message.is_expired() evaluated at clock value now.
IsExpired(m, now) ==
  IF m.ttl_seconds = None THEN FALSE
                          ELSE now - m.created_at > m.ttl_seconds

\* Message.to_dict(): the priority as its value when it is a member.
ToDict(m) ==
  [type |-> m.type, data |-> m.data, sender_id |-> m.sender_id,
   group |-> m.group, metadata |-> m.metadata,
   priority |-> IF m.priority \in Members THEN EnumValue[m.priority]
                                          ELSE m.priority,
   ttl_seconds |-> m.ttl_seconds, created_at |-> m.created_at]

\* dict.get(key, default)
Get(p, k, d) == IF k \in DOMAIN p THEN p[k] ELSE d

\* from_dict's priority: a member as is, a known value as its member,
\* anything else (hashable) NORMAL.
ParsePriority(v) ==
  IF v \in Members THEN v
  ELSE IF \E e \in Members : EnumValue[e] = v
         THEN CHOOSE e \in Members : EnumValue[e] = v
         ELSE "NORMAL"

\* Mutant: from_dict stamps the receiving side's clock as created_at.
FromDictFresh(p, now) ==
  [type |-> Get(p, "type", "message"), data |-> Get(p, "data", None),
   sender_id |-> Get(p, "sender_id", None), group |-> Get(p, "group", None),
   metadata |-> Get(p, "metadata", None),
   priority |-> ParsePriority(Get(p, "priority", "normal")),
   ttl_seconds |-> Get(p, "ttl_seconds", None), created_at |-> now]

\* Message.from_dict(payload) with time.time() = now.
FromDict(p, now) ==
  [type |-> Get(p, "type", "message"), data |-> Get(p, "data", None),
   sender_id |-> Get(p, "sender_id", None), group |-> Get(p, "group", None),
   metadata |-> Get(p, "metadata", None),
   priority |-> ParsePriority(Get(p, "priority", "normal")),
   ttl_seconds |-> Get(p, "ttl_seconds", None),
   created_at |-> Get(p, "created_at", now)]

-----------------------------------------------------------------------------
(* Properties.                                                             *)

\* Spec sections 3 and 6: a Message sent to a group (to_dict) and rebuilt
\* by the receiver (from_dict) at any later time is the same Message, so
\* in particular its priority survives as a member and is_expired() on
\* the receiving side still counts the ttl from the sender's created_at.
\* It is about to_dict writing priority.value and from_dict's default for
\* created_at and its priority lookup.
RoundTrip ==
  \A m \in Messages, t \in Times : FromDict(ToDict(m), t) = m
=============================================================================
