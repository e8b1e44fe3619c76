--------------------------- MODULE PubSubContract ---------------------------
(***************************************************************************)
(* What BackendProtocol (src/core/typed.py) and spec section 4.1 promise  *)
(* of publish/subscribe, with no representation: a subscribed channel has *)
(* one FIFO inbox; publish appends to it; receive takes its head;         *)
(* unsubscribe forgets the channel and what was waiting for it;           *)
(* group_send fans a message out to the members of the group at the time *)
(* of the call, each delivery landing in the inbox of a member that is    *)
(* subscribed when it happens.  Membership is GroupIndex's set.           *)
(*                                                                         *)
(* Suspended receives and timeouts are invisible here: a receive that     *)
(* times out takes nothing.  flush is GroupIndex's Clear: BaseBackend   *)
(* clears groups only, and the spec's clause on subscriptions is not part *)
(* of this contract (README, section 4).                                  *)
(***************************************************************************)
EXTENDS Sequences

CONSTANTS Groups, Channels, Msgs

VARIABLES
  members,     \* <<group, channel>> pairs
  subscribed,  \* channels with a live subscription
  inbox,       \* channel -> messages published to it and not yet received
  pending      \* group_send calls made and not yet delivered, oldest first

vars == <<members, subscribed, inbox, pending>>

Membership == INSTANCE GroupIndex

Init ==
  /\ Membership!Init
  /\ subscribed = {}
  /\ inbox = [c \in Channels |-> <<>>]
  /\ pending = <<>>

\* inbox after a message m is published to every channel of chans that is
\* subscribed now.
Deliver(chans, m) ==
  [c \in Channels |->
     IF c \in chans \cap subscribed THEN Append(inbox[c], m) ELSE inbox[c]]

GroupAdd(g, c) ==
  /\ Membership!Add(g, c)
  /\ UNCHANGED <<subscribed, inbox, pending>>

GroupDiscard(g, c) ==
  /\ Membership!Discard(g, c)
  /\ UNCHANGED <<subscribed, inbox, pending>>

Subscribe(c) ==
  /\ subscribed' = subscribed \cup {c}
  /\ UNCHANGED <<members, inbox, pending>>

Unsubscribe(c) ==
  /\ c \in subscribed
  /\ subscribed' = subscribed \ {c}
  /\ inbox' = [inbox EXCEPT ![c] = <<>>]
  /\ UNCHANGED <<members, pending>>

Publish(c, m) ==
  /\ inbox' = Deliver({c}, m)
  /\ UNCHANGED <<members, subscribed, pending>>

GroupSend(g, m) ==
  /\ Membership!ChannelsOf(g) # {}
  /\ pending' = Append(pending, [msg |-> m, chans |-> Membership!ChannelsOf(g)])
  /\ UNCHANGED <<members, subscribed, inbox>>

GroupDeliver ==
  /\ pending # <<>>
  /\ inbox' = Deliver(Head(pending).chans, Head(pending).msg)
  /\ pending' = Tail(pending)
  /\ UNCHANGED <<members, subscribed>>

Receive(c) ==
  /\ c \in subscribed
  /\ inbox[c] # <<>>
  /\ inbox' = [inbox EXCEPT ![c] = Tail(@)]
  /\ UNCHANGED <<members, subscribed, pending>>

Flush ==
  /\ Membership!Clear
  /\ UNCHANGED <<subscribed, inbox, pending>>

Cleanup ==
  /\ Membership!Clear
  /\ subscribed' = {}
  /\ inbox' = [c \in Channels |-> <<>>]
  /\ UNCHANGED pending

Next ==
  \/ \E g \in Groups, c \in Channels : GroupAdd(g, c) \/ GroupDiscard(g, c)
  \/ \E c \in Channels : Subscribe(c) \/ Unsubscribe(c) \/ Receive(c)
  \/ \E c \in Channels, m \in Msgs : Publish(c, m)
  \/ \E g \in Groups, m \in Msgs : GroupSend(g, m)
  \/ GroupDeliver
  \/ Flush
  \/ Cleanup

Spec == Init /\ [][Next]_vars
=============================================================================
