----------------------------- MODULE GroupIndex -----------------------------
(***************************************************************************)
(* What the backend contract (spec section 4.1) promises of group         *)
(* membership, with no representation: membership is a set of            *)
(* <<group, channel>> pairs.  group_add and group_discard are set         *)
(* insertion and removal, idempotent; flush empties the set; nothing else *)
(* changes it.  Testable property 1 of spec section 8 ("c is a member of  *)
(* g iff the most recent relevant call was group_add(g, c)") is exactly   *)
(* that every implementation step is one of these.                        *)
(***************************************************************************)
CONSTANTS Groups, Channels

VARIABLE members

TypeOK == members \subseteq Groups \X Channels

Init == members = {}

Add(g, c) == members' = members \cup {<<g, c>>}

Discard(g, c) == members' = members \ {<<g, c>>}

Clear == members' = {}

Next ==
  \/ \E g \in Groups, c \in Channels : Add(g, c) \/ Discard(g, c)
  \/ Clear

Spec == Init /\ [][Next]_members

\* group_channels(g): the members of g, empty for an unknown group.
ChannelsOf(g) == {c \in Channels : <<g, c>> \in members}
=============================================================================
