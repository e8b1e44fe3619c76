--------------------------- MODULE MC_ChannelLayer ---------------------------
(* Two connections, one with a user identity and one without, and two    *)
(* groups: a connection can hold one group while joining or leaving the  *)
(* other, and the two connections' tasks and the monitor interleave.     *)
(* MCOwner3 adds a second connection of the same user, so the registry's *)
(* user index also loses a connection that is not the user's last.       *)
EXTENDS ChannelLayer

CONSTANTS c1, c2, c3, u1

MCOwner == (c1 :> u1) @@ (c2 :> NoUser)
MCOwner3 == (c1 :> u1) @@ (c2 :> NoUser) @@ (c3 :> u1)
=============================================================================
