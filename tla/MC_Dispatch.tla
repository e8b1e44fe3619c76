---------------------------- MODULE MC_Dispatch ----------------------------
(* Two connections, one with a user identity and one without; the stages  *)
(* in the order spec section 4.4 recommends, listed and not linked; a     *)
(* limiter of one token per two ticks with a burst of one, so the second  *)
(* message within a refill period is throttled.                           *)
EXTENDS Dispatch

CONSTANTS ca, cn, u1

MCOwner == (ca :> u1) @@ (cn :> NoUser)
MCStages == <<"auth", "ratelimit", "validation", "logging">>
MCLinks == [s \in StageNames |-> NoLink]

\* logging built with next_middleware=ratelimit while both are listed.
MCLinksTwice == [s \in StageNames |-> IF s = "logging" THEN "ratelimit" ELSE NoLink]
MCRate == 1
MCWindow == 2
MCBurst == 1
MCMaxTime == 2
=============================================================================
