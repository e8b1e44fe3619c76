-------------------------- MODULE MC_MemoryBackend --------------------------
(* Model-checking instance of MemoryBackend: two channels in one group  *)
(* (so a fan-out can reach one member and not another, and the group can  *)
(* empty and be recreated), one payload, and two queue objects (enough   *)
(* for subscribe, unsubscribe and re-subscribe of a channel, leaving an  *)
(* orphaned queue, or for both channels to hold a queue).  The passing   *)
(* run has two receiving tasks, the least that exercises asyncio.Queue's *)
(* getter hand-over.                                                      *)
EXTENDS MemoryBackend

MCMaxQueues == 2
MCMaxQueueLen == 1
MCMaxInflight == 1
MCMaxCounter == 1
=============================================================================
