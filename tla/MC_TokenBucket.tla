--------------------------- MODULE MC_TokenBucket ---------------------------
(* One key (buckets of distinct keys never touch each other), rate one    *)
(* token per two ticks (1 / 2 is exact in floating point), burst two:     *)
(* the bucket empties in one tick, refills fractionally per tick, and a   *)
(* six-tick horizon holds three refill periods.  The wall clock may fall *)
(* two ticks behind, one more than a refill period, so a negative elapsed *)
(* spans a whole token.                                                   *)
EXTENDS TokenBucket

MCRate == 1
MCWindow == 2
MCBurst == 2
MCMaxTime == 6
MCMaxSkew == 2
=============================================================================
