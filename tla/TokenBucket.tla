---------------------------- MODULE TokenBucket ----------------------------
(***************************************************************************)
(* TokenBucketRateLimiter of src/core/middleware/rate_limit.py: one       *)
(* bucket (last_check, tokens) per key, refilled on each allow() by      *)
(* int(elapsed * rate / window), capped at burst.                         *)
(*                                                                         *)
(* time.time() is a wall clock in whole ticks that allow() reads.  It    *)
(* advances with real time (Tick) and may be set back (StepBack), as an  *)
(* NTP correction does, by at most MaxSkew ticks in all.  Rate and      *)
(* Window are chosen so that rate / window is exact                       *)
(* in binary floating point, so int() of the product is the quotient     *)
(* truncated toward zero.  The history variable admits records the real  *)
(* time of every allowed call.                                           *)
(***************************************************************************)
EXTENDS Integers, Sequences, PyDict

CONSTANTS
  Keys,      \* rate-limit keys (connection channel names)
  Rate,      \* tokens per window
  Window,    \* window length in ticks
  Burst,     \* bucket capacity and initial fill
  MaxTime,   \* bound: last real time explored
  MaxSkew    \* bound: how far time.time() may fall behind real time

ASSUME Rate \in Nat \ {0} /\ Window \in Nat \ {0} /\ Burst \in Nat \ {0}

Time == 0..MaxTime

VARIABLES
  now,       \* time.time()
  real,      \* real time elapsed
  buckets,   \* self.buckets: key -> [last, tokens]
  admits     \* history: key -> real times of the allowed calls

vars == <<now, real, buckets, admits>>

TypeOK ==
  /\ now \in Time /\ real \in Time /\ now <= real
  /\ DOMAIN buckets \subseteq Keys
  /\ \A k \in DOMAIN buckets :
       buckets[k] \in [last : Time, tokens : 0..Burst]
  /\ admits \in [Keys -> Seq(Time)]

Init ==
  /\ now = 0
  /\ real = 0
  /\ buckets = EmptyMap
  /\ admits = [k \in Keys |-> <<>>]

Tick ==
  /\ real < MaxTime
  /\ now' = now + 1
  /\ real' = real + 1
  /\ UNCHANGED <<buckets, admits>>

\* The wall clock is set back one tick while no real time passes.
StepBack ==
  /\ now > 0 /\ real - now < MaxSkew
  /\ now' = now - 1
  /\ UNCHANGED <<real, buckets, admits>>

\* Mutant: a negative elapsed counted as its magnitude.
RefillAbs(elapsed) ==
  IF elapsed >= 0 THEN (elapsed * Rate) \div Window
                  ELSE ((-elapsed) * Rate) \div Window

\* int(elapsed * (rate / window)): int() truncates toward zero, so a
\* negative elapsed removes the whole tokens it spans.
Refill(elapsed) ==
  IF elapsed >= 0 THEN (elapsed * Rate) \div Window
                  ELSE -(((-elapsed) * Rate) \div Window)

MinOf(a, b) == IF a <= b THEN a ELSE b

\* Mutant: the refill without the min(burst, ...) cap.
RefilledUncapped(b, k) == b[k].tokens + Refill(now - b[k].last)

\* The tokens known key k holds in bucket map b at the current clock,
\* before this call.
Refilled(b, k) == MinOf(Burst, b[k].tokens + Refill(now - b[k].last))

\* The result of allow(k) on bucket map b, and the bucket it stores.
Allows(b, k) == k \notin DOMAIN b \/ Refilled(b, k) > 0

\* Mutant: first sight stores burst tokens instead of burst - 1.
NewBucketFullFirst(b, k) ==
  IF k \notin DOMAIN b     THEN [last |-> now, tokens |-> Burst]
  ELSE IF Refilled(b, k) > 0 THEN [last |-> now, tokens |-> Refilled(b, k) - 1]
  ELSE                          [last |-> now, tokens |-> 0]

NewBucket(b, k) ==
  IF k \notin DOMAIN b     THEN [last |-> now, tokens |-> Burst - 1]
  ELSE IF Refilled(b, k) > 0 THEN [last |-> now, tokens |-> Refilled(b, k) - 1]
  ELSE                          [last |-> now, tokens |-> 0]

\* allow(key): first sight of a key admits and leaves burst - 1 tokens;
\* later calls refill by the elapsed time, admit and consume one token
\* when any is left, and otherwise store an empty bucket and deny.
Allow(k) ==
  /\ buckets' = (k :> NewBucket(buckets, k)) @@ buckets
  /\ admits' = IF Allows(buckets, k) THEN [admits EXCEPT ![k] = Append(@, real)]
                            ELSE admits
  /\ UNCHANGED <<now, real>>

Next == Tick \/ StepBack \/ \E k \in Keys : Allow(k)

Spec == Init /\ [][Next]_vars

-----------------------------------------------------------------------------
(* Properties.                                                             *)

\* The token-bucket guarantee: between any two admissions of a key, the
\* number of admissions (both included) is at most burst plus the tokens
\* the elapsed real time refills, even when time.time() is set back
\* between calls.  It is about the first-sight fill of burst - 1, the
\* min(burst, ...) cap on refills after an idle period, the one token
\* each admission consumes, and int() of a negative elapsed.
SlidingWindowBound ==
  \A k \in Keys : \A i, j \in DOMAIN admits[k] :
    i <= j => j - i + 1 <= Burst + Refill(admits[k][j] - admits[k][i])

=============================================================================
