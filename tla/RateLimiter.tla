---------------------------- MODULE RateLimiter ----------------------------
(***************************************************************************)
(* The token bucket of an OFT peer (programs/oft/src/state/peer_config.rs) *)
(* as functions of the bucket and the clock.  Sums and products saturate   *)
(* at the largest u64.                                                     *)
(***************************************************************************)
EXTENDS Integers

CONSTANT U64  \* 2^64, scaled down

ASSUME WidthAssumption == U64 \in Nat \ {0}

u64 == 0..U64 - 1

RateLimiter == [capacity : u64, tokens : u64, refill_per_second : u64,
                last_refill_time : u64]

\* The derived Default.
EmptyLimiter == [capacity |-> 0, tokens |-> 0, refill_per_second |-> 0,
                 last_refill_time |-> 0]

Lesser(a, b)          == IF a <= b THEN a ELSE b
saturating_add(a, b) == Lesser(a + b, U64 - 1)
saturating_mul(a, b) == Lesser(a * b, U64 - 1)

\* What refill(extra_tokens) adds at time now.
new_tokens(limiter, extra_tokens, now) ==
    IF now > limiter.last_refill_time
    THEN saturating_add(extra_tokens,
           saturating_mul(now - limiter.last_refill_time,
                          limiter.refill_per_second))
    ELSE extra_tokens

refill(limiter, extra_tokens, now) ==
    [capacity |-> limiter.capacity,
     tokens |-> Lesser(limiter.capacity,
                  saturating_add(limiter.tokens,
                                 new_tokens(limiter, extra_tokens, now))),
     refill_per_second |-> limiter.refill_per_second,
     last_refill_time |-> now]

\* The tokens try_consume finds.
available(limiter, now) == refill(limiter, 0, now).tokens

\* try_consume: refused unless can_consume.
can_consume(limiter, amount, now) == available(limiter, now) >= amount
consume(limiter, amount, now) ==
    [refill(limiter, 0, now) EXCEPT !.tokens = @ - amount]

\* set_rate refills at the old rate first; set_capacity fills the bucket.
set_rate(limiter, refill_per_second, now) ==
    [refill(limiter, 0, now) EXCEPT !.refill_per_second = refill_per_second]

set_capacity(limiter, capacity, now) ==
    [limiter EXCEPT !.capacity = capacity, !.tokens = capacity,
                    !.last_refill_time = now]

=============================================================================
