----------------------------- MODULE RateLimiter -----------------------------
(***************************************************************************)
(* pkg/internal/surgeprotector/rate_limit.go: the token bucket of a surge  *)
(* protector. TryTake and ReleaseToken look at rateLimited before they     *)
(* take rateLock, and SetRateLimit raises it after it has released the     *)
(* lock, so a reconfiguration interleaves with calls under way.            *)
(***************************************************************************)
EXTENDS Integers

CONSTANTS
    RateCallers,
    Limits,      \* the <<capacity, refillRate>> arguments SetRateLimit is called with
    Int32Range,  \* number of int32 values: int32(capacity) wraps around
    RateMaxTime      \* exploration bound

ASSUME LimitsAssumption == Limits \subseteq Int \X Int
ASSUME RangeAssumption == Int32Range \in Nat \ {0} /\ Int32Range % 2 = 0
ASSUME TimeAssumption == RateMaxTime \in Nat

VARIABLES
    rateClock,
    rateLimited, tokens, capacity, refillRate,
    nextRefill,   \* NoRefill stands for the zero time.Time
    ratePc,           \* each caller: "idle", "TryTake", "ReleaseToken" (waiting for the lock), "enable"
    outstanding,  \* history: tokens taken since the last refill and not put back
    refilledAt    \* history: the time of the last refill since SetRateLimit, or NoRefill

bucket == <<tokens, capacity, refillRate, nextRefill>>
rateHistory == <<outstanding, refilledAt>>
rateVars == <<rateClock, rateLimited, bucket, ratePc, rateHistory>>

NoRefill == -1

\* The conversion int32(n).
int32(n) == ((n + Int32Range \div 2) % Int32Range) - Int32Range \div 2

RateInit ==
    /\ rateClock = 0
    /\ rateLimited = FALSE
    /\ tokens = 0 /\ capacity = 0 /\ refillRate = 0 /\ nextRefill = NoRefill
    /\ ratePc = [c \in RateCallers |-> "idle"]
    /\ outstanding = 0 /\ refilledAt = NoRefill

RateGoto(c, step) == ratePc' = [ratePc EXCEPT ![c] = step]

\* The unlocked look at rateLimited: an unlimited call is over at once.
RateBegin(c, call) ==
    /\ ratePc[c] = "idle" /\ rateLimited
    /\ RateGoto(c, call)
    /\ UNCHANGED <<rateClock, rateLimited, bucket, rateHistory>>

MutRefillEarly == nextRefill = NoRefill \/ rateClock + 1 >= nextRefill

RefillDue == nextRefill = NoRefill \/ rateClock >= nextRefill

Refill ==
    LET full == IF capacity < 0 THEN 0 ELSE capacity
    IN  [capacity |-> full, tokens |-> full,
         nextRefill |-> IF refillRate > 0 THEN rateClock + refillRate ELSE rateClock]

TryTakeLocked(c) ==
    LET b == IF RefillDue THEN Refill
             ELSE [capacity |-> capacity, tokens |-> tokens, nextRefill |-> nextRefill]
        taken == IF b.tokens <= 0 THEN 0 ELSE 1
    IN  /\ ratePc[c] = "TryTake"
        /\ capacity' = b.capacity /\ nextRefill' = b.nextRefill
        /\ tokens' = b.tokens - taken
        /\ outstanding' = (IF RefillDue THEN 0 ELSE outstanding) + taken
        /\ refilledAt' = IF RefillDue THEN rateClock ELSE refilledAt
        /\ RateGoto(c, "idle")
        /\ UNCHANGED <<rateClock, rateLimited, refillRate>>

MutReleaseUnbounded(c) ==
    /\ ratePc[c] = "ReleaseToken"
    /\ tokens' = tokens + 1 /\ outstanding' = outstanding - 1
    /\ RateGoto(c, "idle")
    /\ UNCHANGED <<rateClock, rateLimited, capacity, refillRate, nextRefill, refilledAt>>

ReleaseTokenLocked(c) ==
    /\ ratePc[c] = "ReleaseToken"
    /\ \/ tokens < capacity /\ tokens' = tokens + 1 /\ outstanding' = outstanding - 1
       \/ tokens >= capacity /\ UNCHANGED <<tokens, outstanding>>
    /\ RateGoto(c, "idle")
    /\ UNCHANGED <<rateClock, rateLimited, capacity, refillRate, nextRefill, refilledAt>>

SetRateLimit(c, limit) ==
    /\ ratePc[c] = "idle"
    /\ capacity' = int32(IF limit[1] < 0 THEN 0 ELSE limit[1])
    /\ refillRate' = limit[2]
    /\ tokens' = capacity'
    /\ nextRefill' = NoRefill
    /\ outstanding' = 0 /\ refilledAt' = NoRefill
    /\ RateGoto(c, "enable")
    /\ UNCHANGED <<rateClock, rateLimited>>

EnableRateLimit(c) ==
    /\ ratePc[c] = "enable"
    /\ rateLimited' = TRUE
    /\ RateGoto(c, "idle")
    /\ UNCHANGED <<rateClock, bucket, rateHistory>>

RateTick ==
    /\ rateClock < RateMaxTime
    /\ rateClock' = rateClock + 1
    /\ UNCHANGED <<rateLimited, bucket, ratePc, rateHistory>>

RateNext ==
    \/ \E c \in RateCallers :
        \/ \E call \in {"TryTake", "ReleaseToken"} : RateBegin(c, call)
        \/ TryTakeLocked(c)
        \/ ReleaseTokenLocked(c)
        \/ \E limit \in Limits : SetRateLimit(c, limit)
        \/ EnableRateLimit(c)
    \/ RateTick

RateSpec == RateInit /\ [][RateNext]_rateVars

-----------------------------------------------------------------------------
\* The fields have their types, and nobody waits for the lock of a limiter
\* that was never enabled.
RateTypeOK ==
    /\ rateClock \in Nat
    /\ rateLimited \in BOOLEAN
    /\ tokens \in Int /\ capacity \in Int /\ refillRate \in Int
    /\ nextRefill \in Nat \cup {NoRefill} /\ refilledAt \in Nat \cup {NoRefill}
    /\ ratePc \in [RateCallers -> {"idle", "TryTake", "ReleaseToken", "enable"}]
    /\ outstanding \in Int
    /\ \A c \in RateCallers : ratePc[c] \in {"TryTake", "ReleaseToken"} => rateLimited

\* Between two refills the bucket hands out exactly what it holds: the tokens
\* taken and not put back plus the tokens left are the capacity, so no
\* interleaving of TryTake, ReleaseToken and SetRateLimit (late returns of
\* tokens from before a refill included) makes or destroys a token.
TokensConserved ==
    /\ outstanding + tokens = capacity
    /\ tokens <= capacity

\* Refills are at least one refill period apart: TryTake refills only when
\* the period that the last refill began is over, and SetRateLimit starts a
\* new period.
RefillsSpaced ==
    [][refilledAt' # refilledAt /\ refilledAt # NoRefill /\ refilledAt' # NoRefill
            => refilledAt' - refilledAt >= refillRate]_rateVars
=============================================================================
