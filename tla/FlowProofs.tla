----------------------------- MODULE FlowProofs -----------------------------
(***************************************************************************)
(* Proofs about what decides whether an element may pass, for any callers, *)
(* limits, elements and priorities: the token bucket, with any int32       *)
(* width, the resister's queue, and the surge protector of one wire.       *)
(***************************************************************************)
EXTENDS RateLimiter, Resister, SurgeWire, FiniteSetTheorems, SequenceTheorems, WellFoundedInduction,
        TLAPS

-----------------------------------------------------------------------------
(* The token bucket. *)

USE DEF NoRefill

LEMMA Int32Type == \A n \in Int : int32(n) \in Int
BY RangeAssumption DEF int32

\* Every step of the limiter keeps its fields typed.
THEOREM TypeCorrect == RateSpec => []RateTypeOK
<1>1. RateInit => RateTypeOK
  <2> SUFFICES ASSUME RateInit PROVE RateTypeOK
    OBVIOUS
  <2>1. rateLimited \in BOOLEAN
    BY DEF RateInit
  <2> QED BY <2>1 DEF RateInit, RateTypeOK
<1>2. RateTypeOK /\ [RateNext]_rateVars => RateTypeOK'
  <2> SUFFICES ASSUME RateTypeOK, [RateNext]_rateVars PROVE RateTypeOK'
    OBVIOUS
  <2> USE DEF RateTypeOK, bucket, rateHistory, RateGoto
  <2>1. ASSUME NEW c \in RateCallers, NEW call \in {"TryTake", "ReleaseToken"}, RateBegin(c, call)
        PROVE RateTypeOK'
    BY <2>1 DEF RateBegin
  <2>2. ASSUME NEW c \in RateCallers, TryTakeLocked(c) PROVE RateTypeOK'
    BY <2>2 DEF TryTakeLocked, Refill, RefillDue
  <2>3. ASSUME NEW c \in RateCallers, ReleaseTokenLocked(c) PROVE RateTypeOK'
    BY <2>3 DEF ReleaseTokenLocked
  <2>4. ASSUME NEW c \in RateCallers, NEW limit \in Limits, SetRateLimit(c, limit) PROVE RateTypeOK'
    <3>1. limit[1] \in Int /\ limit[2] \in Int
      BY LimitsAssumption
    <3>2. capacity' \in Int
      BY <2>4, <3>1, Int32Type DEF SetRateLimit
    <3> QED BY <2>4, <3>1, <3>2 DEF SetRateLimit
  <2>5. ASSUME NEW c \in RateCallers, EnableRateLimit(c) PROVE RateTypeOK'
    BY <2>5 DEF EnableRateLimit
  <2>6. CASE RateTick
    BY <2>6, TimeAssumption DEF RateTick
  <2>7. CASE UNCHANGED rateVars
    BY <2>7 DEF rateVars
  <2> QED BY <2>1, <2>2, <2>3, <2>4, <2>5, <2>6, <2>7 DEF RateNext
<1> QED BY <1>1, <1>2, PTL DEF RateSpec

\* The bucket neither makes nor destroys tokens between two refills.
THEOREM TokensSafe == RateSpec => []TokensConserved
<1>1. RateInit => TokensConserved
  BY DEF RateInit, TokensConserved
<1>2. RateTypeOK /\ TokensConserved /\ [RateNext]_rateVars => TokensConserved'
  <2> SUFFICES ASSUME RateTypeOK, TokensConserved, [RateNext]_rateVars PROVE TokensConserved'
    OBVIOUS
  <2> USE DEF TokensConserved
  <2>1. ASSUME NEW c \in RateCallers, TryTakeLocked(c) PROVE TokensConserved'
    BY <2>1 DEF TryTakeLocked, Refill, RateTypeOK
  <2>2. ASSUME NEW c \in RateCallers, ReleaseTokenLocked(c) PROVE TokensConserved'
    BY <2>2 DEF ReleaseTokenLocked, RateTypeOK
  <2>3. ASSUME NEW c \in RateCallers, NEW limit \in Limits, SetRateLimit(c, limit)
        PROVE TokensConserved'
    <3>1. limit[1] \in Int
      BY LimitsAssumption
    <3>2. capacity' \in Int /\ tokens' \in Int /\ outstanding' \in Int
      BY <2>3, <3>1, Int32Type DEF SetRateLimit
    <3>3. tokens' = capacity' /\ outstanding' = 0
      BY <2>3 DEF SetRateLimit
    <3>4. outstanding' + tokens' = capacity'
      <4>1. \A n \in Int : 0 + n = n
        OBVIOUS
      <4> QED BY <4>1, <3>2, <3>3, Zenon
    <3>5. tokens' <= capacity'
      BY <3>2, <3>3
    <3> QED BY <3>4, <3>5
  <2>4. CASE UNCHANGED <<bucket, rateHistory>>
    BY <2>4 DEF bucket, rateHistory
  <2> QED BY <2>1, <2>2, <2>3, <2>4 DEF RateNext, RateBegin, EnableRateLimit, RateTick, rateVars
<1> QED BY <1>1, <1>2, TypeCorrect, PTL DEF RateSpec

-----------------------------------------------------------------------------
\* The next refill is one period after the last one.
PeriodKept ==
    /\ refilledAt = NoRefill => nextRefill = NoRefill
    /\ refilledAt # NoRefill =>
        nextRefill = refilledAt + (IF refillRate > 0 THEN refillRate ELSE 0)
    /\ refilledAt <= rateClock

LEMMA PeriodKeptInvariant == RateSpec => []PeriodKept
<1>1. RateInit => PeriodKept
  BY DEF RateInit, PeriodKept
<1>2. RateTypeOK /\ PeriodKept /\ [RateNext]_rateVars => PeriodKept'
  <2> SUFFICES ASSUME RateTypeOK, PeriodKept, [RateNext]_rateVars PROVE PeriodKept'
    OBVIOUS
  <2> USE DEF PeriodKept, RateTypeOK
  <2>1. ASSUME NEW c \in RateCallers, TryTakeLocked(c) PROVE PeriodKept'
    BY <2>1 DEF TryTakeLocked, Refill
  <2>2. ASSUME NEW c \in RateCallers, NEW limit \in Limits, SetRateLimit(c, limit)
        PROVE PeriodKept'
    BY <2>2 DEF SetRateLimit
  <2>3. CASE UNCHANGED <<rateClock, refillRate, nextRefill, refilledAt>>
    BY <2>3
  <2>4. CASE RateTick
    BY <2>4, TimeAssumption DEF RateTick, bucket, rateHistory
  <2> QED
    BY <2>1, <2>2, <2>3, <2>4 DEF RateNext, RateBegin, EnableRateLimit, ReleaseTokenLocked, rateVars,
       bucket, rateHistory
<1> QED BY <1>1, <1>2, TypeCorrect, PTL DEF RateSpec

\* Two refills under the same settings are a refill period apart.
THEOREM SpacingSafe == RateSpec => RefillsSpaced
<1>1. RateTypeOK /\ PeriodKept /\ [RateNext]_rateVars =>
        [refilledAt' # refilledAt /\ refilledAt # NoRefill /\ refilledAt' # NoRefill
            => refilledAt' - refilledAt >= refillRate]_rateVars
  <2> SUFFICES ASSUME RateTypeOK, PeriodKept, RateNext, refilledAt' # refilledAt,
                      refilledAt # NoRefill, refilledAt' # NoRefill
               PROVE  refilledAt' - refilledAt >= refillRate
    BY DEF rateVars, rateHistory
  <2>1. PICK c \in RateCallers : TryTakeLocked(c)
    BY DEF RateNext, RateBegin, ReleaseTokenLocked, SetRateLimit, EnableRateLimit, RateTick, rateHistory
  <2>2. RefillDue /\ refilledAt' = rateClock
    BY <2>1 DEF TryTakeLocked
  <2> QED BY <2>2 DEF RefillDue, PeriodKept, RateTypeOK
<1> QED BY <1>1, TypeCorrect, PeriodKeptInvariant, PTL DEF RateSpec, RefillsSpaced

-----------------------------------------------------------------------------
(* The resister. *)

\* The array is a heap of distinct elements, by the priorities they have now.
QueueOrdered ==
    /\ HeapOrdered(queue, priority)
    /\ \A i, j \in 1..Len(queue) : queue[i] = queue[j] => i = j

QueueInv ==
    /\ ResisterTypeOK /\ QueueOrdered /\ PopsHighest
    /\ ToSet(queue) = indexByID /\ indexByID = pushed

\* What container/heap leaves holds each of the elements once, in heap order.
LEMMA HeapContents ==
    ASSUME NEW E, IsFiniteSet(E), NEW prio, NEW q \in Heaps(E, prio)
    PROVE  /\ q \in Seq(E) /\ ToSet(q) = E /\ Len(q) = Cardinality(E)
           /\ HeapOrdered(q, prio)
           /\ \A i, j \in 1..Len(q) : q[i] = q[j] => i = j
<1> DEFINE D == 1..Cardinality(E)
<1>1. /\ q \in [D -> E] /\ HeapOrdered(q, prio)
      /\ \A i, j \in D : q[i] = q[j] => i = j
  BY DEF Heaps, SetToSeqs
<1>2. Cardinality(E) \in Nat
  BY FS_CardinalityType
<1>3. q \in Seq(E) /\ Len(q) = Cardinality(E) /\ DOMAIN q = D
  BY <1>1, <1>2
<1>4. IsFiniteSet(D) /\ Cardinality(D) = Cardinality(E)
  <2>1. 1 \in Int /\ Cardinality(E) \in Int
    BY <1>2
  <2>2. IsFiniteSet(D) /\ Cardinality(D) = IF 1 > Cardinality(E) THEN 0 ELSE Cardinality(E) - 1 + 1
    BY <2>1, FS_Interval
  <2> QED BY <1>2, <2>2
<1>5. ASSUME NEW e \in E, e \notin ToSet(q) PROVE FALSE
  <2>1. q \in [D -> E \ {e}]
    BY <1>1, <1>3, <1>5 DEF ToSet
  <2>2. IsFiniteSet(E \ {e}) /\ Cardinality(E \ {e}) = Cardinality(E) - 1
    BY FS_RemoveElement
  <2>3. Cardinality(E \ {e}) < Cardinality(D)
    BY <1>2, <1>4, <2>2
  <2>4. \E x, y \in D : x # y /\ q[x] = q[y]
    <3> DEFINE rest == E \ {e}
    <3> HIDE DEF D, rest
    <3>1. IsFiniteSet(D) /\ IsFiniteSet(rest) /\ Cardinality(rest) < Cardinality(D) /\ q \in [D -> rest]
      BY <1>4, <2>1, <2>2, <2>3 DEF rest
    <3> QED BY <3>1, FS_PigeonHole, Zenon
  <2> QED BY <1>1, <2>4
<1>6. ToSet(q) = E
  BY <1>1, <1>3, <1>5 DEF ToSet
<1> QED BY <1>1, <1>3, <1>6

\* The first element of a heap has the highest priority.
LEMMA HeapRoot ==
    ASSUME NEW q \in Seq(Ids), NEW prio \in [Ids -> Nat], HeapOrdered(q, prio)
    PROVE  \A i \in 1..Len(q) : prio[q[i]] <= prio[q[1]]
<1> DEFINE Higher == {i \in 1..Len(q) : ~(prio[q[i]] <= prio[q[1]])}
<1> DEFINE Below == {p \in Nat \X Nat : p[1] < p[2]}
<1>1. SUFFICES ASSUME Higher # {} PROVE FALSE
  OBVIOUS
<1>2. IsWellFoundedOn(Below, Nat)
  BY NatLessThanWellFounded DEF OpToRel
<1>3. Higher \subseteq Nat
  OBVIOUS
<1>4. PICK m \in Higher : \A k \in Higher : ~(<<k, m>> \in Below)
  BY <1>1, <1>2, <1>3, WFMin
<1>5. Len(q) \in Nat /\ m \in 1..Len(q) /\ \A i \in 1..Len(q) : prio[q[i]] \in Nat
  OBVIOUS
<1>6. m # 1
  BY <1>5
<1>7. m \div 2 \in 1..Len(q) /\ m \div 2 < m /\ m \in 2..Len(q)
  BY <1>5, <1>6
<1>8. m \div 2 \notin Higher
  BY <1>3, <1>4, <1>7
<1>9. prio[q[m \div 2]] >= prio[q[m]]
  BY <1>7 DEF HeapOrdered
<1>10. prio[q[m \div 2]] <= prio[q[1]]
  BY <1>7, <1>8
<1>11. 1 \in 1..Len(q)
  BY <1>5
<1> QED BY <1>4, <1>5, <1>7, <1>9, <1>10, <1>11

LEMMA QueueFinite ==
    ASSUME NEW q \in Seq(Ids), \A i, j \in 1..Len(q) : q[i] = q[j] => i = j
    PROVE  IsFiniteSet(ToSet(q)) /\ Cardinality(ToSet(q)) = Len(q)
<1>1. Len(q) \in Nat /\ DOMAIN q = 1..Len(q)
  OBVIOUS
<1>2. IsFiniteSet(1..Len(q)) /\ Cardinality(1..Len(q)) = Len(q)
  <2>1. 1 \in Int /\ Len(q) \in Int
    BY <1>1
  <2>2. IsFiniteSet(1..Len(q)) /\ Cardinality(1..Len(q)) = IF 1 > Len(q) THEN 0 ELSE Len(q) - 1 + 1
    BY <2>1, FS_Interval
  <2> QED BY <1>1, <2>2
<1>3. q \in [1..Len(q) -> ToSet(q)]
  BY <1>1 DEF ToSet
<1>4. q \in Surjection(1..Len(q), ToSet(q))
  BY <1>1, <1>3 DEF Surjection, ToSet
<1>5. q \in Injection(1..Len(q), ToSet(q))
  BY <1>1, <1>3 DEF Injection, IsInjective
<1>6. /\ IsFiniteSet(ToSet(q))
      /\ Cardinality(ToSet(q)) = Cardinality(1..Len(q)) <=> q \in Injection(1..Len(q), ToSet(q))
  BY <1>2, <1>4, FS_Surjection
<1> QED BY <1>2, <1>5, <1>6

LEMMA QueueInvNext == QueueInv /\ [ResisterNext]_resisterVars => QueueInv'
<1> SUFFICES ASSUME QueueInv, [ResisterNext]_resisterVars PROVE QueueInv'
  OBVIOUS
<1> USE DEF QueueInv
<1>1. /\ IsFiniteSet(ToSet(queue)) /\ ToSet(queue) \subseteq Ids /\ queue \in Seq(Ids)
      /\ Len(queue) \in Nat /\ DOMAIN queue = 1..Len(queue)
  <2>1. queue \in Seq(Ids) /\ ToSet(queue) \subseteq Ids
    BY DEF ResisterTypeOK, ToSet
  <2> QED BY <2>1, QueueFinite DEF QueueOrdered
<1>2. ASSUME NEW E, E \subseteq Ids, IsFiniteSet(E), queue' \in Heaps(E, priority')
      PROVE  queue' \in Seq(Ids) /\ ToSet(queue)' = E /\ QueueOrdered'
  <2> DEFINE q == queue'
             prio == priority'
  <2>1. q \in Heaps(E, prio)
    BY <1>2
  <2> HIDE DEF q, prio
  <2>2. /\ q \in Seq(E) /\ ToSet(q) = E /\ HeapOrdered(q, prio)
        /\ \A i, j \in 1..Len(q) : q[i] = q[j] => i = j
    BY <1>2, <2>1, HeapContents
  <2>3. q \in Seq(Ids)
    BY <1>2, <2>2
  <2> QED BY <2>2, <2>3 DEF QueueOrdered, q, prio
<1>3. ASSUME NEW id \in Ids, NEW p \in Priorities, NEW r \in RetryCounts, Push(id, p, r) PROVE QueueInv'
  <2> DEFINE E == ToSet(queue) \cup {id}
  <2>1. E \subseteq Ids /\ IsFiniteSet(E)
    BY <1>1, FS_AddElement
  <2>2. priority' \in [Ids -> Nat] /\ retryCount' \in [Ids -> Nat] /\ popped' = None
    BY <1>3, PriorityAssumption DEF Push, ResisterTypeOK
  <2>3. queue' \in Heaps(E, priority')
    BY <1>3 DEF Push
  <2> HIDE DEF E
  <2>4. queue' \in Seq(Ids) /\ ToSet(queue)' = E /\ QueueOrdered'
    BY <1>2, <2>1, <2>3
  <2>5. indexByID' = E /\ pushed' = E
    BY <1>3 DEF Push, E
  <2> QED BY <2>1, <2>2, <2>4, <2>5 DEF ResisterTypeOK, PopsHighest
<1>4. CASE Pop
  <2> DEFINE E == ToSet(Tail(queue))
  <2>1. /\ Len(queue) > 0 /\ Head(queue) = queue[1] /\ Len(Tail(queue)) = Len(queue) - 1
        /\ \A i \in 1..Len(Tail(queue)) : Tail(queue)[i] = queue[i + 1]
        /\ DOMAIN Tail(queue) = 1..Len(Tail(queue)) /\ queue[1] \in Ids
    BY <1>1, <1>4 DEF Pop
  <2>2. E = ToSet(queue) \ {queue[1]}
    <3>1. ASSUME NEW e \in E PROVE e \in ToSet(queue) \ {queue[1]}
      <4>1. PICK i \in 1..Len(Tail(queue)) : e = Tail(queue)[i]
        BY <2>1, <3>1 DEF ToSet
      <4>2. e = queue[i + 1] /\ i + 1 \in 1..Len(queue) /\ i + 1 # 1
        BY <1>1, <2>1, <4>1
      <4>3. 1 \in 1..Len(queue)
        BY <1>1, <2>1
      <4>4. e # queue[1]
        BY <4>2, <4>3 DEF QueueOrdered
      <4> QED BY <1>1, <4>2, <4>4 DEF ToSet
    <3>2. ASSUME NEW e \in ToSet(queue), e # queue[1] PROVE e \in E
      <4>1. PICK i \in 1..Len(queue) : e = queue[i]
        BY <1>1, <3>2 DEF ToSet
      <4>2. i # 1 /\ i - 1 \in 1..Len(Tail(queue)) /\ (i - 1) + 1 = i
        BY <1>1, <2>1, <3>2, <4>1
      <4>3. Tail(queue)[i - 1] = e
        BY <2>1, <4>1, <4>2
      <4> QED BY <2>1, <4>2, <4>3 DEF ToSet
    <3> HIDE DEF E
    <3> QED BY <3>1, <3>2
  <2>3. E \subseteq Ids /\ IsFiniteSet(E)
    BY <1>1, <2>2, FS_Subset
  <2>4. queue' \in Heaps(E, priority') /\ priority' = priority /\ retryCount' = retryCount
    BY <1>4 DEF Pop
  <2>5. popped' = <<queue[1], priority[queue[1]]>>
    BY <1>4, <2>1 DEF Pop
  <2>6. \A id \in ToSet(queue) : priority[id] <= priority[queue[1]]
    <3>1. \A i \in 1..Len(queue) : priority[queue[i]] <= priority[queue[1]]
      BY <1>1, HeapRoot DEF QueueOrdered, ResisterTypeOK
    <3> QED BY <1>1, <3>1 DEF ToSet
  <2>7. indexByID' = E /\ pushed' = E
    BY <1>4, <2>1, <2>2 DEF Pop
  <2> HIDE DEF E
  <2>8. queue' \in Seq(Ids) /\ ToSet(queue)' = E /\ QueueOrdered'
    BY <1>2, <2>3, <2>4
  <2>9. popped' \in Ids \X Nat /\ popped'[2] = priority[queue[1]]
    BY <2>1, <2>5 DEF ResisterTypeOK
  <2>10. ResisterTypeOK'
    BY <2>3, <2>4, <2>7, <2>8, <2>9 DEF ResisterTypeOK
  <2>11. PopsHighest'
    BY <2>2, <2>4, <2>6, <2>8, <2>9 DEF PopsHighest
  <2> QED BY <2>7, <2>8, <2>10, <2>11
<1>5. CASE DecayPriorities
  <2>1. priority' \in [Ids -> Nat] /\ retryCount' = retryCount /\ popped' = None
    BY <1>5 DEF DecayPriorities, Decayed, ResisterTypeOK
  <2>2. CASE priority' = priority
    BY <1>5, <2>1, <2>2 DEF DecayPriorities, ResisterTypeOK, PopsHighest, QueueOrdered
  <2>3. CASE priority' # priority
    <3>1. queue' \in Seq(Ids) /\ ToSet(queue)' = ToSet(queue) /\ QueueOrdered'
      BY <1>1, <1>2, <1>5, <2>3 DEF DecayPriorities
    <3> QED BY <1>5, <2>1, <3>1 DEF DecayPriorities, ResisterTypeOK, PopsHighest
  <2> QED BY <2>2, <2>3
<1>6. CASE UNCHANGED resisterVars
  BY <1>6 DEF resisterVars, ResisterTypeOK, QueueOrdered, PopsHighest
<1> QED BY <1>3, <1>4, <1>5, <1>6 DEF ResisterNext

\* For any elements, priorities and retry counts: the index and the queue hold the same
\* elements, once each, and Pop takes a most urgent one, after any requeues and decays.
THEOREM QueueSafe == ResisterSpec => []QueueSound
<1>1. ResisterInit => QueueInv
  BY DEF ResisterInit, QueueInv, ResisterTypeOK, ToSet, QueueOrdered, PopsHighest, HeapOrdered
<1>2. QueueInv => QueueSound
  BY QueueFinite DEF QueueInv, QueueOrdered, QueueSound, IndexMatchesQueue, ResisterTypeOK
<1> QED BY <1>1, <1>2, QueueInvNext, PTL DEF ResisterSpec

-----------------------------------------------------------------------------
(* The surge protector of one wire, which is the only component it manages. *)

TheWire == Components[1]

FrameSet ==
    [fn : {"wire", "protector"}, wire : Wires, elem : Elements, item : Elements, next : {1, 2},
     at : {"enter", "send", "tail", "loop", "pop", "popped", "take", "own"}]
ItemSet == [elem : Elements, path : Seq(Wires)]

\* Where a function can be: only the loop over the components counts past one.
Proper(f) ==
    /\ f.fn = "wire" => f.at \in {"enter", "send", "tail"}
    /\ f.fn = "protector" => f.at \notin {"send", "tail"}
    /\ f.next = 2 => f.at \in {"own", "popped"}

\* The frame has called, and what it called with.
Awaits(f) == f.at \in {"tail", "own", "popped"} /\ f.next = 1
Handed(f) == IF f.at = "popped" THEN f.item ELSE f.elem

\* The elements the popped ones were given precedence over, which the frames keep.
Kept(s) == {e \in Elements : \E i \in 1..Len(s) : s[i].at = "popped" /\ s[i].elem = e}

\* The element being submitted right now: none after its Submit returned nil.
Live(s, r, own) ==
    IF s = <<>> THEN IF r = "err" THEN own ELSE {}
    ELSE IF r # "nil" /\ s[Len(s)].next = 1 THEN {Handed(s[Len(s)])} ELSE {}

Held(s, r, own) == Kept(s) \cup Live(s, r, own)

\* Every frame was called by the one below it, with its element, the first by
\* the goroutine.
Called(s, own) ==
    /\ s \in Seq(FrameSet)
    /\ \A i \in 1..Len(s) : Proper(s[i])
    /\ \A i \in 1..(Len(s) - 1) :
          Awaits(s[i]) /\ s[i + 1].fn # s[i].fn /\ s[i + 1].elem = Handed(s[i])
    /\ s # <<>> => s[1].fn = "wire" /\ own = {s[1].elem}

\* A result goes to a frame that awaits it, and last to the goroutine.
Answered(s, r, own) ==
    /\ r # "none" /\ s # <<>> => Awaits(s[Len(s)])
    /\ s = <<>> => IF r = "none" THEN own = {} ELSE \E e \in Elements : own = {e}

\* The frames of one stack keep different elements, and none is being submitted.
KeptOnce(s, r, own) ==
    /\ \A i, j \in 1..Len(s) :
          s[i].at = "popped" /\ s[j].at = "popped" /\ s[i].elem = s[j].elem => i = j
    /\ Kept(s) \cap Live(s, r, own) = {}

GoodStack(s, r, own) == Called(s, own) /\ Answered(s, r, own) /\ KeptOnce(s, r, own)

Own(g) == {e \in Elements : spc[e] = g}

StacksInv ==
    /\ DOMAIN stack = Goroutines
    /\ \A g \in Goroutines : GoodStack(stack[g], ret[g], Own(g))

ElemsOf(s) == {e \in Elements : \E i \in 1..Len(s) : s[i].elem = e}
EachOnce(s) == \A i, j \in 1..Len(s) : s[i].elem = s[j].elem => i = j

ChannelsInv ==
    /\ inChan \in [Wires -> Seq(ItemSet)] /\ out \in Seq(ItemSet)
    /\ EachOnce(inChan[TheWire]) /\ EachOnce(out)

\* The last backup takes in whole rounds only, once an element; the others besides
\* in the rounds that were cut short.
LastBackup == Backups[Len(Backups)]
BackupsInv ==
    /\ attached => Backups # <<>>
    /\ backedUp \in [ToSet(Backups) -> [Elements -> Nat]] /\ cuts \in [Elements -> Nat]
    /\ \A e \in Elements :
         /\ Len(Backups) < 2 => cuts[e] = 0
         /\ Backups # <<>> => backedUp[LastBackup][e] <= 1
         /\ \A b \in ToSet(Backups) :
              backedUp[LastBackup][e] <= backedUp[b][e] /\ backedUp[b][e] <= backedUp[LastBackup][e] + cuts[e]

\* Where an element can be besides the stacks; "none": not accepted.
Spots == {"queue", "out", "chan", "drain", "backed", "none"}
Spotted ==
    [p \in Spots |->
        IF p = "queue" THEN surgeQueue
        ELSE IF p = "out" THEN ElemsOf(out)
        ELSE IF p = "chan" THEN ElemsOf(inChan[TheWire])
        ELSE IF p = "drain" THEN {e \in Elements : drain[TheWire] = e}
        ELSE IF p = "backed" THEN {e \in Elements : Backups # <<>> /\ backedUp[LastBackup][e] = 1}
        ELSE {e \in Elements : spc[e] \in {"new", "err"}}]
Holding == [g \in Goroutines |-> Held(stack[g], ret[g], Own(g))]

\* Every element is in exactly one place.
Parted(F, H) ==
    \A e \in Elements :
        /\ (\E p \in Spots : e \in F[p]) \/ (\E g \in Goroutines : e \in H[g])
        /\ \A p, q \in Spots : e \in F[p] /\ e \in F[q] => p = q
        /\ \A g, h \in Goroutines : e \in H[g] /\ e \in H[h] => g = h
        /\ \A p \in Spots, g \in Goroutines : ~(e \in F[p] /\ e \in H[g])

SurgeInv ==
    /\ SurgeTypeOK /\ StacksInv /\ ChannelsInv /\ BackupsInv
    /\ Parted(Spotted, Holding)

\* The three ways a stack changes.
Replaced(s, t, f) == /\ t \in Seq(FrameSet) /\ Len(t) = Len(s) /\ Len(s) > 0
                     /\ t[Len(t)] = f /\ \A i \in 1..(Len(s) - 1) : t[i] = s[i]
Pushed(s, t, f) == /\ t \in Seq(FrameSet) /\ Len(t) = Len(s) + 1
                   /\ t[Len(t)] = f /\ \A i \in 1..Len(s) : t[i] = s[i]
Popped(s, t) == /\ t \in Seq(FrameSet) /\ Len(s) > 0 /\ Len(t) = Len(s) - 1
                /\ \A i \in 1..Len(t) : t[i] = s[i]

LEMMA ReplacesTop ==
    ASSUME NEW s \in Seq(FrameSet), s # <<>>, NEW f \in FrameSet
    PROVE  Replaced(s, [s EXCEPT ![Len(s)] = f], f)
BY DEF Replaced

LEMMA PushesTwo ==
    ASSUME NEW s \in Seq(FrameSet), s # <<>>, NEW f \in FrameSet, NEW h \in FrameSet
    PROVE  Pushed([s EXCEPT ![Len(s)] = f], Append(SubSeq(s, 1, Len(s) - 1), f) \o <<h>>, h)
<1> DEFINE n == Len(s)
           u == SubSeq(s, 1, n - 1)
           v == Append(u, f)
           t == v \o <<h>>
<1>1. n \in Nat /\ n > 0 /\ \A i \in 1..n : s[i] \in FrameSet
  BY ElementOfSeq
<1>2. u \in Seq(FrameSet) /\ Len(u) = n - 1 /\ \A i \in 1..(n - 1) : u[i] = s[i]
  <2>1. \A i \in 1..(n - 1) : s[i] \in FrameSet
    BY <1>1
  <2> HIDE DEF n
  <2> QED BY <1>1, <2>1, SubSeqProperties
<1>3. v \in Seq(FrameSet) /\ Len(v) = n /\ v[n] = f /\ \A i \in 1..(n - 1) : v[i] = s[i]
  <2> HIDE DEF n, u
  <2> QED BY <1>1, <1>2, AppendProperties
<1>4. <<h>> \in Seq(FrameSet) /\ Len(<<h>>) = 1 /\ <<h>>[1] = h
  OBVIOUS
<1>5. t \in Seq(FrameSet) /\ Len(t) = n + 1 /\ t[n + 1] = h /\ \A i \in 1..n : t[i] = v[i]
  <2> HIDE DEF n, u, v
  <2> QED BY <1>1, <1>3, <1>4, ConcatProperties
<1>6. LET w == [s EXCEPT ![n] = f] IN Len(w) = n /\ w[n] = f /\ \A i \in 1..(n - 1) : w[i] = s[i]
  BY <1>1
<1> HIDE DEF u, v
<1> QED BY <1>1, <1>3, <1>5, <1>6 DEF Pushed

LEMMA PopsTop ==
    ASSUME NEW s \in Seq(FrameSet), s # <<>>
    PROVE  Popped(s, Front(s))
<1> DEFINE n == Len(s)
<1>1. n \in Nat /\ n > 0 /\ \A i \in 1..(n - 1) : s[i] \in FrameSet
  BY ElementOfSeq
<1>2. Front(s) = SubSeq(s, 1, n - 1)
  BY DEF Front
<1>3. Front(s) \in Seq(FrameSet) /\ Len(Front(s)) = n - 1 /\ \A i \in 1..(n - 1) : Front(s)[i] = s[i]
  <2> HIDE DEF n
  <2> QED BY <1>1, <1>2, SubSeqProperties
<1> QED BY <1>1, <1>3 DEF Popped

\* What is kept below the innermost frame.
KeptBelow(s) == {e \in Elements : \E i \in 1..(Len(s) - 1) : s[i].at = "popped" /\ s[i].elem = e}

LEMMA KeptTop ==
    ASSUME NEW s \in Seq(FrameSet), s # <<>>
    PROVE  Kept(s) = KeptBelow(s) \cup (IF s[Len(s)].at = "popped" THEN {s[Len(s)].elem} ELSE {})
<1>1. Len(s) \in Nat /\ Len(s) > 0 /\ s[Len(s)] \in FrameSet
  BY ElementOfSeq
<1>2. s[Len(s)].elem \in Elements
  BY <1>1 DEF FrameSet
<1> QED BY <1>1, <1>2 DEF Kept, KeptBelow

LEMMA KeptReplaced ==
    ASSUME NEW s \in Seq(FrameSet), NEW t, NEW f, Replaced(s, t, f)
    PROVE  KeptBelow(t) = KeptBelow(s)
BY DEF Replaced, KeptBelow

LEMMA KeptPushed ==
    ASSUME NEW s \in Seq(FrameSet), NEW t, NEW f, Pushed(s, t, f)
    PROVE  KeptBelow(t) = Kept(s)
BY DEF Pushed, KeptBelow, Kept

LEMMA KeptPopped ==
    ASSUME NEW s \in Seq(FrameSet), NEW t, Popped(s, t)
    PROVE  Kept(t) = KeptBelow(s)
BY DEF Popped, KeptBelow, Kept

\* A stack stays one of calls when the innermost frame keeps its function and element,
LEMMA CalledReplaced ==
    ASSUME NEW own, NEW s, NEW t, NEW f \in FrameSet, Called(s, own), Replaced(s, t, f),
           Proper(f), f.fn = s[Len(s)].fn, f.elem = s[Len(s)].elem
    PROVE  Called(t, own)
<1>1. /\ s \in Seq(FrameSet) /\ t \in Seq(FrameSet) /\ Len(s) \in Nat /\ Len(s) > 0 /\ Len(t) = Len(s)
      /\ s # <<>> /\ t # <<>>
  BY DEF Called, Replaced
<1>2. \A i \in 1..Len(t) : Proper(t[i])
  BY <1>1 DEF Called, Replaced
<1>3. \A i \in 1..Len(t) : t[i].fn = s[i].fn /\ t[i].elem = s[i].elem
  BY <1>1 DEF Replaced
<1>4. \A i \in 1..(Len(t) - 1) : Awaits(t[i]) /\ t[i + 1].fn # t[i].fn /\ t[i + 1].elem = Handed(t[i])
  <2> TAKE i \in 1..(Len(t) - 1)
  <2>1. i \in 1..(Len(s) - 1) /\ i + 1 \in 1..Len(t) /\ t[i] = s[i]
    BY <1>1 DEF Replaced
  <2>2. t[i + 1].fn = s[i + 1].fn /\ t[i + 1].elem = s[i + 1].elem
    BY <1>3, <2>1
  <2> QED BY <2>1, <2>2 DEF Called
<1>5. t[1].fn = "wire" /\ own = {t[1].elem}
  <2>1. 1 \in 1..Len(t)
    BY <1>1
  <2> QED BY <1>1, <1>3, <2>1 DEF Called
<1> QED BY <1>1, <1>2, <1>4, <1>5 DEF Called

\* when a frame that awaits it has called the new one,
LEMMA CalledPushed ==
    ASSUME NEW own, NEW s, NEW t, NEW f \in FrameSet, Called(s, own), s # <<>>, Pushed(s, t, f),
           Proper(f), Awaits(s[Len(s)]), f.fn # s[Len(s)].fn, f.elem = Handed(s[Len(s)])
    PROVE  Called(t, own)
<1>1. /\ s \in Seq(FrameSet) /\ t \in Seq(FrameSet) /\ Len(s) \in Nat /\ Len(s) > 0
      /\ Len(t) = Len(s) + 1 /\ t # <<>>
  BY DEF Called, Pushed
<1>2. \A i \in 1..Len(t) : Proper(t[i])
  BY <1>1 DEF Called, Pushed
<1>3. \A i \in 1..(Len(t) - 1) : Awaits(t[i]) /\ t[i + 1].fn # t[i].fn /\ t[i + 1].elem = Handed(t[i])
  <2> TAKE i \in 1..(Len(t) - 1)
  <2>1. CASE i = Len(s)
    <3>1. t[i] = s[i] /\ t[i + 1] = f
      BY <1>1, <2>1 DEF Pushed
    <3> QED BY <2>1, <3>1
  <2>2. CASE i # Len(s)
    <3>1. i \in 1..(Len(s) - 1) /\ t[i] = s[i] /\ t[i + 1] = s[i + 1]
      BY <1>1, <2>2 DEF Pushed
    <3> QED BY <3>1 DEF Called
  <2> QED BY <2>1, <2>2
<1>4. t[1] = s[1]
  BY <1>1 DEF Pushed
<1> QED BY <1>1, <1>2, <1>3, <1>4 DEF Called

\* and when the innermost returns: then the one below awaits the result.
LEMMA CalledPopped ==
    ASSUME NEW own, NEW s, NEW t, Called(s, own), Popped(s, t)
    PROVE  /\ Called(t, own)
           /\ t # <<>> => /\ Awaits(t[Len(t)]) /\ s[Len(s)].elem = Handed(t[Len(t)])
                          /\ s[Len(s)].fn # t[Len(t)].fn
           /\ t = <<>> => s[Len(s)].fn = "wire" /\ own = {s[Len(s)].elem} /\ s[Len(s)].elem \in Elements
<1>1. /\ s \in Seq(FrameSet) /\ t \in Seq(FrameSet) /\ Len(s) \in Nat /\ Len(s) > 0
      /\ Len(t) = Len(s) - 1 /\ s # <<>> /\ Len(t) \in Nat
  BY DEF Called, Popped
<1>2. \A i \in 1..Len(t) : t[i] = s[i] /\ i \in 1..Len(s)
  BY <1>1 DEF Popped
<1>3. \A i \in 1..Len(t) : Proper(t[i])
  BY <1>2 DEF Called
<1>4. \A i \in 1..(Len(t) - 1) : Awaits(t[i]) /\ t[i + 1].fn # t[i].fn /\ t[i + 1].elem = Handed(t[i])
  <2> TAKE i \in 1..(Len(t) - 1)
  <2>1. i \in 1..(Len(s) - 1) /\ i \in 1..Len(t) /\ i + 1 \in 1..Len(t)
    BY <1>1
  <2>2. t[i] = s[i] /\ t[i + 1] = s[i + 1]
    BY <1>2, <2>1
  <2> QED BY <2>1, <2>2 DEF Called
<1>5. t # <<>> => t[1] = s[1]
  BY <1>1, <1>2
<1>6. Called(t, own)
  BY <1>1, <1>3, <1>4, <1>5 DEF Called
<1>7. ASSUME t # <<>> PROVE /\ Awaits(t[Len(t)]) /\ s[Len(s)].elem = Handed(t[Len(t)])
                            /\ s[Len(s)].fn # t[Len(t)].fn
  <2>1. Len(t) \in 1..(Len(s) - 1) /\ Len(t) \in 1..Len(t) /\ Len(t) + 1 = Len(s)
    BY <1>1, <1>7
  <2>2. t[Len(t)] = s[Len(t)]
    BY <1>2, <2>1
  <2>3. s[Len(t) + 1] = s[Len(s)]
    BY <2>1
  <2>4. /\ Awaits(s[Len(t)]) /\ s[Len(t) + 1].fn # s[Len(t)].fn
        /\ s[Len(t) + 1].elem = Handed(s[Len(t)])
    BY <2>1 DEF Called
  <2> QED BY <2>2, <2>3, <2>4
<1>8. ASSUME t = <<>> PROVE s[Len(s)].fn = "wire" /\ own = {s[Len(s)].elem} /\ s[Len(s)].elem \in Elements
  <2>1. Len(s) = 1
    BY <1>1, <1>8
  <2>2. s[1] \in FrameSet
    BY <1>1, <2>1, ElementOfSeq
  <2> QED BY <1>1, <2>1, <2>2 DEF Called, FrameSet
<1> QED BY <1>6, <1>7, <1>8

\* What the innermost frame adds to what is kept below it.
HeldTop(f, r) ==
    (IF f.at = "popped" THEN {f.elem} ELSE {}) \cup (IF r # "nil" /\ f.next = 1 THEN {Handed(f)} ELSE {})
Separate(f, r) == f.at = "popped" /\ r # "nil" /\ f.next = 1 => f.item # f.elem

LEMMA HeldSplits ==
    ASSUME NEW s, NEW r, NEW own, GoodStack(s, r, own), s # <<>>
    PROVE  /\ s[Len(s)] \in FrameSet /\ Len(s) \in Nat /\ Len(s) > 0
           /\ Proper(s[Len(s)])
           /\ Held(s, r, own) = KeptBelow(s) \cup HeldTop(s[Len(s)], r)
           /\ KeptBelow(s) \cap HeldTop(s[Len(s)], r) = {}
           /\ Separate(s[Len(s)], r)
<1> DEFINE f == s[Len(s)]
<1>1. /\ s \in Seq(FrameSet) /\ Len(s) \in Nat /\ Len(s) > 0 /\ Len(s) \in 1..Len(s)
      /\ f \in FrameSet /\ Proper(f)
  BY ElementOfSeq DEF GoodStack, Called
<1>2. Kept(s) = KeptBelow(s) \cup (IF f.at = "popped" THEN {f.elem} ELSE {})
  BY <1>1, KeptTop
<1>3. Live(s, r, own) = IF r # "nil" /\ f.next = 1 THEN {Handed(f)} ELSE {}
  BY DEF Live
<1>4. Kept(s) \cap Live(s, r, own) = {}
  BY DEF GoodStack, KeptOnce
<1>5. f.at = "popped" => f.elem \notin KeptBelow(s)
  <2> SUFFICES ASSUME f.at = "popped", NEW i \in 1..(Len(s) - 1), s[i].at = "popped", s[i].elem = f.elem
               PROVE FALSE
    BY DEF KeptBelow
  <2>1. i \in 1..Len(s) /\ i # Len(s)
    BY <1>1
  <2> QED BY <1>1, <2>1 DEF GoodStack, KeptOnce
<1>6. KeptBelow(s) \cap HeldTop(f, r) = {}
  BY <1>2, <1>3, <1>4, <1>5 DEF HeldTop
<1>7. Separate(f, r)
  BY <1>2, <1>3, <1>4 DEF Separate, Handed
<1>8. Held(s, r, own) = KeptBelow(s) \cup HeldTop(f, r)
  BY <1>2, <1>3 DEF Held, HeldTop
<1> QED BY <1>1, <1>6, <1>7, <1>8

LEMMA GoodJoins ==
    ASSUME NEW s, NEW r, NEW own, Called(s, own), s # <<>>, r # "none" => Awaits(s[Len(s)]),
           \A i, j \in 1..(Len(s) - 1) :
               s[i].at = "popped" /\ s[j].at = "popped" /\ s[i].elem = s[j].elem => i = j,
           KeptBelow(s) \cap HeldTop(s[Len(s)], r) = {}, Separate(s[Len(s)], r)
    PROVE  GoodStack(s, r, own) /\ Held(s, r, own) = KeptBelow(s) \cup HeldTop(s[Len(s)], r)
<1> DEFINE f == s[Len(s)]
<1>1. s \in Seq(FrameSet) /\ Len(s) \in Nat /\ Len(s) > 0 /\ f \in FrameSet
  BY ElementOfSeq DEF Called
<1>2. Kept(s) = KeptBelow(s) \cup (IF f.at = "popped" THEN {f.elem} ELSE {})
  BY <1>1, KeptTop
<1>3. Live(s, r, own) = IF r # "nil" /\ f.next = 1 THEN {Handed(f)} ELSE {}
  BY DEF Live
<1>4. Held(s, r, own) = KeptBelow(s) \cup HeldTop(f, r)
  BY <1>2, <1>3 DEF Held, HeldTop
<1>5. Kept(s) \cap Live(s, r, own) = {}
  <2>1. KeptBelow(s) \cap Live(s, r, own) = {}
    BY <1>3 DEF HeldTop
  <2>2. ASSUME f.at = "popped" PROVE f.elem \notin Live(s, r, own)
    BY <1>3, <2>2 DEF Separate, Handed
  <2> QED BY <1>2, <2>1, <2>2
<1>6. ASSUME NEW i \in 1..Len(s), NEW j \in 1..Len(s),
             s[i].at = "popped", s[j].at = "popped", s[i].elem = s[j].elem
      PROVE i = j
  <2>1. \A k \in 1..Len(s) : k # Len(s) => k \in 1..(Len(s) - 1)
    BY <1>1
  <2>2. f.at = "popped" => f.elem \notin KeptBelow(s)
    BY DEF HeldTop
  <2>3. \A k \in 1..Len(s) : k # Len(s) /\ s[k].at = "popped" => s[k].elem \in KeptBelow(s)
    <3> TAKE k \in 1..Len(s)
    <3>1. s[k] \in FrameSet
      BY <1>1, ElementOfSeq
    <3> QED BY <2>1, <3>1 DEF KeptBelow, FrameSet
  <2> QED BY <1>6, <2>1, <2>2, <2>3
<1>7. KeptOnce(s, r, own)
  BY <1>5, <1>6 DEF KeptOnce
<1>8. Answered(s, r, own)
  BY DEF Answered
<1> QED BY <1>4, <1>7, <1>8 DEF GoodStack

LEMMA GoodReplaced ==
    ASSUME NEW s, NEW t, NEW r, NEW own, NEW f \in FrameSet, GoodStack(s, r, own), Replaced(s, t, f),
           Proper(f), f.fn = s[Len(s)].fn, f.elem = s[Len(s)].elem,
           KeptBelow(s) \cap HeldTop(f, "none") = {}, Separate(f, "none")
    PROVE  GoodStack(t, "none", own) /\ Held(t, "none", own) = KeptBelow(s) \cup HeldTop(f, "none")
<1>1. /\ s \in Seq(FrameSet) /\ t \in Seq(FrameSet) /\ Len(s) \in Nat /\ Len(s) > 0 /\ Len(t) = Len(s)
      /\ t # <<>> /\ t[Len(t)] = f /\ Called(s, own)
  BY DEF GoodStack, Called, Replaced
<1>2. Called(t, own)
  BY <1>1, CalledReplaced
<1>3. KeptBelow(t) = KeptBelow(s)
  BY <1>1, KeptReplaced
<1>4. \A i, j \in 1..(Len(t) - 1) :
          t[i].at = "popped" /\ t[j].at = "popped" /\ t[i].elem = t[j].elem => i = j
  <2> TAKE i, j \in 1..(Len(t) - 1)
  <2>1. i \in 1..Len(s) /\ j \in 1..Len(s) /\ t[i] = s[i] /\ t[j] = s[j]
    BY <1>1 DEF Replaced
  <2> QED BY <2>1 DEF GoodStack, KeptOnce
<1> QED BY <1>1, <1>2, <1>3, <1>4, GoodJoins

LEMMA GoodPushed ==
    ASSUME NEW s, NEW t, NEW own, NEW h \in FrameSet, GoodStack(s, "none", own), s # <<>>,
           Pushed(s, t, h), Proper(h), Awaits(s[Len(s)]), h.fn # s[Len(s)].fn,
           h.elem = Handed(s[Len(s)]), h.at = "enter", h.next = 1
    PROVE  GoodStack(t, "none", own) /\ Held(t, "none", own) = Held(s, "none", own)
<1>1. /\ s \in Seq(FrameSet) /\ t \in Seq(FrameSet) /\ Len(s) \in Nat /\ Len(s) > 0 /\ Len(t) = Len(s) + 1
      /\ t # <<>> /\ t[Len(t)] = h /\ Called(s, own)
  BY DEF GoodStack, Called, Pushed
<1>2. Called(t, own)
  BY <1>1, CalledPushed
<1>3. KeptBelow(t) = Kept(s)
  BY <1>1, KeptPushed
<1>4. \A i, j \in 1..(Len(t) - 1) :
          t[i].at = "popped" /\ t[j].at = "popped" /\ t[i].elem = t[j].elem => i = j
  <2> TAKE i, j \in 1..(Len(t) - 1)
  <2>1. i \in 1..Len(s) /\ j \in 1..Len(s) /\ t[i] = s[i] /\ t[j] = s[j]
    BY <1>1 DEF Pushed
  <2> QED BY <2>1 DEF GoodStack, KeptOnce
<1>5. Live(s, "none", own) = {h.elem}
  BY DEF Live, Awaits
<1>6. HeldTop(h, "none") = {h.elem} /\ Separate(h, "none")
  BY DEF HeldTop, Separate, Handed
<1>7. Kept(s) \cap {h.elem} = {}
  BY <1>5 DEF GoodStack, KeptOnce
<1>8. GoodStack(t, "none", own) /\ Held(t, "none", own) = KeptBelow(t) \cup HeldTop(h, "none")
  BY <1>1, <1>2, <1>3, <1>4, <1>6, <1>7, GoodJoins
<1> QED BY <1>3, <1>5, <1>6, <1>8 DEF Held

\* A frame that returns an error gives its element back.
LEMMA GoodPopped ==
    ASSUME NEW s, NEW t, NEW r, NEW own, NEW q \in {"nil", "err"}, GoodStack(s, r, own), Popped(s, t),
           q = "err" => s[Len(s)].elem \in HeldTop(s[Len(s)], r)
    PROVE  /\ GoodStack(t, q, own)
           /\ Held(t, q, own) = KeptBelow(s) \cup (IF q = "err" THEN {s[Len(s)].elem} ELSE {})
<1> DEFINE f == s[Len(s)]
           back == IF q = "err" THEN {f.elem} ELSE {}
<1>1. /\ s \in Seq(FrameSet) /\ t \in Seq(FrameSet) /\ Len(s) \in Nat /\ Len(s) > 0 /\ s # <<>>
      /\ Len(t) = Len(s) - 1 /\ Len(t) \in Nat /\ Called(s, own)
  BY DEF GoodStack, Called, Popped
<1>2. /\ Called(t, own)
      /\ t # <<>> => Awaits(t[Len(t)]) /\ f.elem = Handed(t[Len(t)])
      /\ t = <<>> => own = {f.elem} /\ f.elem \in Elements
  BY <1>1, CalledPopped
<1>3. Kept(t) = KeptBelow(s)
  BY <1>1, KeptPopped
<1>4. Live(t, q, own) = back
  <2>1. CASE t = <<>>
    BY <1>2, <2>1 DEF Live
  <2>2. CASE t # <<>>
    BY <1>2, <2>2 DEF Live, Awaits
  <2> QED BY <2>1, <2>2
<1>5. KeptBelow(s) \cap back = {}
  BY <1>1, HeldSplits
<1>6. Answered(t, q, own)
  BY <1>2 DEF Answered
<1>7. \A i, j \in 1..Len(t) :
          t[i].at = "popped" /\ t[j].at = "popped" /\ t[i].elem = t[j].elem => i = j
  <2> TAKE i, j \in 1..Len(t)
  <2>1. i \in 1..Len(s) /\ j \in 1..Len(s) /\ t[i] = s[i] /\ t[j] = s[j]
    BY <1>1 DEF Popped
  <2> QED BY <2>1 DEF GoodStack, KeptOnce
<1>8. KeptOnce(t, q, own)
  BY <1>3, <1>4, <1>5, <1>7 DEF KeptOnce
<1> QED BY <1>2, <1>3, <1>4, <1>6, <1>8 DEF GoodStack, Held

\* An element that goes from one place to another leaves every element in one place.
LEMMA PartedSame ==
    ASSUME NEW F, NEW G, NEW H, NEW K, Parted(F, H),
           \A p \in Spots : G[p] = F[p], \A g \in Goroutines : K[g] = H[g]
    PROVE  Parted(G, K)
BY DEF Parted

LEMMA PartedMoves ==
    ASSUME NEW F, NEW G, NEW H, NEW K, Parted(F, H), NEW p \in Spots, NEW q \in Spots, p # q,
           NEW x \in F[p], G[p] = F[p] \ {x}, G[q] = F[q] \cup {x},
           \A r \in Spots : r \notin {p, q} => G[r] = F[r], \A g \in Goroutines : K[g] = H[g]
    PROVE  Parted(G, K)
<1> SUFFICES ASSUME NEW e \in Elements
             PROVE  /\ (\E r \in Spots : e \in G[r]) \/ (\E g \in Goroutines : e \in K[g])
                    /\ \A r, t \in Spots : e \in G[r] /\ e \in G[t] => r = t
                    /\ \A g, h \in Goroutines : e \in K[g] /\ e \in K[h] => g = h
                    /\ \A r \in Spots, g \in Goroutines : ~(e \in G[r] /\ e \in K[g])
  BY DEF Parted
<1>1. CASE e = x
  <2>1. \A r \in Spots : e \in G[r] <=> r = q
    BY <1>1 DEF Parted
  <2>2. \A g \in Goroutines : e \notin K[g]
    BY <1>1 DEF Parted
  <2> QED BY <2>1, <2>2
<1>2. CASE e # x
  <2>1. \A r \in Spots : e \in G[r] <=> e \in F[r]
    BY <1>2
  <2> QED BY <2>1 DEF Parted
<1> QED BY <1>1, <1>2

LEMMA PartedGives ==
    ASSUME NEW F, NEW G, NEW H, NEW K, Parted(F, H), NEW q \in Spots, NEW g \in Goroutines,
           NEW x \in H[g], K[g] = H[g] \ {x}, G[q] = F[q] \cup {x},
           \A r \in Spots : r # q => G[r] = F[r], \A h \in Goroutines : h # g => K[h] = H[h]
    PROVE  Parted(G, K)
<1> SUFFICES ASSUME NEW e \in Elements
             PROVE  /\ (\E r \in Spots : e \in G[r]) \/ (\E h \in Goroutines : e \in K[h])
                    /\ \A r, t \in Spots : e \in G[r] /\ e \in G[t] => r = t
                    /\ \A h, k \in Goroutines : e \in K[h] /\ e \in K[k] => h = k
                    /\ \A r \in Spots, h \in Goroutines : ~(e \in G[r] /\ e \in K[h])
  BY DEF Parted
<1>1. CASE e = x
  <2>1. \A r \in Spots : e \in G[r] <=> r = q
    BY <1>1 DEF Parted
  <2>2. \A h \in Goroutines : e \notin K[h]
    BY <1>1 DEF Parted
  <2> QED BY <2>1, <2>2
<1>2. CASE e # x
  <2>1. \A r \in Spots : e \in G[r] <=> e \in F[r]
    BY <1>2
  <2>2. \A h \in Goroutines : e \in K[h] <=> e \in H[h]
    BY <1>2
  <2> QED BY <2>1, <2>2 DEF Parted
<1> QED BY <1>1, <1>2

LEMMA PartedTakes ==
    ASSUME NEW F, NEW G, NEW H, NEW K, Parted(F, H), NEW p \in Spots, NEW g \in Goroutines,
           NEW x \in F[p], G[p] = F[p] \ {x}, K[g] = H[g] \cup {x},
           \A r \in Spots : r # p => G[r] = F[r], \A h \in Goroutines : h # g => K[h] = H[h]
    PROVE  Parted(G, K)
<1> SUFFICES ASSUME NEW e \in Elements
             PROVE  /\ (\E r \in Spots : e \in G[r]) \/ (\E h \in Goroutines : e \in K[h])
                    /\ \A r, t \in Spots : e \in G[r] /\ e \in G[t] => r = t
                    /\ \A h, k \in Goroutines : e \in K[h] /\ e \in K[k] => h = k
                    /\ \A r \in Spots, h \in Goroutines : ~(e \in G[r] /\ e \in K[h])
  BY DEF Parted
<1>1. CASE e = x
  <2>1. \A r \in Spots : e \notin G[r]
    BY <1>1 DEF Parted
  <2>2. \A h \in Goroutines : e \in K[h] <=> h = g
    BY <1>1 DEF Parted
  <2> QED BY <2>1, <2>2
<1>2. CASE e # x
  <2>1. \A r \in Spots : e \in G[r] <=> e \in F[r]
    BY <1>2
  <2>2. \A h \in Goroutines : e \in K[h] <=> e \in H[h]
    BY <1>2
  <2> QED BY <2>1, <2>2 DEF Parted
<1> QED BY <1>1, <1>2

\* The elements in a channel that gets one more, and in one that loses its first.
LEMMA ElemsAppend ==
    ASSUME NEW s \in Seq(ItemSet), NEW x \in ItemSet, EachOnce(s), x.elem \notin ElemsOf(s)
    PROVE  /\ Append(s, x) \in Seq(ItemSet)
           /\ ElemsOf(Append(s, x)) = ElemsOf(s) \cup {x.elem}
           /\ EachOnce(Append(s, x))
<1>1. x.elem \in Elements /\ \A i \in 1..Len(s) : s[i].elem \in Elements
  <2>1. \A i \in 1..Len(s) : s[i] \in ItemSet
    BY ElementOfSeq
  <2> QED BY <2>1 DEF ItemSet
<1>2. /\ Append(s, x) \in Seq(ItemSet) /\ Len(Append(s, x)) = Len(s) + 1 /\ Len(s) \in Nat
      /\ \A i \in 1..Len(s) : Append(s, x)[i] = s[i]
      /\ Append(s, x)[Len(s) + 1] = x
  BY AppendProperties
<1>3. \A i \in 1..(Len(s) + 1) : i \in 1..Len(s) \/ i = Len(s) + 1
  BY <1>2
<1>4. \A i \in 1..Len(s) : s[i].elem # x.elem
  BY <1>1 DEF ElemsOf
<1>5. EachOnce(Append(s, x))
  BY <1>2, <1>3, <1>4 DEF EachOnce
<1>6. ElemsOf(Append(s, x)) = ElemsOf(s) \cup {x.elem}
  BY <1>1, <1>2, <1>3 DEF ElemsOf
<1> QED BY <1>2, <1>5, <1>6

LEMMA ElemsTail ==
    ASSUME NEW s \in Seq(ItemSet), s # <<>>, EachOnce(s)
    PROVE  /\ Head(s) \in ItemSet /\ Head(s).elem \in ElemsOf(s)
           /\ Tail(s) \in Seq(ItemSet) /\ Len(Tail(s)) <= Len(s)
           /\ ElemsOf(Tail(s)) = ElemsOf(s) \ {Head(s).elem}
           /\ EachOnce(Tail(s))
<1>1. /\ Head(s) \in ItemSet /\ Head(s) = s[1] /\ Tail(s) \in Seq(ItemSet)
      /\ Len(s) \in Nat /\ Len(s) > 0 /\ Len(Tail(s)) = Len(s) - 1
      /\ \A i \in 1..(Len(s) - 1) : Tail(s)[i] = s[i + 1]
  BY HeadTailProperties
<1>2. Head(s).elem \in ElemsOf(s)
  BY <1>1 DEF ElemsOf, ItemSet
<1>3. EachOnce(Tail(s))
  <2> SUFFICES ASSUME NEW i \in 1..(Len(s) - 1), NEW j \in 1..(Len(s) - 1), s[i + 1].elem = s[j + 1].elem
               PROVE i = j
    BY <1>1 DEF EachOnce
  <2>1. i + 1 \in 1..Len(s) /\ j + 1 \in 1..Len(s)
    BY <1>1
  <2>2. i + 1 = j + 1
    BY <2>1 DEF EachOnce
  <2> QED BY <2>2
<1>4. ASSUME NEW e \in Elements PROVE e \in ElemsOf(Tail(s)) <=> e \in ElemsOf(s) /\ e # Head(s).elem
  <2>1. ASSUME e \in ElemsOf(Tail(s)) PROVE e \in ElemsOf(s) /\ e # Head(s).elem
    <3>1. PICK i \in 1..(Len(s) - 1) : s[i + 1].elem = e
      BY <1>1, <2>1 DEF ElemsOf
    <3>2. i + 1 \in 1..Len(s) /\ i + 1 # 1 /\ 1 \in 1..Len(s)
      BY <1>1
    <3>3. s[1].elem # e
      BY <3>1, <3>2 DEF EachOnce
    <3> QED BY <1>1, <3>1, <3>2, <3>3 DEF ElemsOf
  <2>2. ASSUME e \in ElemsOf(s), e # Head(s).elem PROVE e \in ElemsOf(Tail(s))
    <3>1. PICK i \in 1..Len(s) : s[i].elem = e
      BY <2>2 DEF ElemsOf
    <3>2. i - 1 \in 1..(Len(s) - 1) /\ (i - 1) + 1 = i
      BY <1>1, <2>2, <3>1
    <3>3. Tail(s)[i - 1] = s[i]
      BY <1>1, <3>2
    <3> QED BY <1>1, <3>1, <3>2, <3>3 DEF ElemsOf
  <2> QED BY <2>1, <2>2
<1>5. ElemsOf(Tail(s)) = ElemsOf(s) \ {Head(s).elem}
  BY <1>4 DEF ElemsOf
<1> QED BY <1>1, <1>2, <1>3, <1>5

LEMMA TryTakeTyped ==
    ASSUME NEW answer \in BOOLEAN, surgeTokens \in 0..Capacity, due \in BOOLEAN, TryTake(answer)
    PROVE  surgeTokens' \in 0..Capacity /\ due' \in BOOLEAN
<1> DEFINE full == IF due THEN Capacity ELSE surgeTokens
<1>1. CASE ~RateLimited
  BY <1>1 DEF TryTake, limiter
<1>2. CASE RateLimited
  <2>1. full \in 0..Capacity /\ Capacity \in Nat
    BY ShapeAssumption
  <2>2. (answer <=> full > 0) /\ surgeTokens' = (IF answer THEN full - 1 ELSE full) /\ due' = FALSE
    BY <1>2, Zenon DEF TryTake
  <2> HIDE DEF full
  <2>3. CASE answer
    <3>1. full > 0 /\ surgeTokens' = full - 1
      BY <2>2, <2>3, Zenon
    <3>2. surgeTokens' \in 0..Capacity
      BY <2>1, <3>1
    <3> QED BY <2>2, <3>2, Zenon
  <2>4. CASE ~answer
    <3>1. surgeTokens' = full
      BY <2>2, <2>4, Zenon
    <3>2. surgeTokens' \in 0..Capacity
      BY <2>1, <3>1
    <3> QED BY <2>2, <3>2, Zenon
  <2> QED BY <2>3, <2>4
<1> QED BY <1>1, <1>2

LEMMA OneComponent ==
    ASSUME Len(Components) = 1
    PROVE  Wires = {TheWire} /\ Components[1] = TheWire /\ Position(TheWire) = 1
<1>1. DOMAIN Components = {1}
  BY ShapeAssumption
<1>2. Wires = {TheWire}
  BY <1>1 DEF Wires, TheWire, ToSet
<1>3. Position(TheWire) = 1
  BY <1>1 DEF Position, TheWire
<1> QED BY <1>2, <1>3 DEF TheWire

\* What a step of goroutine g on its stack does to what the goroutines hold.
LEMMA OwnStep ==
    ASSUME StacksInv, NEW g \in Goroutines,
           DOMAIN stack' = Goroutines, GoodStack(stack'[g], ret'[g], Own(g)'),
           \A h \in Goroutines : h # g => stack'[h] = stack[h] /\ ret'[h] = ret[h] /\ Own(h)' = Own(h)
    PROVE  /\ StacksInv'
           /\ Holding'[g] = Held(stack'[g], ret'[g], Own(g)')
           /\ \A h \in Goroutines : h # g => Holding'[h] = Holding[h]
<1>1. \A h \in Goroutines : /\ Holding'[h] = Held(stack'[h], ret'[h], Own(h)')
                            /\ Holding[h] = Held(stack[h], ret[h], Own(h))
  BY DEF Holding
<1>2. ASSUME NEW h \in Goroutines PROVE GoodStack(stack'[h], ret'[h], Own(h)')
  <2>1. CASE h = g
    BY <2>1
  <2>2. CASE h # g
    <3>1. GoodStack(stack[h], ret[h], Own(h))
      BY DEF StacksInv
    <3>2. stack'[h] = stack[h] /\ ret'[h] = ret[h] /\ Own(h)' = Own(h)
      BY <2>2
    <3> QED BY <3>1, <3>2
  <2> QED BY <2>1, <2>2
<1>3. StacksInv'
  BY <1>2 DEF StacksInv
<1>4. \A h \in Goroutines : h # g => Holding'[h] = Holding[h]
  BY <1>1
<1> QED BY <1>1, <1>3, <1>4

LEMMA StacksStep ==
    ASSUME StacksInv, NEW g \in Goroutines, UNCHANGED spc,
           DOMAIN stack' = Goroutines, GoodStack(stack'[g], ret'[g], Own(g)),
           \A h \in Goroutines : h # g => stack'[h] = stack[h] /\ ret'[h] = ret[h]
    PROVE  /\ StacksInv'
           /\ Holding'[g] = Held(stack'[g], ret'[g], Own(g))
           /\ \A h \in Goroutines : h # g => Holding'[h] = Holding[h]
<1>1. \A h \in Goroutines : Own(h)' = Own(h)
  BY DEF Own
<1>2. GoodStack(stack'[g], ret'[g], Own(g)')
  BY <1>1
<1>3. /\ StacksInv'
      /\ Holding'[g] = Held(stack'[g], ret'[g], Own(g)')
      /\ \A h \in Goroutines : h # g => Holding'[h] = Holding[h]
  BY <1>1, <1>2, OwnStep
<1> QED BY <1>1, <1>3

LEMMA StacksSame ==
    ASSUME StacksInv, UNCHANGED <<stack, ret, spc>>
    PROVE  StacksInv' /\ \A h \in Goroutines : Holding'[h] = Holding[h]
<1>1. \A h \in Goroutines : Own(h)' = Own(h)
  BY DEF Own
<1>2. StacksInv'
  BY <1>1 DEF StacksInv
<1> QED BY <1>1, <1>2 DEF Holding

RetSet == {"none", "nil", "err"}

\* The innermost frame goes on, and holds nothing that is kept below it.
LEMMA FrameGoes ==
    ASSUME StacksInv, NEW g \in Goroutines, stack[g] # <<>>, UNCHANGED spc, ret \in [Goroutines -> RetSet],
           NEW f \in FrameSet, SetTop(g, f), ret' = [ret EXCEPT ![g] = "none"],
           Proper(f), f.fn = Top(g).fn, f.elem = Top(g).elem, Separate(f, "none"),
           KeptBelow(stack[g]) \cap HeldTop(f, "none") = {}
    PROVE  /\ StacksInv'
           /\ Holding'[g] = KeptBelow(stack[g]) \cup HeldTop(f, "none")
           /\ \A h \in Goroutines : h # g => Holding'[h] = Holding[h]
<1> DEFINE s == stack[g]
           t == [s EXCEPT ![Len(s)] = f]
           own == Own(g)
<1>1. GoodStack(s, ret[g], own) /\ DOMAIN stack = Goroutines
  BY DEF StacksInv
<1>2. s \in Seq(FrameSet)
  BY <1>1 DEF GoodStack, Called
<1>3. DOMAIN stack' = Goroutines /\ stack'[g] = t /\ \A h \in Goroutines : h # g => stack'[h] = stack[h]
  BY <1>1 DEF SetTop
<1>4. ret'[g] = "none" /\ \A h \in Goroutines : h # g => ret'[h] = ret[h]
  OBVIOUS
<1>5. Replaced(s, t, f)
  BY <1>2, ReplacesTop
<1>6. f.fn = s[Len(s)].fn /\ f.elem = s[Len(s)].elem
  BY DEF Top
<1>7. GoodStack(t, "none", own) /\ Held(t, "none", own) = KeptBelow(s) \cup HeldTop(f, "none")
  <2>1. KeptBelow(s) \cap HeldTop(f, "none") = {}
    OBVIOUS
  <2> HIDE DEF s, t, own
  <2> QED BY <1>1, <1>5, <1>6, <2>1, GoodReplaced
<1>8. /\ StacksInv'
      /\ Holding'[g] = Held(t, "none", own)
      /\ \A h \in Goroutines : h # g => Holding'[h] = Holding[h]
  <2>1. GoodStack(stack'[g], ret'[g], Own(g))
    BY <1>3, <1>4, <1>7
  <2>2. Held(stack'[g], ret'[g], Own(g)) = Held(t, "none", own)
    BY <1>3, <1>4
  <2> HIDE DEF s, t, own
  <2> QED BY <1>3, <1>4, <2>1, <2>2, StacksStep
<1> QED BY <1>7, <1>8

\* The innermost frame calls another function with its element.
LEMMA FrameCalls ==
    ASSUME StacksInv, NEW g \in Goroutines, stack[g] # <<>>, UNCHANGED <<ret, spc>>, ret[g] = "none",
           NEW f \in FrameSet, NEW h \in FrameSet,
           stack' = [stack EXCEPT ![g] = Append(SubSeq(@, 1, Len(@) - 1), f) \o <<h>>],
           Proper(f), Awaits(f), f.fn = Top(g).fn, f.elem = Top(g).elem,
           HeldTop(f, "none") = HeldTop(Top(g), "none"),
           Proper(h), h.fn # Top(g).fn, h.elem = Handed(f), h.at = "enter", h.next = 1,
           Separate(f, "none")
    PROVE  StacksInv' /\ \A i \in Goroutines : Holding'[i] = Holding[i]
<1> DEFINE s == stack[g]
           u == [s EXCEPT ![Len(s)] = f]
           t == Append(SubSeq(s, 1, Len(s) - 1), f) \o <<h>>
           own == Own(g)
<1>1. GoodStack(s, "none", own) /\ DOMAIN stack = Goroutines
  BY DEF StacksInv
<1>2. s \in Seq(FrameSet) /\ Top(g) \in FrameSet /\ Top(g) = s[Len(s)]
  BY <1>1, HeldSplits DEF GoodStack, Called, Top
<1>3. DOMAIN stack' = Goroutines /\ stack'[g] = t /\ \A i \in Goroutines : i # g => stack'[i] = stack[i]
  BY <1>1
<1>4. Replaced(s, u, f)
  BY <1>2, ReplacesTop
<1>5. Pushed(u, t, h)
  BY <1>2, PushesTwo
<1>6. /\ Held(s, "none", own) = KeptBelow(s) \cup HeldTop(Top(g), "none")
      /\ KeptBelow(s) \cap HeldTop(Top(g), "none") = {}
  BY <1>1, HeldSplits DEF Top
<1>8. GoodStack(u, "none", own) /\ Held(u, "none", own) = Held(s, "none", own)
  <2> HIDE DEF s, u, t, own
  <2>1. f.fn = s[Len(s)].fn /\ f.elem = s[Len(s)].elem
    BY <1>2
  <2>2. KeptBelow(s) \cap HeldTop(f, "none") = {}
    BY <1>6
  <2>3. GoodStack(u, "none", own) /\ Held(u, "none", own) = KeptBelow(s) \cup HeldTop(f, "none")
    BY <1>1, <1>4, <2>1, <2>2, GoodReplaced
  <2> QED BY <1>6, <2>3
<1>9. u # <<>> /\ u[Len(u)] = f
  BY <1>4 DEF Replaced
<1>10. GoodStack(t, "none", own) /\ Held(t, "none", own) = Held(u, "none", own)
  <2> HIDE DEF s, u, t, own
  <2>1. h.fn # f.fn
    OBVIOUS
  <2> QED BY <1>5, <1>8, <1>9, <2>1, GoodPushed
<1>11. /\ StacksInv'
       /\ Holding'[g] = Held(t, "none", own)
       /\ \A i \in Goroutines : i # g => Holding'[i] = Holding[i]
  <2>1. GoodStack(stack'[g], ret'[g], Own(g))
    BY <1>3, <1>10
  <2>2. Held(stack'[g], ret'[g], Own(g)) = Held(t, "none", own)
    BY <1>3
  <2> HIDE DEF s, u, t, own
  <2> QED BY <1>3, <2>1, <2>2, StacksStep
<1>12. Holding[g] = Held(s, "none", own)
  BY DEF Holding
<1> QED BY <1>8, <1>10, <1>11, <1>12

\* The innermost frame returns: its element comes back if the result is an error.
LEMMA FrameReturns ==
    ASSUME StacksInv, NEW g \in Goroutines, stack[g] # <<>>, UNCHANGED spc, ret \in [Goroutines -> RetSet],
           NEW q \in {"nil", "err"}, stack' = [stack EXCEPT ![g] = Front(@)], ret' = [ret EXCEPT ![g] = q],
           q = "err" => Top(g).elem \in HeldTop(Top(g), ret[g])
    PROVE  /\ StacksInv'
           /\ Holding[g] = KeptBelow(stack[g]) \cup HeldTop(Top(g), ret[g])
           /\ KeptBelow(stack[g]) \cap HeldTop(Top(g), ret[g]) = {}
           /\ Separate(Top(g), ret[g])
           /\ Holding'[g] = KeptBelow(stack[g]) \cup (IF q = "err" THEN {Top(g).elem} ELSE {})
           /\ \A h \in Goroutines : h # g => Holding'[h] = Holding[h]
<1> DEFINE s == stack[g]
           t == Front(s)
           own == Own(g)
<1>1. GoodStack(s, ret[g], own) /\ DOMAIN stack = Goroutines
  BY DEF StacksInv
<1>2. s \in Seq(FrameSet) /\ Top(g) = s[Len(s)]
  BY <1>1 DEF GoodStack, Called, Top
<1>3. DOMAIN stack' = Goroutines /\ stack'[g] = t /\ \A h \in Goroutines : h # g => stack'[h] = stack[h]
  BY <1>1
<1>4. ret'[g] = q /\ \A h \in Goroutines : h # g => ret'[h] = ret[h]
  OBVIOUS
<1>5. Popped(s, t)
  BY <1>2, PopsTop
<1>6. /\ Held(s, ret[g], own) = KeptBelow(s) \cup HeldTop(Top(g), ret[g])
      /\ KeptBelow(s) \cap HeldTop(Top(g), ret[g]) = {}
      /\ Separate(Top(g), ret[g])
  BY <1>1, HeldSplits DEF Top
<1>7. /\ GoodStack(t, q, own)
      /\ Held(t, q, own) = KeptBelow(s) \cup (IF q = "err" THEN {Top(g).elem} ELSE {})
  <2> HIDE DEF s, t, own
  <2> QED BY <1>1, <1>2, <1>5, GoodPopped
<1>8. /\ StacksInv'
      /\ Holding'[g] = Held(t, q, own)
      /\ \A h \in Goroutines : h # g => Holding'[h] = Holding[h]
  <2>1. GoodStack(stack'[g], ret'[g], Own(g))
    BY <1>3, <1>4, <1>7
  <2>2. Held(stack'[g], ret'[g], Own(g)) = Held(t, q, own)
    BY <1>3, <1>4
  <2> HIDE DEF s, t, own
  <2> QED BY <1>3, <1>4, <2>1, <2>2, StacksStep
<1>9. Holding[g] = Held(s, ret[g], own)
  BY DEF Holding
<1> QED BY <1>6, <1>7, <1>8, <1>9

FramePlaces == {"enter", "send", "tail", "loop", "pop", "popped", "take", "own"}

LEMMA FrameAt ==
    ASSUME NEW f \in FrameSet, NEW at \in FramePlaces
    PROVE  LET h == [f EXCEPT !.at = at]
           IN  /\ h \in FrameSet /\ h.at = at
               /\ h.fn = f.fn /\ h.elem = f.elem /\ h.item = f.item /\ h.next = f.next
BY DEF FrameSet, FramePlaces

LEMMA NewFrame ==
    ASSUME NEW fn \in {"wire", "protector"}, NEW w \in Wires, NEW e \in Elements
    PROVE  LET h == Frame(fn, w, e)
           IN  /\ h \in FrameSet /\ h.at = "enter" /\ h.fn = fn /\ h.elem = e /\ h.next = 1
               /\ Proper(h)
BY DEF FrameSet, Frame, Proper

\* The innermost frame and where it is.
LEMMA TopFacts ==
    ASSUME StacksInv, NEW g \in Goroutines, stack[g] # <<>>
    PROVE  /\ Top(g) \in FrameSet /\ Top(g).elem \in Elements /\ Top(g).item \in Elements
           /\ Top(g).wire \in Wires /\ Proper(Top(g)) /\ Top(g).next \in {1, 2}
           /\ Holding[g] = KeptBelow(stack[g]) \cup HeldTop(Top(g), ret[g])
           /\ KeptBelow(stack[g]) \cap HeldTop(Top(g), ret[g]) = {}
           /\ Separate(Top(g), ret[g])
           /\ ret[g] # "none" => Awaits(Top(g))
           /\ Top(g).fn \in {"wire", "protector"}
<1>1. GoodStack(stack[g], ret[g], Own(g))
  BY DEF StacksInv
<1>2. /\ Top(g) \in FrameSet /\ Proper(Top(g))
      /\ Held(stack[g], ret[g], Own(g)) = KeptBelow(stack[g]) \cup HeldTop(Top(g), ret[g])
      /\ KeptBelow(stack[g]) \cap HeldTop(Top(g), ret[g]) = {}
      /\ Separate(Top(g), ret[g])
  BY <1>1, HeldSplits DEF Top
<1>3. Holding[g] = Held(stack[g], ret[g], Own(g))
  BY DEF Holding
<1>4. ret[g] # "none" => Awaits(Top(g))
  BY <1>1 DEF GoodStack, Answered, Top
<1> QED BY <1>2, <1>3, <1>4 DEF FrameSet

\* Inside a function, before it calls.
LEMMA GotoKeeps ==
    ASSUME StacksInv, NEW g \in Goroutines, stack[g] # <<>>, ret[g] = "none", ret \in [Goroutines -> RetSet],
           UNCHANGED <<ret, spc>>, Top(g).at # "popped", Top(g).next = 1,
           NEW at \in FramePlaces, at # "popped", SurgeGoto(g, at),
           IF Top(g).fn = "wire" THEN at = "send" ELSE at \notin {"send", "tail"}
    PROVE  StacksInv' /\ \A h \in Goroutines : Holding'[h] = Holding[h]
<1> DEFINE f == [Top(g) EXCEPT !.at = at]
<1>1. Top(g) \in FrameSet
  BY TopFacts
<1>2. /\ f \in FrameSet /\ f.at = at
      /\ f.fn = Top(g).fn /\ f.elem = Top(g).elem /\ f.next = 1
  BY <1>1, FrameAt
<1>3. SetTop(g, f)
  BY DEF SurgeGoto
<1> HIDE DEF f
<1>4. Proper(f) /\ Separate(f, "none")
  BY <1>2 DEF Proper, Separate
<1>5. HeldTop(f, "none") = HeldTop(Top(g), ret[g])
  BY <1>2 DEF HeldTop, Handed
<1>6. ret' = [ret EXCEPT ![g] = "none"]
  OBVIOUS
<1>7. /\ Holding[g] = KeptBelow(stack[g]) \cup HeldTop(f, "none")
      /\ KeptBelow(stack[g]) \cap HeldTop(f, "none") = {}
  BY <1>5, TopFacts
<1>8. /\ StacksInv'
      /\ Holding'[g] = KeptBelow(stack[g]) \cup HeldTop(f, "none")
      /\ \A h \in Goroutines : h # g => Holding'[h] = Holding[h]
  BY <1>2, <1>3, <1>4, <1>6, <1>7, FrameGoes
<1> QED BY <1>7, <1>8

\* The place of an element, place by place.
LEMMA SpotsAre ==
    /\ Spotted["queue"] = surgeQueue
    /\ Spotted["out"] = ElemsOf(out)
    /\ Spotted["chan"] = ElemsOf(inChan[TheWire])
    /\ Spotted["drain"] = {e \in Elements : drain[TheWire] = e}
    /\ Spotted["backed"] = {e \in Elements : Backups # <<>> /\ backedUp[LastBackup][e] = 1}
    /\ Spotted["none"] = {e \in Elements : spc[e] \in {"new", "err"}}
BY DEF Spotted, Spots

LEMMA SpotsBecome ==
    /\ Spotted'["queue"] = surgeQueue'
    /\ Spotted'["out"] = ElemsOf(out')
    /\ Spotted'["chan"] = ElemsOf(inChan'[TheWire])
    /\ Spotted'["drain"] = {e \in Elements : drain'[TheWire] = e}
    /\ Spotted'["backed"] = {e \in Elements : Backups # <<>> /\ backedUp'[LastBackup][e] = 1}
    /\ Spotted'["none"] = {e \in Elements : spc'[e] \in {"new", "err"}}
BY DEF Spotted, Spots

LEMMA SpotsKept ==
    ASSUME UNCHANGED <<surgeQueue, inChan, out, backedUp, drain>>
    PROVE  \A p \in Spots : p # "none" => Spotted'[p] = Spotted[p]
BY SpotsAre, SpotsBecome DEF Spots

\* A step that leaves the places alone, and one that leaves them and the hands alone.
LEMMA PlacesSame ==
    ASSUME SurgeInv, UNCHANGED <<store, spc>>, attached' => Backups # <<>>,
           \A e \in Elements : drain'[TheWire] = e <=> drain[TheWire] = e
    PROVE  ChannelsInv' /\ BackupsInv' /\ \A p \in Spots : Spotted'[p] = Spotted[p]
<1>1. ChannelsInv' /\ BackupsInv'
  BY DEF SurgeInv, ChannelsInv, BackupsInv, store
<1>2. Spotted'["drain"] = Spotted["drain"]
  BY SpotsAre, SpotsBecome
<1>3. \A p \in Spots \ {"drain"} : Spotted'[p] = Spotted[p]
  BY SpotsAre, SpotsBecome DEF Spots, store
<1> QED BY <1>1, <1>2, <1>3

LEMMA AllSame ==
    ASSUME SurgeInv, SurgeTypeOK', StacksInv', \A g \in Goroutines : Holding'[g] = Holding[g],
           UNCHANGED <<store, spc>>, attached' => Backups # <<>>,
           \A e \in Elements : drain'[TheWire] = e <=> drain[TheWire] = e
    PROVE  SurgeInv'
<1>1. ChannelsInv' /\ BackupsInv' /\ \A p \in Spots : Spotted'[p] = Spotted[p]
  BY PlacesSame
<1>2. Parted(Spotted', Holding')
  BY <1>1, PartedSame DEF SurgeInv
<1> QED BY <1>1, <1>2 DEF SurgeInv

LEMMA ControlKeeps ==
    ASSUME SurgeInv, SurgeTick \/ Trip \/ Reset \/ AttachBackup \/ DetachBackups
    PROVE  SurgeInv'
<1>1. UNCHANGED <<stack, ret, spc, store, drain>> /\ (attached' => Backups # <<>>)
  BY DEF SurgeTick, Trip, Reset, AttachBackup, DetachBackups, SurgeInv, BackupsInv, store
<1>2. SurgeTypeOK'
  <2>1. SurgeTypeOK
    BY DEF SurgeInv
  <2> USE DEF SurgeTypeOK, store, limiter
  <2>2. CASE SurgeTick
    BY <2>1, <2>2 DEF SurgeTick
  <2>3. CASE Trip
    BY <2>1, <2>3 DEF Trip
  <2>4. CASE Reset
    BY <2>1, <2>4 DEF Reset
  <2>5. CASE AttachBackup
    BY <2>1, <2>5 DEF AttachBackup
  <2>6. CASE DetachBackups
    BY <2>1, <2>6 DEF DetachBackups
  <2> QED BY <2>2, <2>3, <2>4, <2>5, <2>6
<1>3. StacksInv' /\ \A g \in Goroutines : Holding'[g] = Holding[g]
  BY <1>1, StacksSame DEF SurgeInv
<1> QED BY <1>1, <1>2, <1>3, AllSame

LEMMA DrainIdles ==
    ASSUME Len(Components) = 1, SurgeInv, NEW w \in Wires, DrainTick(w) \/ DrainMissed(w)
    PROVE  SurgeInv'
<1>1. UNCHANGED <<stack, ret, spc, store, attached, tripped>> /\ (attached' => Backups # <<>>)
  <2>1. UNCHANGED <<stack, ret, spc, tripped, store, attached>>
    <3>1. CASE DrainTick(w)
      BY <3>1 DEF DrainTick
    <3>2. CASE DrainMissed(w)
      BY <3>2 DEF DrainMissed
    <3> QED BY <3>1, <3>2
  <2> QED BY <2>1 DEF SurgeInv, BackupsInv
<1>2. w = TheWire /\ TheWire \in Wires
  BY OneComponent
<1>3. PICK v \in {"select", "taken", "missed", "exited"} : drain' = [drain EXCEPT ![w] = v]
  BY DEF DrainTick, DrainMissed
<1>4. drain' \in [Wires -> {"select", "taken", "missed", "exited"} \cup Elements] /\ drain'[w] = v
  BY <1>3 DEF SurgeInv, SurgeTypeOK
<1>5. drain[w] \in {"select", "missed"}
  BY DEF DrainTick, DrainMissed
<1>6. \A e \in Elements : drain'[TheWire] # e /\ drain[TheWire] # e
  BY <1>2, <1>4, <1>5, ShapeAssumption
<1>7. surgeTokens' \in 0..Capacity /\ due' \in BOOLEAN
  <2>1. surgeTokens \in 0..Capacity /\ due \in BOOLEAN
    BY DEF SurgeInv, SurgeTypeOK
  <2>2. TryTake(TRUE) \/ TryTake(FALSE) \/ UNCHANGED limiter
    BY DEF DrainTick, DrainMissed
  <2>3. CASE UNCHANGED limiter
    BY <2>1, <2>3 DEF limiter
  <2>4. CASE TryTake(TRUE) \/ TryTake(FALSE)
    BY <2>1, <2>4, TryTakeTyped
  <2> QED BY <2>2, <2>3, <2>4
<1>8. SurgeTypeOK'
  BY <1>1, <1>4, <1>7 DEF SurgeInv, SurgeTypeOK, store
<1>9. StacksInv' /\ \A g \in Goroutines : Holding'[g] = Holding[g]
  BY <1>1, StacksSame DEF SurgeInv
<1> QED BY <1>1, <1>6, <1>8, <1>9, AllSame

LEMMA PutAdds ==
    ASSUME Len(Components) = 1, SurgeInv, NEW e \in Elements, e \notin ElemsOf(inChan[TheWire]),
           Put(TheWire, e), UNCHANGED out
    PROVE  /\ ChannelsInv' /\ \A w \in Wires : Len(inChan'[w]) <= Buffer
           /\ ElemsOf(inChan'[TheWire]) = ElemsOf(inChan[TheWire]) \cup {e}
<1> DEFINE s == inChan[TheWire]
           x == [elem |-> e, path |-> <<>>]
<1>1. Wires = {TheWire} /\ s \in Seq(ItemSet) /\ EachOnce(s) /\ x \in ItemSet /\ x.elem = e
  <2>1. Wires = {TheWire}
    BY OneComponent
  <2>2. s \in Seq(ItemSet) /\ EachOnce(s)
    BY <2>1 DEF SurgeInv, ChannelsInv
  <2>3. x \in ItemSet
    BY DEF ItemSet
  <2> QED BY <2>1, <2>2, <2>3
<1>2. inChan' = [inChan EXCEPT ![TheWire] = Append(s, x)] /\ Len(s) < Buffer /\ inChan \in [Wires -> Seq(ItemSet)]
  BY DEF Put, SurgeInv, ChannelsInv
<1>3. inChan'[TheWire] = Append(s, x)
  BY <1>1, <1>2
<1> HIDE DEF s, x
<1>4. /\ Append(s, x) \in Seq(ItemSet) /\ EachOnce(Append(s, x))
      /\ ElemsOf(Append(s, x)) = ElemsOf(s) \cup {e}
  <2>1. x.elem \notin ElemsOf(s)
    BY <1>1 DEF s
  <2> QED BY <1>1, <2>1, ElemsAppend
<1>5. Len(Append(s, x)) = Len(s) + 1 /\ Len(s) \in Nat /\ Buffer \in Nat
  BY <1>1, AppendProperties, ShapeAssumption
<1>6. inChan' \in [Wires -> Seq(ItemSet)]
  BY <1>1, <1>2, <1>4
<1>7. ChannelsInv'
  BY <1>3, <1>4, <1>6 DEF ChannelsInv, SurgeInv
<1>8. \A w \in Wires : Len(inChan'[w]) <= Buffer
  BY <1>1, <1>2, <1>3, <1>5
<1> QED BY <1>3, <1>4, <1>7, <1>8 DEF s

LEMMA DrainPops ==
    ASSUME Len(Components) = 1, SurgeInv, NEW w \in Wires, DrainPop(w)
    PROVE  SurgeInv'
<1>1. /\ UNCHANGED <<stack, ret, spc, tripped, limiter, inChan, out, backedUp, cuts, attached>>
      /\ (attached' => Backups # <<>>)
      /\ drain[w] = "taken" /\ w = TheWire /\ "taken" \notin Elements /\ "missed" \notin Elements
  BY OneComponent, ShapeAssumption DEF DrainPop, SurgeInv, BackupsInv
<1>2. StacksInv' /\ \A g \in Goroutines : Holding'[g] = Holding[g]
  BY <1>1, StacksSame DEF SurgeInv
<1>3. drain \in [Wires -> {"select", "taken", "missed", "exited"} \cup Elements] /\ surgeQueue \subseteq Elements
  BY DEF SurgeInv, SurgeTypeOK
<1>4. ASSUME NEW x \in surgeQueue, surgeQueue' = surgeQueue \ {x}, drain' = [drain EXCEPT ![w] = x]
      PROVE SurgeInv'
  <2>1. drain'[w] = x /\ x \in Elements
    BY <1>3, <1>4
  <2>2. SurgeTypeOK'
    <3>1. drain' \in [Wires -> {"select", "taken", "missed", "exited"} \cup Elements]
      BY <1>3, <1>4, <2>1
    <3> QED BY <1>1, <1>4, <3>1 DEF SurgeInv, SurgeTypeOK, limiter
  <2>3. ChannelsInv' /\ BackupsInv'
    BY <1>1 DEF SurgeInv, ChannelsInv, BackupsInv
  <2>4. Spotted'["queue"] = Spotted["queue"] \ {x} /\ x \in Spotted["queue"]
    BY <1>4, SpotsAre, SpotsBecome
  <2>5. Spotted'["drain"] = Spotted["drain"] \cup {x}
    BY <1>1, <2>1, SpotsAre, SpotsBecome
  <2>6. \A p \in Spots : p \notin {"queue", "drain"} => Spotted'[p] = Spotted[p]
    <3>1. UNCHANGED <<spc, inChan, out, backedUp>>
      BY <1>1
    <3> QED BY <3>1, SpotsAre, SpotsBecome DEF Spots
  <2>7. "queue" \in Spots /\ "drain" \in Spots
    BY DEF Spots
  <2>8. Parted(Spotted', Holding')
    BY <1>2, <2>4, <2>5, <2>6, <2>7, PartedMoves DEF SurgeInv
  <2> QED BY <1>2, <2>2, <2>3, <2>8 DEF SurgeInv
<1>5. ASSUME UNCHANGED surgeQueue, drain' = [drain EXCEPT ![w] = "missed"]
      PROVE SurgeInv'
  <2>1. drain' \in [Wires -> {"select", "taken", "missed", "exited"} \cup Elements] /\ drain'[w] = "missed"
    BY <1>3, <1>5
  <2>2. SurgeTypeOK'
    BY <1>1, <1>5, <2>1 DEF SurgeInv, SurgeTypeOK, limiter
  <2>3. \A e \in Elements : drain'[TheWire] # e /\ drain[TheWire] # e
    BY <1>1, <2>1
  <2>4. UNCHANGED <<store, spc>>
    BY <1>1, <1>5 DEF store
  <2> QED BY <1>1, <1>2, <2>2, <2>3, <2>4, AllSame
<1> QED BY <1>4, <1>5 DEF DrainPop

LEMMA DrainSends ==
    ASSUME Len(Components) = 1, SurgeInv, NEW w \in Wires, DrainSend(w)
    PROVE  SurgeInv'
<1> DEFINE x == drain[w]
<1>1. /\ UNCHANGED <<stack, ret, spc, tripped, limiter, surgeQueue, out, backedUp, cuts, attached>>
      /\ w = TheWire /\ x \in Elements /\ "select" \notin Elements /\ Put(TheWire, x)
      /\ drain' = [drain EXCEPT ![w] = "select"]
  BY OneComponent, ShapeAssumption DEF DrainSend
<1>2. StacksInv' /\ \A g \in Goroutines : Holding'[g] = Holding[g]
  BY <1>1, StacksSame DEF SurgeInv
<1>3. drain' \in [Wires -> {"select", "taken", "missed", "exited"} \cup Elements] /\ drain'[w] = "select"
  BY <1>1 DEF SurgeInv, SurgeTypeOK
<1>4. "drain" \in Spots /\ "chan" \in Spots
  BY DEF Spots
<1>5. x \in Spotted["drain"]
  BY <1>1, SpotsAre
<1>6. x \notin Spotted["chan"]
  BY <1>1, <1>4, <1>5 DEF SurgeInv, Parted
<1>7. /\ ChannelsInv' /\ \A v \in Wires : Len(inChan'[v]) <= Buffer
      /\ ElemsOf(inChan'[TheWire]) = ElemsOf(inChan[TheWire]) \cup {x}
  <2> HIDE DEF x
  <2> QED BY <1>1, <1>6, SpotsAre, PutAdds
<1>8. SurgeTypeOK'
  BY <1>1, <1>3, <1>7 DEF SurgeInv, SurgeTypeOK, limiter
<1>9. BackupsInv'
  BY <1>1 DEF SurgeInv, BackupsInv
<1>10. Spotted'["drain"] = Spotted["drain"] \ {x}
  BY <1>1, <1>3, SpotsAre, SpotsBecome
<1>11. Spotted'["chan"] = Spotted["chan"] \cup {x}
  BY <1>7, SpotsAre, SpotsBecome
<1>12. \A p \in Spots : p \notin {"drain", "chan"} => Spotted'[p] = Spotted[p]
  <2>1. UNCHANGED <<spc, surgeQueue, out, backedUp>>
    BY <1>1
  <2> QED BY <2>1, SpotsAre, SpotsBecome DEF Spots
<1>13. Parted(Spotted', Holding')
  <2> HIDE DEF x
  <2> QED BY <1>2, <1>4, <1>5, <1>10, <1>11, <1>12, PartedMoves DEF SurgeInv
<1> QED BY <1>2, <1>7, <1>8, <1>9, <1>13 DEF SurgeInv

LEMMA WorkMoves ==
    ASSUME Len(Components) = 1, SurgeInv, NEW w \in Wires, Work(w)
    PROVE  SurgeInv'
<1> DEFINE s == inChan[TheWire]
           item == [Head(s) EXCEPT !.path = Append(@, w)]
           x == Head(s).elem
<1>1. /\ UNCHANGED <<stack, ret, spc, tripped, limiter, surgeQueue, backedUp, cuts, attached, drain>>
      /\ w = TheWire /\ s # <<>> /\ out' = Append(out, item) /\ Wires = {TheWire}
      /\ inChan' = [inChan EXCEPT ![TheWire] = Tail(s)]
  BY OneComponent DEF Work
<1>2. StacksInv' /\ \A g \in Goroutines : Holding'[g] = Holding[g]
  BY <1>1, StacksSame DEF SurgeInv
<1>3. /\ inChan \in [Wires -> Seq(ItemSet)] /\ s \in Seq(ItemSet) /\ out \in Seq(ItemSet)
      /\ EachOnce(s) /\ EachOnce(out) /\ Len(s) <= Buffer
  BY <1>1 DEF SurgeInv, ChannelsInv, SurgeTypeOK
<1>4. /\ Head(s) \in ItemSet /\ x \in ElemsOf(s) /\ Tail(s) \in Seq(ItemSet) /\ Len(Tail(s)) <= Len(s)
      /\ ElemsOf(Tail(s)) = ElemsOf(s) \ {x} /\ EachOnce(Tail(s))
  <2> HIDE DEF s
  <2> QED BY <1>1, <1>3, ElemsTail
<1>5. item \in ItemSet /\ item.elem = x
  <2>1. Head(s).path \in Seq(Wires)
    BY <1>4 DEF ItemSet
  <2>2. Append(Head(s).path, w) \in Seq(Wires)
    BY <2>1
  <2> QED BY <1>4, <2>2 DEF ItemSet
<1>6. "chan" \in Spots /\ "out" \in Spots
  BY DEF Spots
<1>7. x \in Elements /\ x \in Spotted["chan"]
  BY <1>4, SpotsAre DEF ElemsOf
<1>8. x \notin Spotted["out"]
  BY <1>6, <1>7 DEF SurgeInv, Parted
<1> HIDE DEF item, x, s
<1>9. /\ Append(out, item) \in Seq(ItemSet) /\ EachOnce(Append(out, item))
      /\ ElemsOf(Append(out, item)) = ElemsOf(out) \cup {x}
  BY <1>3, <1>5, <1>8, SpotsAre, ElemsAppend
<1>10. inChan'[TheWire] = Tail(s) /\ inChan' \in [Wires -> Seq(ItemSet)]
  BY <1>1, <1>3, <1>4
<1>11. ChannelsInv'
  BY <1>1, <1>4, <1>9, <1>10 DEF ChannelsInv
<1>12. SurgeTypeOK'
  <2>1. Len(Tail(s)) <= Buffer
    BY <1>3, <1>4, ShapeAssumption
  <2>2. \A v \in Wires : Len(inChan'[v]) <= Buffer
    BY <1>1, <1>10, <2>1
  <2> QED BY <1>1, <2>2 DEF SurgeInv, SurgeTypeOK, limiter
<1>13. BackupsInv'
  BY <1>1 DEF SurgeInv, BackupsInv
<1>14. Spotted'["chan"] = Spotted["chan"] \ {x}
  BY <1>4, <1>10, SpotsAre, SpotsBecome DEF s
<1>15. Spotted'["out"] = Spotted["out"] \cup {x}
  BY <1>1, <1>9, SpotsAre, SpotsBecome
<1>16. \A p \in Spots : p \notin {"chan", "out"} => Spotted'[p] = Spotted[p]
  BY <1>1, SpotsAre, SpotsBecome DEF Spots
<1>17. Parted(Spotted', Holding')
  BY <1>2, <1>6, <1>7, <1>14, <1>15, <1>16, PartedMoves DEF SurgeInv
<1> QED BY <1>2, <1>11, <1>12, <1>13, <1>17 DEF SurgeInv

\* A goroutine with no frame.
LEMMA EmptyStack ==
    ASSUME NEW r, NEW own, r = "none" => own = {}, r # "none" => \E e \in Elements : own = {e}
    PROVE  /\ GoodStack(<<>>, r, own)
           /\ Held(<<>>, r, own) = IF r = "err" THEN own ELSE {}
<1>1. Kept(<<>>) = {}
  BY DEF Kept
<1>2. Live(<<>>, r, own) = IF r = "err" THEN own ELSE {}
  BY DEF Live
<1>3. Called(<<>>, own) /\ Answered(<<>>, r, own)
  BY DEF Called, Answered
<1>4. KeptOnce(<<>>, r, own)
  BY <1>1 DEF KeptOnce
<1> QED BY <1>1, <1>2, <1>3, <1>4 DEF GoodStack, Held

LEMMA OneFrame ==
    ASSUME NEW f \in FrameSet, f.fn = "wire", f.at = "enter", f.next = 1, Proper(f)
    PROVE  GoodStack(<<f>>, "none", {f.elem}) /\ Held(<<f>>, "none", {f.elem}) = {f.elem}
<1> DEFINE s == <<f>>
<1>1. s \in Seq(FrameSet) /\ Len(s) = 1 /\ s[1] = f /\ s # <<>>
  OBVIOUS
<1> HIDE DEF s
<1>2. Called(s, {f.elem})
  BY <1>1 DEF Called
<1>3. KeptBelow(s) = {}
  BY <1>1 DEF KeptBelow
<1>4. HeldTop(f, "none") = {f.elem} /\ Separate(f, "none")
  BY DEF HeldTop, Separate, Handed
<1>5. \A i, j \in 1..(Len(s) - 1) :
          s[i].at = "popped" /\ s[j].at = "popped" /\ s[i].elem = s[j].elem => i = j
  BY <1>1
<1>6. s[Len(s)] = f
  BY <1>1
<1>7. /\ GoodStack(s, "none", {f.elem})
      /\ Held(s, "none", {f.elem}) = KeptBelow(s) \cup HeldTop(s[Len(s)], "none")
  BY <1>1, <1>2, <1>3, <1>4, <1>5, <1>6, GoodJoins
<1> QED BY <1>3, <1>4, <1>6, <1>7 DEF s

LEMMA CallStarts ==
    ASSUME Len(Components) = 1, SurgeInv, NEW g \in Goroutines, NEW e \in Elements, Call(g, e)
    PROVE  SurgeInv'
<1> DEFINE f == Frame("wire", Components[1], e)
<1>1. /\ UNCHANGED <<ret, tripped, limiter, surgeQueue, inChan, out, backedUp, cuts, attached, drain>>
      /\ stack[g] = <<>> /\ ret[g] = "none" /\ spc[e] = "new"
      /\ stack' = [stack EXCEPT ![g] = <<f>>] /\ spc' = [spc EXCEPT ![e] = g]
  BY DEF Call, store
<1>2. StacksInv /\ DOMAIN stack = Goroutines /\ GoodStack(<<>>, "none", Own(g)) /\ "new" \notin Goroutines
      /\ g \notin {"new", "nil", "err"}
  BY <1>1, ShapeAssumption DEF SurgeInv, StacksInv
<1>3. Own(g) = {}
  BY <1>2 DEF GoodStack, Answered
<1>4. spc \in [Elements -> {"new", "nil", "err"} \cup Goroutines]
  BY DEF SurgeInv, SurgeTypeOK
<1>5. Own(g)' = {e}
  BY <1>1, <1>3, <1>4 DEF Own
<1>6. \A h \in Goroutines : h # g => Own(h)' = Own(h)
  BY <1>1, <1>2, <1>4 DEF Own
<1>7. /\ f \in FrameSet /\ f.at = "enter" /\ f.fn = "wire" /\ f.elem = e /\ f.next = 1 /\ Proper(f)
  <2>1. Components[1] \in Wires
    BY OneComponent
  <2> QED BY <2>1, NewFrame
<1> HIDE DEF f
<1>8. GoodStack(<<f>>, "none", {e}) /\ Held(<<f>>, "none", {e}) = {e}
  BY <1>7, OneFrame
<1>9. stack'[g] = <<f>> /\ DOMAIN stack' = Goroutines /\ \A h \in Goroutines : h # g => stack'[h] = stack[h]
  BY <1>1, <1>2
<1>10. /\ StacksInv'
       /\ Holding'[g] = {e}
       /\ \A h \in Goroutines : h # g => Holding'[h] = Holding[h]
  <2>1. GoodStack(stack'[g], ret'[g], Own(g)')
    BY <1>1, <1>5, <1>8, <1>9
  <2>2. Held(stack'[g], ret'[g], Own(g)') = {e}
    BY <1>1, <1>5, <1>8, <1>9
  <2> QED BY <1>1, <1>2, <1>6, <1>9, <2>1, <2>2, OwnStep
<1>11. Holding[g] = {}
  <2>1. Held(<<>>, "none", {}) = {}
    BY EmptyStack
  <2> QED BY <1>1, <1>3, <2>1 DEF Holding
<1>12. SurgeTypeOK'
  <2>1. spc' \in [Elements -> {"new", "nil", "err"} \cup Goroutines]
    BY <1>1, <1>4
  <2> QED BY <1>1, <2>1 DEF SurgeInv, SurgeTypeOK, limiter
<1>13. ChannelsInv' /\ BackupsInv'
  BY <1>1 DEF SurgeInv, ChannelsInv, BackupsInv
<1>14. Spotted'["none"] = Spotted["none"] \ {e} /\ e \in Spotted["none"] /\ "none" \in Spots
  <2>1. \A x \in Elements : x # e => spc'[x] = spc[x]
    BY <1>1, <1>4
  <2>2. spc'[e] = g /\ g \notin {"new", "err"}
    BY <1>1, <1>2, <1>4
  <2>3. Spotted'["none"] = Spotted["none"] \ {e}
    BY <2>1, <2>2, SpotsAre, SpotsBecome
  <2> QED BY <1>1, <2>3, SpotsAre DEF Spots
<1>15. \A p \in Spots : p # "none" => Spotted'[p] = Spotted[p]
  BY <1>1, SpotsKept
<1>16. Parted(Spotted', Holding')
  <2>1. Holding'[g] = Holding[g] \cup {e}
    BY <1>10, <1>11
  <2> QED BY <1>10, <1>14, <1>15, <2>1, PartedTakes DEF SurgeInv
<1> QED BY <1>10, <1>12, <1>13, <1>16 DEF SurgeInv

LEMMA DoneEnds ==
    ASSUME SurgeInv, NEW g \in Goroutines, NEW e \in Elements, Done(g, e)
    PROVE  SurgeInv'
<1>1. /\ UNCHANGED <<stack, tripped, limiter, surgeQueue, inChan, out, backedUp, cuts, attached, drain>>
      /\ stack[g] = <<>> /\ ret[g] # "none" /\ spc[e] = g
      /\ spc' = [spc EXCEPT ![e] = ret[g]] /\ ret' = [ret EXCEPT ![g] = "none"]
  BY DEF Done, store
<1>2. /\ StacksInv /\ DOMAIN stack = Goroutines /\ GoodStack(<<>>, ret[g], Own(g))
      /\ Goroutines \cap {"new", "nil", "err"} = {}
  BY <1>1, ShapeAssumption DEF SurgeInv, StacksInv
<1>3. /\ spc \in [Elements -> {"new", "nil", "err"} \cup Goroutines]
      /\ ret \in [Goroutines -> RetSet] /\ ret[g] \in {"nil", "err"}
  BY <1>1 DEF SurgeInv, SurgeTypeOK, RetSet
<1>4. Own(g) = {e}
  <2>1. PICK x \in Elements : Own(g) = {x}
    BY <1>1, <1>2 DEF GoodStack, Answered
  <2>2. e \in Own(g)
    BY <1>1 DEF Own
  <2> QED BY <2>1, <2>2
<1>5. Own(g)' = {}
  <2> SUFFICES ASSUME NEW x \in Elements, spc'[x] = g PROVE FALSE
    BY DEF Own
  <2>1. CASE x = e
    BY <1>1, <1>2, <1>3, <2>1
  <2>2. CASE x # e
    <3>1. spc[x] = g
      BY <1>1, <1>3, <2>2
    <3>2. x \in Own(g)
      BY <3>1 DEF Own
    <3> QED BY <1>4, <2>2, <3>2
  <2> QED BY <2>1, <2>2
<1>6. ASSUME NEW h \in Goroutines, h # g PROVE Own(h)' = Own(h)
  <2>1. spc'[e] # h /\ spc[e] # h
    BY <1>1, <1>2, <1>3, <1>6
  <2>2. \A x \in Elements : x # e => spc'[x] = spc[x]
    BY <1>1, <1>3
  <2> QED BY <2>1, <2>2 DEF Own
<1>7. GoodStack(<<>>, "none", {}) /\ Held(<<>>, "none", {}) = {}
  BY EmptyStack
<1>8. stack' = stack /\ ret'[g] = "none" /\ \A h \in Goroutines : h # g => ret'[h] = ret[h]
  BY <1>1, <1>3
<1>9. /\ StacksInv'
      /\ Holding'[g] = {}
      /\ \A h \in Goroutines : h # g => Holding'[h] = Holding[h]
  <2>1. GoodStack(stack'[g], ret'[g], Own(g)')
    BY <1>1, <1>5, <1>7, <1>8
  <2>2. Held(stack'[g], ret'[g], Own(g)') = {}
    BY <1>1, <1>5, <1>7, <1>8
  <2> QED BY <1>2, <1>6, <1>8, <2>1, <2>2, OwnStep
<1>10. Holding[g] = IF ret[g] = "err" THEN {e} ELSE {}
  <2>1. Held(<<>>, ret[g], {e}) = IF ret[g] = "err" THEN {e} ELSE {}
    BY <1>1, EmptyStack
  <2> QED BY <1>1, <1>4, <2>1 DEF Holding
<1>11. SurgeTypeOK'
  <2>1. spc' \in [Elements -> {"new", "nil", "err"} \cup Goroutines]
    BY <1>1, <1>3
  <2>2. ret' \in [Goroutines -> {"none", "nil", "err"}]
    BY <1>1, <1>3 DEF RetSet
  <2> QED BY <1>1, <2>1, <2>2 DEF SurgeInv, SurgeTypeOK, limiter
<1>12. ChannelsInv' /\ BackupsInv'
  BY <1>1 DEF SurgeInv, ChannelsInv, BackupsInv
<1>13. Spotted'["none"] = Spotted["none"] \cup (IF ret[g] = "err" THEN {e} ELSE {})
  <2>1. \A x \in Elements : x # e => spc'[x] = spc[x]
    BY <1>1, <1>3
  <2>2. spc'[e] = ret[g] /\ spc[e] \notin {"new", "err"}
    BY <1>1, <1>2, <1>3
  <2> QED BY <1>3, <2>1, <2>2, SpotsAre, SpotsBecome
<1>14. \A p \in Spots : p # "none" => Spotted'[p] = Spotted[p]
  BY <1>1, SpotsKept
<1>15. Parted(Spotted', Holding')
  <2>1. CASE ret[g] = "err"
    <3>1. "none" \in Spots /\ e \in Holding[g] /\ Holding'[g] = Holding[g] \ {e}
      BY <1>9, <1>10, <2>1 DEF Spots
    <3>2. Spotted'["none"] = Spotted["none"] \cup {e}
      BY <1>13, <2>1
    <3> QED BY <1>9, <1>14, <3>1, <3>2, PartedGives DEF SurgeInv
  <2>2. CASE ret[g] = "nil"
    <3>1. Holding'[g] = Holding[g]
      BY <1>9, <1>10, <2>2
    <3>2. \A p \in Spots : Spotted'[p] = Spotted[p]
      BY <1>13, <1>14, <2>2
    <3> QED BY <1>9, <3>1, <3>2, PartedSame DEF SurgeInv
  <2> QED BY <1>3, <2>1, <2>2
<1> QED BY <1>9, <1>11, <1>12, <1>15 DEF SurgeInv

\* A frame that submits its own element returns: with an error it hands the
\* element back, with nil it has left it somewhere.
LEMMA ReturnsElement ==
    ASSUME SurgeInv, NEW g \in Goroutines, stack[g] # <<>>, ret[g] = "none", UNCHANGED spc,
           Top(g).at # "popped", Top(g).next = 1, NEW q \in {"nil", "err"}, Return(g, q)
    PROVE  /\ StacksInv' /\ ret' \in [Goroutines -> RetSet]
           /\ Top(g).elem \in Holding[g]
           /\ Holding'[g] = IF q = "err" THEN Holding[g] ELSE Holding[g] \ {Top(g).elem}
           /\ \A h \in Goroutines : h # g => Holding'[h] = Holding[h]
<1>1. StacksInv /\ ret \in [Goroutines -> RetSet]
  BY DEF SurgeInv, SurgeTypeOK, RetSet
<1>2. HeldTop(Top(g), ret[g]) = {Top(g).elem}
  BY DEF HeldTop, Handed
<1>3. stack' = [stack EXCEPT ![g] = Front(@)] /\ ret' = [ret EXCEPT ![g] = q]
  BY DEF Return
<1>4. /\ StacksInv'
      /\ Holding[g] = KeptBelow(stack[g]) \cup HeldTop(Top(g), ret[g])
      /\ KeptBelow(stack[g]) \cap HeldTop(Top(g), ret[g]) = {}
      /\ Holding'[g] = KeptBelow(stack[g]) \cup (IF q = "err" THEN {Top(g).elem} ELSE {})
      /\ \A h \in Goroutines : h # g => Holding'[h] = Holding[h]
  BY <1>1, <1>2, <1>3, FrameReturns
<1>5. ret' \in [Goroutines -> RetSet]
  BY <1>1, <1>3 DEF RetSet
<1>6. Holding'[g] = IF q = "err" THEN Holding[g] ELSE Holding[g] \ {Top(g).elem}
  BY <1>2, <1>4
<1> QED BY <1>2, <1>4, <1>5, <1>6

LEMMA WireSubmits ==
    ASSUME SurgeInv, NEW g \in Goroutines, WireSubmit(g)
    PROVE  SurgeInv'
<1>1. /\ stack[g] # <<>> /\ ret[g] = "none" /\ Top(g).fn = "wire" /\ Top(g).at = "enter"
      /\ UNCHANGED <<ret, spc, tripped, store, attached, drain>>
      /\ StacksInv /\ ret \in [Goroutines -> RetSet]
      /\ (attached' => Backups # <<>>)
  BY DEF WireSubmit, Running, SurgeInv, SurgeTypeOK, RetSet, BackupsInv
<1>2. /\ Top(g) \in FrameSet /\ Top(g).elem \in Elements /\ Top(g).wire \in Wires /\ Top(g).next = 1
  BY <1>1, TopFacts DEF Proper
<1>3. surgeTokens' \in 0..Capacity /\ due' \in BOOLEAN
  <2>1. surgeTokens \in 0..Capacity /\ due \in BOOLEAN
    BY DEF SurgeInv, SurgeTypeOK
  <2>2. TryTake(TRUE) \/ TryTake(FALSE) \/ UNCHANGED limiter
    BY DEF WireSubmit
  <2>3. CASE UNCHANGED limiter
    BY <2>1, <2>3 DEF limiter
  <2>4. CASE TryTake(TRUE) \/ TryTake(FALSE)
    BY <2>1, <2>4, TryTakeTyped
  <2> QED BY <2>2, <2>3, <2>4
<1>4. SurgeTypeOK'
  BY <1>1, <1>3 DEF SurgeInv, SurgeTypeOK, store
<1>5. StacksInv' /\ \A h \in Goroutines : Holding'[h] = Holding[h]
  <2>1. CASE Invoke(g, "tail", Frame("protector", Top(g).wire, Top(g).elem))
    <3> DEFINE f == [Top(g) EXCEPT !.at = "tail"]
               h == Frame("protector", Top(g).wire, Top(g).elem)
    <3>1. /\ f \in FrameSet /\ f.at = "tail" /\ f.fn = "wire" /\ f.elem = Top(g).elem /\ f.next = 1
      <4>1. "tail" \in FramePlaces
        BY DEF FramePlaces
      <4> QED BY <1>1, <1>2, <4>1, FrameAt
    <3>2. /\ h \in FrameSet /\ h.at = "enter" /\ h.fn = "protector" /\ h.elem = Top(g).elem /\ h.next = 1
          /\ Proper(h)
      BY <1>2, NewFrame
    <3>3. stack' = [stack EXCEPT ![g] = Append(SubSeq(@, 1, Len(@) - 1), f) \o <<h>>]
      BY <2>1 DEF Invoke
    <3> HIDE DEF f, h
    <3>4. Proper(f) /\ Awaits(f) /\ Handed(f) = Top(g).elem /\ Separate(f, "none")
      BY <3>1 DEF Proper, Awaits, Handed, Separate
    <3>5. HeldTop(f, "none") = HeldTop(Top(g), "none")
      BY <1>1, <1>2, <3>1 DEF HeldTop, Handed
    <3> QED BY <1>1, <3>1, <3>2, <3>3, <3>4, <3>5, FrameCalls
  <2>2. CASE SurgeGoto(g, "send")
    <3>1. "send" \in FramePlaces
      BY DEF FramePlaces
    <3> QED BY <1>1, <1>2, <2>2, <3>1, GotoKeeps
  <2> QED BY <2>1, <2>2 DEF WireSubmit
<1> QED BY <1>1, <1>4, <1>5, AllSame

LEMMA WireSends ==
    ASSUME Len(Components) = 1, SurgeInv, NEW g \in Goroutines, WireSend(g)
    PROVE  SurgeInv'
<1>1. /\ stack[g] # <<>> /\ ret[g] = "none" /\ Top(g).fn = "wire" /\ Top(g).at = "send"
      /\ UNCHANGED <<spc, tripped, limiter, surgeQueue, out, backedUp, cuts, attached, drain>>
      /\ StacksInv /\ (attached' => Backups # <<>>)
  BY DEF WireSend, Running, SurgeInv, BackupsInv
<1>2. /\ Top(g).elem \in Elements /\ Top(g).wire = TheWire /\ Top(g).next = 1
  BY <1>1, TopFacts, OneComponent DEF Proper
<1>3. CASE Put(Top(g).wire, Top(g).elem) /\ Return(g, "nil")
  <2> DEFINE x == Top(g).elem
  <2>1. /\ StacksInv' /\ ret' \in [Goroutines -> RetSet] /\ x \in Holding[g]
        /\ Holding'[g] = Holding[g] \ {x}
        /\ \A h \in Goroutines : h # g => Holding'[h] = Holding[h]
    BY <1>1, <1>2, <1>3, ReturnsElement
  <2>2. "chan" \in Spots
    BY DEF Spots
  <2>3. x \notin Spotted["chan"]
    BY <1>2, <2>1, <2>2 DEF SurgeInv, Parted
  <2>4. Put(TheWire, x)
    BY <1>2, <1>3
  <2> HIDE DEF x
  <2>5. /\ ChannelsInv' /\ \A w \in Wires : Len(inChan'[w]) <= Buffer
        /\ ElemsOf(inChan'[TheWire]) = ElemsOf(inChan[TheWire]) \cup {x}
    BY <1>1, <1>2, <2>3, <2>4, SpotsAre, PutAdds DEF x
  <2>6. SurgeTypeOK' /\ BackupsInv'
    BY <1>1, <2>1, <2>5 DEF SurgeInv, SurgeTypeOK, BackupsInv, limiter, RetSet
  <2>7. Spotted'["chan"] = Spotted["chan"] \cup {x}
    BY <2>5, SpotsAre, SpotsBecome
  <2>8. \A p \in Spots : p # "chan" => Spotted'[p] = Spotted[p]
    <3>1. UNCHANGED <<spc, surgeQueue, out, backedUp, drain>>
      BY <1>1
    <3> QED BY <3>1, SpotsAre, SpotsBecome DEF Spots
  <2>9. Parted(Spotted', Holding')
    BY <2>1, <2>2, <2>7, <2>8, PartedGives DEF SurgeInv
  <2> QED BY <2>1, <2>5, <2>6, <2>9 DEF SurgeInv
<1>4. CASE UNCHANGED inChan /\ Return(g, "err")
  <2>1. /\ StacksInv' /\ ret' \in [Goroutines -> RetSet] /\ Holding'[g] = Holding[g]
        /\ \A h \in Goroutines : h # g => Holding'[h] = Holding[h]
    BY <1>1, <1>2, <1>4, ReturnsElement
  <2>2. SurgeTypeOK'
    BY <1>1, <1>4, <2>1 DEF SurgeInv, SurgeTypeOK, limiter, RetSet
  <2>3. UNCHANGED <<store, spc>>
    BY <1>1, <1>4 DEF store
  <2> QED BY <1>1, <2>1, <2>2, <2>3, AllSame
<1> QED BY <1>3, <1>4 DEF WireSend

\* The backups before the k-th; the last one is among them only if all are.
LEMMA FirstBackups ==
    ASSUME NEW k \in 0..Len(Backups), Backups # <<>>
    PROVE  LET first == ToSet(SubSeq(Backups, 1, k))
           IN  /\ first \subseteq ToSet(Backups)
               /\ k = Len(Backups) => first = ToSet(Backups)
               /\ k # Len(Backups) => Backups[Len(Backups)] \notin first
               /\ Backups[Len(Backups)] \in ToSet(Backups)
<1> DEFINE n == Len(Backups)
           u == SubSeq(Backups, 1, k)
<1>1. /\ Backups \in Seq(ToSet(Backups)) /\ n \in Nat /\ n > 0 /\ DOMAIN Backups = 1..n
      /\ \A i, j \in 1..n : Backups[i] = Backups[j] => i = j
  BY ShapeAssumption DEF IsInjective
<1>2. u \in Seq(ToSet(Backups)) /\ Len(u) = k /\ \A i \in 1..k : u[i] = Backups[i]
  <2>1. \A i \in 1..k : Backups[i] \in ToSet(Backups)
    BY <1>1, ElementOfSeq
  <2> QED BY <1>1, <2>1, SubSeqProperties
<1>3. \A y : y \in ToSet(u) <=> \E i \in 1..k : y = Backups[i]
  <2>1. DOMAIN u = 1..k
    BY <1>2
  <2>2. \A y : y \in ToSet(u) <=> \E i \in DOMAIN u : y = u[i]
    BY Zenon DEF ToSet
  <2> HIDE DEF u
  <2> QED BY <1>2, <2>1, <2>2
<1>4. \A y : y \in ToSet(Backups) <=> \E i \in 1..n : y = Backups[i]
  <2>1. \A y : y \in ToSet(Backups) <=> \E i \in DOMAIN Backups : y = Backups[i]
    BY Zenon DEF ToSet
  <2> QED BY <1>1, <2>1
<1> HIDE DEF u
<1>5. ToSet(u) \subseteq ToSet(Backups) /\ Backups[n] \in ToSet(Backups)
  <2>1. 1..k \subseteq 1..n /\ n \in 1..n
    BY <1>1
  <2> QED BY <1>3, <1>4, <2>1
<1>6. k = n => ToSet(u) = ToSet(Backups)
  BY <1>3, <1>4
<1>7. ASSUME k # n, Backups[n] \in ToSet(u) PROVE FALSE
  <2>1. PICK i \in 1..k : Backups[n] = Backups[i]
    BY <1>3, <1>7
  <2>2. i \in 1..n /\ n \in 1..n /\ i # n
    <3>1. n \in Nat /\ n > 0 /\ k \in 0..n
      BY <1>1
    <3> HIDE DEF n
    <3> QED BY <1>7, <3>1
  <2> QED BY <1>1, <2>1, <2>2
<1> QED BY <1>5, <1>6, <1>7 DEF u

LEMMA BackupsTake ==
    ASSUME SurgeInv, NEW g \in Goroutines, SubmitToBackups(g)
    PROVE  SurgeInv'
<1> DEFINE x == Top(g).elem
           last == LastBackup
<1>1. /\ stack[g] # <<>> /\ ret[g] = "none" /\ Top(g).fn = "protector" /\ Top(g).at = "enter" /\ attached
      /\ UNCHANGED <<spc, tripped, limiter, surgeQueue, inChan, out, attached, drain>>
      /\ StacksInv /\ Backups # <<>>
      /\ backedUp \in [ToSet(Backups) -> [Elements -> Nat]] /\ cuts \in [Elements -> Nat]
  BY DEF SubmitToBackups, Running, SurgeInv, BackupsInv
<1>2. x \in Elements /\ Top(g).next = 1
  BY <1>1, TopFacts DEF Proper
<1>3. PICK k \in 0..Len(Backups) :
        /\ cuts' = [cuts EXCEPT ![x] = @ + CountIf(k \in 1..Len(Backups) - 1)]
        /\ backedUp' = [b \in DOMAIN backedUp |->
                [backedUp[b] EXCEPT ![x] = @ + CountIf(b \in ToSet(SubSeq(Backups, 1, k)))]]
        /\ Return(g, IF k = Len(Backups) THEN "nil" ELSE "err")
  BY DEF SubmitToBackups
<1> DEFINE first == ToSet(SubSeq(Backups, 1, k))
           cut == CountIf(k \in 1..Len(Backups) - 1)
<1>4. /\ first \subseteq ToSet(Backups) /\ last \in ToSet(Backups)
      /\ k = Len(Backups) => first = ToSet(Backups)
      /\ k # Len(Backups) => last \notin first
      /\ k = 0 => first = {}
  <2>1. k = 0 => first = {}
    BY DEF ToSet
  <2> QED BY <1>1, <2>1, FirstBackups DEF LastBackup
<1>5. /\ cut \in {0, 1}
      /\ k # Len(Backups) /\ k # 0 => cut = 1
      /\ Len(Backups) < 2 => cut = 0
  <2>1. Len(Backups) \in Nat
    BY ShapeAssumption
  <2> QED BY <2>1 DEF CountIf
<1>6. /\ cuts' \in [Elements -> Nat]
      /\ \A e \in Elements : cuts'[e] = IF e = x THEN cuts[e] + cut ELSE cuts[e]
  <2> HIDE DEF cut, x
  <2>1. cuts' = [cuts EXCEPT ![x] = @ + cut]
    BY <1>3 DEF cut
  <2> QED BY <1>1, <1>2, <1>5, <2>1
<1> HIDE DEF first, last, x, cut
<1>a. backedUp' = [b \in ToSet(Backups) |-> [backedUp[b] EXCEPT ![x] = @ + CountIf(b \in first)]]
  BY <1>1, <1>3 DEF first
<1>7. /\ backedUp' \in [ToSet(Backups) -> [Elements -> Nat]]
      /\ \A b \in ToSet(Backups), e \in Elements :
           backedUp'[b][e] = IF b \in first /\ e = x THEN backedUp[b][e] + 1 ELSE backedUp[b][e]
  <2>1. ASSUME NEW b \in ToSet(Backups)
        PROVE  /\ backedUp'[b] \in [Elements -> Nat]
               /\ \A e \in Elements :
                    backedUp'[b][e] = IF b \in first /\ e = x THEN backedUp[b][e] + 1 ELSE backedUp[b][e]
    <3>1. backedUp'[b] = [backedUp[b] EXCEPT ![x] = @ + CountIf(b \in first)] /\ backedUp[b] \in [Elements -> Nat]
      BY <1>1, <1>a
    <3> QED BY <1>2, <3>1 DEF CountIf
  <2>2. DOMAIN backedUp' = ToSet(Backups)
    BY <1>a
  <2>3. backedUp' = [b \in ToSet(Backups) |-> backedUp'[b]]
    BY <1>a
  <2> QED BY <2>1, <2>2, <2>3
<1>8. x \in Holding[g]
  <2>1. Return(g, "nil") \/ Return(g, "err")
    BY <1>3
  <2> QED BY <1>1, <1>2, <2>1, ReturnsElement DEF x
<1>9. backedUp[last][x] = 0
  <2>1. "backed" \in Spots /\ x \notin Spotted["backed"]
    BY <1>2, <1>8 DEF SurgeInv, Parted, Spots
  <2>2. backedUp[last][x] # 1 /\ backedUp[last][x] <= 1 /\ backedUp[last][x] \in Nat
    BY <1>1, <1>2, <1>4, <2>1, SpotsAre DEF last, SurgeInv, BackupsInv
  <2> QED BY <2>2
<1>10. BackupsInv'
  <2>1. ASSUME NEW e \in Elements
        PROVE  /\ Len(Backups) < 2 => cuts'[e] = 0
               /\ backedUp'[last][e] <= 1
               /\ \A b \in ToSet(Backups) :
                    backedUp'[last][e] <= backedUp'[b][e] /\ backedUp'[b][e] <= backedUp'[last][e] + cuts'[e]
    <3>1. /\ Len(Backups) < 2 => cuts[e] = 0
          /\ backedUp[last][e] <= 1 /\ backedUp[last][e] \in Nat /\ cuts[e] \in Nat
          /\ \A b \in ToSet(Backups) :
               /\ backedUp[b][e] \in Nat
               /\ backedUp[last][e] <= backedUp[b][e] /\ backedUp[b][e] <= backedUp[last][e] + cuts[e]
      BY <1>1, <1>4 DEF SurgeInv, BackupsInv, last
    <3>2. CASE e # x
      BY <1>4, <1>6, <1>7, <3>1, <3>2
    <3>3. CASE e = x
      <4>1. Len(Backups) < 2 => cuts'[e] = 0
        BY <1>5, <1>6, <3>1
      <4>2. backedUp'[last][e] <= 1
        BY <1>4, <1>7, <1>9, <3>3
      <4>3. ASSUME NEW b \in ToSet(Backups)
            PROVE  backedUp'[last][e] <= backedUp'[b][e] /\ backedUp'[b][e] <= backedUp'[last][e] + cuts'[e]
        <5>1. cuts'[e] = cuts[e] + cut /\ cut \in {0, 1}
          BY <1>5, <1>6, <3>3
        <5>2. CASE k = Len(Backups)
          <6>1. backedUp'[last][e] = backedUp[last][e] + 1 /\ backedUp'[b][e] = backedUp[b][e] + 1
            <7>1. b \in first /\ last \in first /\ last \in ToSet(Backups)
              BY <1>4, <5>2
            <7> QED BY <1>7, <3>3, <7>1
          <6>2. /\ backedUp[b][e] \in Nat /\ backedUp[last][e] \in Nat /\ cuts[e] \in Nat
                /\ backedUp[last][e] <= backedUp[b][e] /\ backedUp[b][e] <= backedUp[last][e] + cuts[e]
            BY <3>1
          <6>3. \A p, q, c \in Nat, d \in {0, 1} :
                  p <= q /\ q <= p + c => p + 1 <= q + 1 /\ q + 1 <= (p + 1) + (c + d)
            OBVIOUS
          <6>4. /\ backedUp[last][e] + 1 <= backedUp[b][e] + 1
                /\ backedUp[b][e] + 1 <= (backedUp[last][e] + 1) + (cuts[e] + cut)
            BY <5>1, <6>2, <6>3
          <6>5. backedUp'[last][e] <= backedUp'[b][e]
            BY <6>1, <6>4
          <6>6. backedUp'[b][e] <= backedUp'[last][e] + cuts'[e]
            BY <5>1, <6>1, <6>4
          <6> QED BY <6>5, <6>6
        <5>3. CASE k # Len(Backups)
          <6>1. backedUp'[last][e] = backedUp[last][e]
            BY <1>4, <1>7, <5>3
          <6>2. backedUp'[b][e] = backedUp[b][e] \/ (backedUp'[b][e] = backedUp[b][e] + 1 /\ cut = 1)
            BY <1>4, <1>5, <1>7, <5>3
          <6> QED BY <3>1, <5>1, <6>1, <6>2
        <5> QED BY <5>2, <5>3
      <4> QED BY <4>1, <4>2, <4>3
    <3> QED BY <3>2, <3>3
  <2> QED BY <1>1, <1>6, <1>7, <2>1 DEF BackupsInv, last
<1>b. ChannelsInv'
  BY <1>1 DEF ChannelsInv, SurgeInv
<1>11. \A p \in Spots : p # "backed" => Spotted'[p] = Spotted[p]
  <2>1. UNCHANGED <<spc, surgeQueue, inChan, out, drain>>
    BY <1>1
  <2> QED BY <2>1, SpotsAre, SpotsBecome DEF Spots
<1>c. /\ Spotted["backed"] = {e \in Elements : backedUp[last][e] = 1}
      /\ Spotted'["backed"] = {e \in Elements : backedUp'[last][e] = 1}
  BY <1>1, SpotsAre, SpotsBecome DEF last
<1>12. CASE k = Len(Backups)
  <2>1. Spotted'["backed"] = Spotted["backed"] \cup {x}
    <3>1. \A e \in Elements : backedUp'[last][e] = IF e = x THEN 1 ELSE backedUp[last][e]
      BY <1>4, <1>7, <1>9, <1>12
    <3> QED BY <1>2, <1>c, <3>1
  <2>2. /\ StacksInv' /\ ret' \in [Goroutines -> RetSet] /\ x \in Holding[g]
        /\ Holding'[g] = Holding[g] \ {x}
        /\ \A h \in Goroutines : h # g => Holding'[h] = Holding[h]
    <3>1. Return(g, "nil")
      BY <1>3, <1>12
    <3> QED BY <1>1, <1>2, <3>1, ReturnsElement DEF x
  <2>3. Parted(Spotted', Holding')
    <3>1. "backed" \in Spots
      BY DEF Spots
    <3> QED BY <1>11, <2>1, <2>2, <3>1, PartedGives DEF SurgeInv
  <2>4. SurgeTypeOK'
    BY <1>1, <2>2 DEF SurgeInv, SurgeTypeOK, limiter, RetSet
  <2> QED BY <1>10, <1>b, <2>2, <2>3, <2>4 DEF SurgeInv
<1>13. CASE k # Len(Backups)
  <2>1. Spotted'["backed"] = Spotted["backed"]
    <3>1. \A e \in Elements : backedUp'[last][e] = backedUp[last][e]
      BY <1>4, <1>7, <1>13
    <3> QED BY <1>c, <3>1
  <2>2. /\ StacksInv' /\ ret' \in [Goroutines -> RetSet]
        /\ Holding'[g] = Holding[g]
        /\ \A h \in Goroutines : h # g => Holding'[h] = Holding[h]
    <3>1. Return(g, "err")
      BY <1>3, <1>13
    <3> QED BY <1>1, <1>2, <3>1, ReturnsElement DEF x
  <2>3. Parted(Spotted', Holding')
    <3>1. \A p \in Spots : Spotted'[p] = Spotted[p]
      BY <1>11, <2>1
    <3>2. \A h \in Goroutines : Holding'[h] = Holding[h]
      BY <2>2
    <3> QED BY <3>1, <3>2, PartedSame DEF SurgeInv
  <2>4. SurgeTypeOK'
    BY <1>1, <2>2 DEF SurgeInv, SurgeTypeOK, limiter, RetSet
  <2> QED BY <1>10, <1>b, <2>2, <2>3, <2>4 DEF SurgeInv
<1> QED BY <1>12, <1>13

LEMMA ProtectorGoes ==
    ASSUME SurgeInv, NEW g \in Goroutines, ProtectorSubmit(g) \/ LoopTest(g)
    PROVE  SurgeInv'
<1>1. /\ stack[g] # <<>> /\ ret[g] = "none" /\ Top(g).fn = "protector" /\ Top(g).at \in {"enter", "loop"}
      /\ StacksInv /\ ret \in [Goroutines -> RetSet]
  BY DEF ProtectorSubmit, LoopTest, Running, SurgeInv, SurgeTypeOK, RetSet
<1>2. UNCHANGED <<ret, spc, tripped, store, attached, drain>> /\ (attached' => Backups # <<>>)
  <2>1. UNCHANGED <<ret, spc, tripped, store, attached, drain>>
    <3>1. CASE ProtectorSubmit(g)
      BY <3>1 DEF ProtectorSubmit
    <3>2. CASE LoopTest(g)
      BY <3>2 DEF LoopTest
    <3> QED BY <3>1, <3>2
  <2> QED BY <2>1 DEF SurgeInv, BackupsInv
<1>3. Top(g).next = 1
  BY <1>1, TopFacts DEF Proper
<1>4. surgeTokens' \in 0..Capacity /\ due' \in BOOLEAN
  <2>1. surgeTokens \in 0..Capacity /\ due \in BOOLEAN
    BY DEF SurgeInv, SurgeTypeOK
  <2>2. TryTake(TRUE) \/ TryTake(FALSE) \/ UNCHANGED limiter
    BY DEF ProtectorSubmit, LoopTest
  <2>3. CASE UNCHANGED limiter
    BY <2>1, <2>3 DEF limiter
  <2>4. CASE TryTake(TRUE) \/ TryTake(FALSE)
    BY <2>1, <2>4, TryTakeTyped
  <2> QED BY <2>2, <2>3, <2>4
<1>5. SurgeTypeOK'
  BY <1>2, <1>4 DEF SurgeInv, SurgeTypeOK, store
<1>6. PICK at \in {"loop", "own", "pop", "take"} : SurgeGoto(g, at)
  BY DEF ProtectorSubmit, LoopTest
<1>7. at \in FramePlaces /\ at \notin {"popped", "send", "tail"}
  BY DEF FramePlaces
<1>8. StacksInv' /\ \A h \in Goroutines : Holding'[h] = Holding[h]
  BY <1>1, <1>2, <1>3, <1>6, <1>7, GotoKeeps
<1> QED BY <1>2, <1>5, <1>8, AllSame

LEMMA QueueOnly ==
    ASSUME UNCHANGED <<spc, inChan, out, backedUp, drain>>
    PROVE  \A p \in Spots : p # "queue" => Spotted'[p] = Spotted[p]
BY SpotsAre, SpotsBecome DEF Spots

LEMMA LoopPops ==
    ASSUME SurgeInv, NEW g \in Goroutines, LoopPop(g)
    PROVE  SurgeInv'
<1>1. /\ stack[g] # <<>> /\ ret[g] = "none" /\ Top(g).fn = "protector" /\ Top(g).at = "pop"
      /\ UNCHANGED <<ret, spc, tripped, limiter, inChan, out, backedUp, cuts, attached, drain>>
      /\ StacksInv /\ ret \in [Goroutines -> RetSet] /\ (attached' => Backups # <<>>)
      /\ surgeQueue \subseteq Elements
  BY DEF LoopPop, Running, SurgeInv, SurgeTypeOK, RetSet, BackupsInv
<1>2. Top(g) \in FrameSet /\ Top(g).next = 1 /\ Top(g).elem \in Elements
  BY <1>1, TopFacts DEF Proper
<1>3. ASSUME NEW x \in surgeQueue, surgeQueue' = surgeQueue \ {x},
             SetTop(g, [Top(g) EXCEPT !.at = "popped", !.item = x, !.next = 1])
      PROVE SurgeInv'
  <2> DEFINE f == [Top(g) EXCEPT !.at = "popped", !.item = x, !.next = 1]
  <2>1. /\ f \in FrameSet /\ f.at = "popped" /\ f.item = x /\ f.next = 1
        /\ f.fn = "protector" /\ f.elem = Top(g).elem
    BY <1>1, <1>2, <1>3 DEF FrameSet
  <2>2. SetTop(g, f)
    BY <1>3
  <2> HIDE DEF f
  <2>3. HeldTop(Top(g), ret[g]) = {Top(g).elem}
    BY <1>1, <1>2 DEF HeldTop, Handed
  <2>4. "queue" \in Spots /\ x \in Spotted["queue"] /\ x \in Elements
    BY <1>1, <1>3, SpotsAre DEF Spots
  <2>5. x \notin Holding[g]
    BY <2>4 DEF SurgeInv, Parted
  <2>6. Top(g).elem \in Holding[g]
    BY <1>1, <2>3, TopFacts
  <2>7. HeldTop(f, "none") = HeldTop(Top(g), ret[g]) \cup {x}
    BY <2>1, <2>3 DEF HeldTop, Handed
  <2>8. Proper(f) /\ Separate(f, "none")
    BY <2>1, <2>5, <2>6 DEF Proper, Separate
  <2>9. /\ Holding[g] \cup {x} = KeptBelow(stack[g]) \cup HeldTop(f, "none")
        /\ KeptBelow(stack[g]) \cap HeldTop(f, "none") = {}
    BY <1>1, <2>5, <2>7, TopFacts
  <2>10. ret' = [ret EXCEPT ![g] = "none"]
    BY <1>1
  <2>11. /\ StacksInv'
         /\ Holding'[g] = Holding[g] \cup {x}
         /\ \A h \in Goroutines : h # g => Holding'[h] = Holding[h]
    <3>1. /\ StacksInv /\ stack[g] # <<>> /\ UNCHANGED spc /\ ret \in [Goroutines -> RetSet]
          /\ f \in FrameSet /\ f.fn = Top(g).fn /\ f.elem = Top(g).elem
      BY <1>1, <2>1
    <3>2. /\ StacksInv'
          /\ Holding'[g] = KeptBelow(stack[g]) \cup HeldTop(f, "none")
          /\ \A h \in Goroutines : h # g => Holding'[h] = Holding[h]
      BY <2>2, <2>8, <2>9, <2>10, <3>1, FrameGoes
    <3> QED BY <2>9, <3>2
  <2>12. SurgeTypeOK'
    BY <1>1, <1>3 DEF SurgeInv, SurgeTypeOK, limiter
  <2>13. ChannelsInv' /\ BackupsInv'
    BY <1>1 DEF SurgeInv, ChannelsInv, BackupsInv
  <2>14. Spotted'["queue"] = Spotted["queue"] \ {x}
    BY <1>3, SpotsAre, SpotsBecome
  <2>15. \A p \in Spots : p # "queue" => Spotted'[p] = Spotted[p]
    BY <1>1, QueueOnly
  <2>16. Parted(Spotted', Holding')
    BY <2>4, <2>11, <2>14, <2>15, PartedTakes DEF SurgeInv
  <2> QED BY <2>11, <2>12, <2>13, <2>16 DEF SurgeInv
<1>4. CASE UNCHANGED surgeQueue /\ SurgeGoto(g, "take")
  <2>1. SurgeTypeOK'
    BY <1>1, <1>4 DEF SurgeInv, SurgeTypeOK, limiter
  <2>2. UNCHANGED <<store, spc>>
    BY <1>1, <1>4 DEF store
  <2>3. "take" \in FramePlaces
    BY DEF FramePlaces
  <2>4. StacksInv' /\ \A h \in Goroutines : Holding'[h] = Holding[h]
    BY <1>1, <1>2, <1>4, <2>3, GotoKeeps
  <2> QED BY <1>1, <2>1, <2>2, <2>4, AllSame
<1> QED BY <1>3, <1>4 DEF LoopPop

LEMMA TakesOrQueues ==
    ASSUME SurgeInv, NEW g \in Goroutines, TakeOrQueue(g)
    PROVE  SurgeInv'
<1>1. /\ stack[g] # <<>> /\ ret[g] = "none" /\ Top(g).fn = "protector" /\ Top(g).at = "take"
      /\ UNCHANGED <<spc, tripped, inChan, out, backedUp, cuts, attached, drain>>
      /\ StacksInv /\ ret \in [Goroutines -> RetSet] /\ (attached' => Backups # <<>>)
      /\ surgeQueue \subseteq Elements
  BY DEF TakeOrQueue, Running, SurgeInv, SurgeTypeOK, RetSet, BackupsInv
<1>2. Top(g).next = 1 /\ Top(g).elem \in Elements
  BY <1>1, TopFacts DEF Proper
<1>3. surgeTokens' \in 0..Capacity /\ due' \in BOOLEAN
  <2>1. surgeTokens \in 0..Capacity /\ due \in BOOLEAN
    BY DEF SurgeInv, SurgeTypeOK
  <2>2. TryTake(TRUE) \/ TryTake(FALSE)
    BY DEF TakeOrQueue
  <2> QED BY <2>1, <2>2, TryTakeTyped
<1>4. CASE SurgeGoto(g, "own") /\ UNCHANGED <<ret, surgeQueue>>
  <2>1. SurgeTypeOK'
    BY <1>1, <1>3, <1>4 DEF SurgeInv, SurgeTypeOK
  <2>2. UNCHANGED <<store, spc>>
    BY <1>1, <1>4 DEF store
  <2>3. "own" \in FramePlaces
    BY DEF FramePlaces
  <2>4. StacksInv' /\ \A h \in Goroutines : Holding'[h] = Holding[h]
    BY <1>1, <1>2, <1>4, <2>3, GotoKeeps
  <2> QED BY <1>1, <2>1, <2>2, <2>4, AllSame
<1>5. CASE surgeQueue' = surgeQueue \cup {Top(g).elem} /\ Return(g, "nil")
  <2> DEFINE x == Top(g).elem
  <2>1. /\ StacksInv' /\ ret' \in [Goroutines -> RetSet] /\ x \in Holding[g]
        /\ Holding'[g] = Holding[g] \ {x}
        /\ \A h \in Goroutines : h # g => Holding'[h] = Holding[h]
    BY <1>1, <1>2, <1>5, ReturnsElement
  <2>2. SurgeTypeOK'
    BY <1>1, <1>2, <1>3, <1>5, <2>1 DEF SurgeInv, SurgeTypeOK, RetSet
  <2>3. ChannelsInv' /\ BackupsInv'
    BY <1>1 DEF SurgeInv, ChannelsInv, BackupsInv
  <2>4. Spotted'["queue"] = Spotted["queue"] \cup {x}
    BY <1>5, SpotsAre, SpotsBecome
  <2>5. \A p \in Spots : p # "queue" => Spotted'[p] = Spotted[p]
    BY <1>1, QueueOnly
  <2>6. Parted(Spotted', Holding')
    <3>1. "queue" \in Spots
      BY DEF Spots
    <3> HIDE DEF x
    <3> QED BY <2>1, <2>4, <2>5, <3>1, PartedGives DEF SurgeInv
  <2> QED BY <2>1, <2>2, <2>3, <2>6 DEF SurgeInv
<1> QED BY <1>4, <1>5 DEF TakeOrQueue

LEMMA ComponentsGet ==
    ASSUME Len(Components) = 1, SurgeInv, NEW g \in Goroutines, ToComponents(g)
    PROVE  SurgeInv'
<1> DEFINE f == Top(g)
           x == IF f.at = "own" THEN f.elem ELSE f.item
<1>1. /\ stack[g] # <<>> /\ ret[g] = "none" /\ f.fn = "protector" /\ f.at \in {"own", "popped"}
      /\ UNCHANGED <<spc, tripped, limiter, store, attached, drain>>
      /\ StacksInv /\ ret \in [Goroutines -> RetSet] /\ (attached' => Backups # <<>>)
  BY DEF ToComponents, Running, SurgeInv, SurgeTypeOK, RetSet, BackupsInv
<1>2. /\ f \in FrameSet /\ f.next \in {1, 2} /\ f.elem \in Elements /\ f.item \in Elements
      /\ Separate(f, "none") /\ Proper(f)
      /\ Holding[g] = KeptBelow(stack[g]) \cup HeldTop(f, "none")
      /\ KeptBelow(stack[g]) \cap HeldTop(f, "none") = {}
  BY <1>1, TopFacts
<1>3. /\ f.next = 1 => Invoke(g, f.at, Frame("wire", Components[1], x)) /\ UNCHANGED ret
      /\ f.next = 2 /\ f.at = "own" => Return(g, "nil")
      /\ f.next = 2 /\ f.at = "popped" =>
            SetTop(g, [f EXCEPT !.at = "loop", !.item = f.elem, !.next = 1]) /\ UNCHANGED ret
  BY <1>1, <1>2 DEF ToComponents
<1>4. ret' \in [Goroutines -> RetSet] /\ StacksInv' /\ \A h \in Goroutines : Holding'[h] = Holding[h]
  <2>1. CASE f.next = 1
    <3> DEFINE h == Frame("wire", Components[1], x)
    <3>1. /\ h \in FrameSet /\ h.at = "enter" /\ h.fn = "wire" /\ h.elem = x /\ h.next = 1 /\ Proper(h)
      <4>1. Components[1] \in Wires /\ x \in Elements
        BY <1>2, OneComponent
      <4> HIDE DEF x
      <4> QED BY <4>1, NewFrame
    <3>2. stack' = [stack EXCEPT ![g] = Append(SubSeq(@, 1, Len(@) - 1), f) \o <<h>>]
      <4>1. [f EXCEPT !.at = f.at] = f
        BY <1>2 DEF FrameSet
      <4> QED BY <1>3, <2>1, <4>1 DEF Invoke
    <3>3. Awaits(f) /\ Handed(f) = x
      BY <1>1, <2>1 DEF Awaits, Handed
    <3>4. UNCHANGED <<ret, spc>>
      BY <1>1, <1>3, <2>1
    <3>5. f = Top(g) /\ h.fn # f.fn
      BY <1>1, <3>1
    <3> HIDE DEF h, x, f
    <3>6. StacksInv' /\ \A i \in Goroutines : Holding'[i] = Holding[i]
      BY <1>1, <1>2, <3>1, <3>2, <3>3, <3>4, <3>5, FrameCalls
    <3> QED BY <1>1, <3>4, <3>6
  <2>2. CASE f.next = 2 /\ f.at = "own"
    <3>1. stack' = [stack EXCEPT ![g] = Front(@)] /\ ret' = [ret EXCEPT ![g] = "nil"]
      BY <1>3, <2>2 DEF Return
    <3>2. HeldTop(f, "none") = {}
      BY <2>2 DEF HeldTop
    <3>3. /\ StacksInv'
          /\ Holding'[g] = KeptBelow(stack[g]) \cup {}
          /\ \A h \in Goroutines : h # g => Holding'[h] = Holding[h]
      BY <1>1, <3>1, FrameReturns
    <3>4. ret' \in [Goroutines -> RetSet]
      BY <1>1, <3>1 DEF RetSet
    <3> QED BY <1>2, <3>2, <3>3, <3>4
  <2>3. CASE f.next = 2 /\ f.at = "popped"
    <3> DEFINE h == [f EXCEPT !.at = "loop", !.item = f.elem, !.next = 1]
    <3>1. h \in FrameSet /\ h.at = "loop" /\ h.fn = f.fn /\ h.elem = f.elem /\ h.next = 1
      BY <1>2 DEF FrameSet
    <3>2. SetTop(g, h) /\ UNCHANGED ret
      BY <1>3, <2>3
    <3> HIDE DEF h
    <3>3. Proper(h) /\ Separate(h, "none")
      BY <1>1, <3>1 DEF Proper, Separate
    <3>4. HeldTop(h, "none") = HeldTop(f, "none")
      BY <1>1, <2>3, <3>1 DEF HeldTop, Handed
    <3>5. ret' = [ret EXCEPT ![g] = "none"]
      BY <1>1, <3>2
    <3>6. /\ StacksInv'
          /\ Holding'[g] = KeptBelow(stack[g]) \cup HeldTop(h, "none")
          /\ \A i \in Goroutines : i # g => Holding'[i] = Holding[i]
      <4>1. /\ StacksInv /\ stack[g] # <<>> /\ UNCHANGED spc /\ ret \in [Goroutines -> RetSet]
            /\ h.fn = Top(g).fn /\ h.elem = Top(g).elem /\ h \in FrameSet /\ SetTop(g, h)
        BY <1>1, <3>1, <3>2
      <4>2. KeptBelow(stack[g]) \cap HeldTop(h, "none") = {}
        BY <1>2, <3>4
      <4> HIDE DEF f
      <4> QED BY <3>3, <3>5, <4>1, <4>2, FrameGoes
    <3> QED BY <1>1, <1>2, <3>2, <3>4, <3>6
  <2> QED BY <1>1, <1>2, <2>1, <2>2, <2>3
<1>5. SurgeTypeOK'
  BY <1>1, <1>4 DEF SurgeInv, SurgeTypeOK, limiter, store, RetSet
<1> QED BY <1>1, <1>4, <1>5, AllSame

LEMMA ResumeGoes ==
    ASSUME SurgeInv, NEW g \in Goroutines, Resume(g)
    PROVE  SurgeInv'
<1> DEFINE f == Top(g)
<1>1. /\ stack[g] # <<>> /\ ret[g] # "none"
      /\ UNCHANGED <<spc, tripped, limiter, inChan, out, backedUp, cuts, attached, drain>>
      /\ StacksInv /\ ret \in [Goroutines -> RetSet] /\ (attached' => Backups # <<>>)
      /\ surgeQueue \subseteq Elements
  BY DEF Resume, SurgeInv, SurgeTypeOK, RetSet, BackupsInv
<1>2. /\ f \in FrameSet /\ f.next = 1 /\ f.elem \in Elements /\ f.item \in Elements
      /\ Separate(f, ret[g]) /\ Proper(f) /\ f.at \in {"tail", "own", "popped"}
      /\ Holding[g] = KeptBelow(stack[g]) \cup HeldTop(f, ret[g])
      /\ KeptBelow(stack[g]) \cap HeldTop(f, ret[g]) = {}
      /\ ret[g] \in {"nil", "err"}
  BY <1>1, TopFacts DEF Awaits, RetSet
<1>3. ASSUME f.fn = "wire" \/ (ret[g] = "err" /\ f.at = "own"),
             stack' = [stack EXCEPT ![g] = Front(@)], UNCHANGED <<ret, surgeQueue>>
      PROVE SurgeInv'
  <2>1. f.at # "popped"
    BY <1>2, <1>3 DEF Proper
  <2>2. HeldTop(f, ret[g]) = IF ret[g] = "err" THEN {f.elem} ELSE {}
    BY <1>2, <2>1 DEF HeldTop, Handed
  <2>3. ret' = [ret EXCEPT ![g] = ret[g]]
    BY <1>1, <1>3
  <2>4. /\ StacksInv'
        /\ Holding'[g] = KeptBelow(stack[g]) \cup (IF ret[g] = "err" THEN {f.elem} ELSE {})
        /\ \A h \in Goroutines : h # g => Holding'[h] = Holding[h]
    BY <1>1, <1>2, <1>3, <2>2, <2>3, FrameReturns
  <2>5. \A h \in Goroutines : Holding'[h] = Holding[h]
    BY <1>2, <2>2, <2>4
  <2>6. SurgeTypeOK'
    BY <1>1, <1>3 DEF SurgeInv, SurgeTypeOK, limiter
  <2>7. UNCHANGED <<store, spc>>
    BY <1>1, <1>3 DEF store
  <2> QED BY <1>1, <2>4, <2>5, <2>6, <2>7, AllSame
<1>4. ASSUME f.fn = "protector", ret[g] = "err", f.at = "popped", surgeQueue' = surgeQueue \cup {f.item},
             stack' = [stack EXCEPT ![g] = Front(@)], UNCHANGED ret
      PROVE SurgeInv'
  <2> DEFINE x == f.item
  <2>1. HeldTop(f, ret[g]) = {f.elem, x} /\ x # f.elem
    BY <1>2, <1>4 DEF HeldTop, Handed, Separate
  <2>2. ret' = [ret EXCEPT ![g] = "err"]
    BY <1>1, <1>4
  <2>3. /\ StacksInv'
        /\ Holding'[g] = KeptBelow(stack[g]) \cup {f.elem}
        /\ \A h \in Goroutines : h # g => Holding'[h] = Holding[h]
    BY <1>1, <1>4, <2>1, <2>2, FrameReturns
  <2>4. x \in Holding[g] /\ Holding'[g] = Holding[g] \ {x}
    BY <1>2, <2>1, <2>3
  <2>5. SurgeTypeOK'
    BY <1>1, <1>2, <1>4 DEF SurgeInv, SurgeTypeOK, limiter
  <2>6. ChannelsInv' /\ BackupsInv'
    BY <1>1 DEF SurgeInv, ChannelsInv, BackupsInv
  <2>7. Spotted'["queue"] = Spotted["queue"] \cup {x}
    BY <1>4, SpotsAre, SpotsBecome
  <2>8. \A p \in Spots : p # "queue" => Spotted'[p] = Spotted[p]
    BY <1>1, QueueOnly
  <2>9. Parted(Spotted', Holding')
    <3>1. "queue" \in Spots
      BY DEF Spots
    <3> HIDE DEF x
    <3> QED BY <2>3, <2>4, <2>7, <2>8, <3>1, PartedGives DEF SurgeInv
  <2> QED BY <2>3, <2>5, <2>6, <2>9 DEF SurgeInv
<1>5. ASSUME f.fn = "protector", ret[g] = "nil", SetTop(g, [f EXCEPT !.next = @ + 1]),
             ret' = [ret EXCEPT ![g] = "none"], UNCHANGED surgeQueue
      PROVE SurgeInv'
  <2> DEFINE h == [f EXCEPT !.next = @ + 1]
  <2>1. /\ h \in FrameSet /\ h.next = 2 /\ h.fn = f.fn /\ h.elem = f.elem /\ h.at = f.at
    BY <1>2 DEF FrameSet
  <2>2. SetTop(g, h)
    BY <1>5
  <2> HIDE DEF h
  <2>3. f.at \in {"own", "popped"}
    BY <1>2, <1>5 DEF Proper
  <2>4. Proper(h) /\ Separate(h, "none")
    BY <1>5, <2>1, <2>3 DEF Proper, Separate
  <2>5. HeldTop(h, "none") = HeldTop(f, ret[g])
    BY <1>5, <2>1 DEF HeldTop
  <2>6. /\ StacksInv'
        /\ Holding'[g] = KeptBelow(stack[g]) \cup HeldTop(h, "none")
        /\ \A i \in Goroutines : i # g => Holding'[i] = Holding[i]
    <3>1. /\ StacksInv /\ stack[g] # <<>> /\ UNCHANGED spc /\ ret \in [Goroutines -> RetSet]
          /\ h.fn = Top(g).fn /\ h.elem = Top(g).elem /\ h \in FrameSet
      BY <1>1, <2>1
    <3>2. KeptBelow(stack[g]) \cap HeldTop(h, "none") = {}
      BY <1>2, <2>5
    <3> HIDE DEF f
    <3> QED BY <1>5, <2>2, <2>4, <3>1, <3>2, FrameGoes
  <2>7. SurgeTypeOK'
    <3>1. ret' \in [Goroutines -> {"none", "nil", "err"}]
      BY <1>1, <1>5 DEF RetSet
    <3> QED BY <1>1, <1>5, <3>1 DEF SurgeInv, SurgeTypeOK, limiter
  <2>8. UNCHANGED <<store, spc>>
    BY <1>1, <1>5 DEF store
  <2>9. \A i \in Goroutines : Holding'[i] = Holding[i]
    BY <1>2, <2>5, <2>6
  <2> QED BY <1>1, <2>6, <2>7, <2>8, <2>9, AllSame
<1> QED BY <1>3, <1>4, <1>5 DEF Resume

LEMMA SurgeInvInit ==
    ASSUME Len(Components) = 1
    PROVE  SurgeInit => SurgeInv
<1> SUFFICES ASSUME SurgeInit PROVE SurgeInv
  OBVIOUS
<1>1. Wires = {TheWire} /\ Goroutines \cap {"new", "nil", "err"} = {} /\ Capacity \in Nat /\ Buffer \in Nat
  BY OneComponent, ShapeAssumption
<1>2. SurgeTypeOK
  <2>1. /\ ret \in [Goroutines -> {"none", "nil", "err"}]
        /\ spc \in [Elements -> {"new", "nil", "err"} \cup Goroutines]
        /\ drain \in [Wires -> {"select", "taken", "missed", "exited"} \cup Elements]
    BY DEF SurgeInit
  <2>2. surgeTokens \in 0..Capacity /\ surgeQueue \subseteq Elements /\ \A w \in Wires : Len(inChan[w]) <= Buffer
    BY <1>1 DEF SurgeInit
  <2>3. tripped \in BOOLEAN /\ due \in BOOLEAN /\ attached \in BOOLEAN
    BY DEF SurgeInit
  <2> QED BY <2>1, <2>2, <2>3 DEF SurgeTypeOK
<1>3. \A g \in Goroutines : stack[g] = <<>> /\ ret[g] = "none" /\ Own(g) = {}
  BY <1>1 DEF SurgeInit, Own
<1>4. GoodStack(<<>>, "none", {}) /\ Held(<<>>, "none", {}) = {}
  BY EmptyStack
<1>5. DOMAIN stack = Goroutines
  BY DEF SurgeInit
<1>6. StacksInv
  BY <1>3, <1>4, <1>5 DEF StacksInv
<1>7. \A g \in Goroutines : Holding[g] = {}
  BY <1>3, <1>4 DEF Holding
<1>8. ChannelsInv
  <2>1. inChan \in [Wires -> Seq(ItemSet)] /\ out \in Seq(ItemSet) /\ inChan[TheWire] = <<>> /\ out = <<>>
    BY <1>1 DEF SurgeInit
  <2>2. EachOnce(<<>>)
    BY DEF EachOnce
  <2> QED BY <2>1, <2>2 DEF ChannelsInv
<1>9. BackupsInv
  <2>1. Backups # <<>> => Backups[Len(Backups)] \in ToSet(Backups)
    <3> SUFFICES ASSUME Backups # <<>> PROVE Backups[Len(Backups)] \in ToSet(Backups)
      OBVIOUS
    <3>1. Backups \in Seq(ToSet(Backups))
      BY ShapeAssumption
    <3>2. Len(Backups) \in 1..Len(Backups)
      BY <3>1
    <3> QED BY <3>1, <3>2, ElementOfSeq
  <2>2. Backups # <<>> => LastBackup \in ToSet(Backups)
    BY <2>1 DEF LastBackup
  <2>3. backedUp = [b \in ToSet(Backups) |-> [e \in Elements |-> 0]] /\ cuts = [e \in Elements |-> 0] /\ ~attached
    BY DEF SurgeInit
  <2>4. ASSUME NEW b \in ToSet(Backups) PROVE Backups # <<>>
    BY ShapeAssumption DEF ToSet
  <2> QED BY <2>2, <2>3, <2>4 DEF BackupsInv
<1>10. Parted(Spotted, Holding)
  <2>1. Spotted["none"] = Elements
    BY SpotsAre DEF SurgeInit
  <2>2. Spotted["queue"] = {}
    BY SpotsAre DEF SurgeInit
  <2>3. Spotted["out"] = {} /\ Spotted["chan"] = {}
    <3>1. out = <<>> /\ inChan[TheWire] = <<>>
      BY <1>1 DEF SurgeInit
    <3>2. ElemsOf(<<>>) = {}
      BY DEF ElemsOf
    <3> QED BY <3>1, <3>2, SpotsAre
  <2>4. Spotted["drain"] = {}
    <3>1. drain[TheWire] \in {"select", "exited"}
      BY <1>1 DEF SurgeInit
    <3> QED BY <3>1, SpotsAre, ShapeAssumption
  <2>5. Spotted["backed"] = {}
    <3> SUFFICES ASSUME Backups # <<>>, NEW e \in Elements, backedUp[LastBackup][e] = 1 PROVE FALSE
      BY SpotsAre
    <3>1. Backups \in Seq(ToSet(Backups))
      BY ShapeAssumption
    <3>2. Len(Backups) \in 1..Len(Backups)
      BY <3>1
    <3>3. LastBackup \in ToSet(Backups)
      BY <3>1, <3>2, ElementOfSeq DEF LastBackup
    <3>4. backedUp[LastBackup][e] = 0
      BY <3>3 DEF SurgeInit
    <3> QED BY <3>4
  <2>6. \A p \in Spots : p # "none" => Spotted[p] = {}
    BY <2>2, <2>3, <2>4, <2>5 DEF Spots
  <2>7. "none" \in Spots
    BY DEF Spots
  <2> QED BY <1>7, <2>1, <2>6, <2>7 DEF Parted
<1> QED BY <1>2, <1>6, <1>8, <1>9, <1>10 DEF SurgeInv

LEMMA SurgeInvNext ==
    ASSUME Len(Components) = 1
    PROVE  SurgeInv /\ [SurgeNext]_surgeVars => SurgeInv'
<1> SUFFICES ASSUME SurgeInv, [SurgeNext]_surgeVars PROVE SurgeInv'
  OBVIOUS
<1>1. ASSUME NEW g \in Goroutines, Step(g) PROVE SurgeInv'
  BY <1>1, DoneEnds, WireSubmits, WireSends, BackupsTake, ProtectorGoes, LoopPops, TakesOrQueues,
     ComponentsGet, ResumeGoes DEF Step
<1>2. ASSUME NEW g \in Goroutines, NEW e \in Elements, Call(g, e) PROVE SurgeInv'
  BY <1>2, CallStarts
<1>3. ASSUME NEW w \in Wires, DrainTick(w) \/ DrainPop(w) \/ DrainMissed(w) \/ DrainSend(w) \/ Work(w)
      PROVE SurgeInv'
  BY <1>3, DrainIdles, DrainPops, DrainSends, WorkMoves
<1>4. CASE SurgeTick \/ Trip \/ Reset \/ AttachBackup \/ DetachBackups
  BY <1>4, ControlKeeps
<1>5. CASE UNCHANGED surgeVars
  <2>1. UNCHANGED <<stack, ret, spc, tripped, limiter, store, attached, drain>>
    BY <1>5 DEF surgeVars
  <2>2. SurgeTypeOK' /\ (attached' => Backups # <<>>)
    BY <2>1 DEF SurgeInv, SurgeTypeOK, BackupsInv, limiter, store
  <2>3. StacksInv' /\ \A g \in Goroutines : Holding'[g] = Holding[g]
    BY <2>1, StacksSame DEF SurgeInv
  <2> QED BY <2>1, <2>2, <2>3, AllSame
<1> QED BY <1>1, <1>2, <1>3, <1>4, <1>5 DEF SurgeNext

\* A set counts one or none.
LEMMA CountsOne ==
    ASSUME NEW S, \A x, y \in S : x = y
    PROVE  Cardinality(S) = CountIf(S # {})
<1>1. CASE S = {}
  BY <1>1, FS_EmptySet DEF CountIf
<1>2. CASE S # {}
  <2>1. PICK x \in S : TRUE
    BY <1>2
  <2>2. S = {x}
    BY <2>1
  <2> QED BY <1>2, <2>2, FS_Singleton DEF CountIf
<1> QED BY <1>1, <1>2

LEMMA CountsElems ==
    ASSUME NEW s \in Seq(ItemSet), EachOnce(s), NEW e \in Elements
    PROVE  CountIn(s, e) = CountIf(e \in ElemsOf(s))
<1> DEFINE S == {i \in DOMAIN s : s[i].elem = e}
<1>1. DOMAIN s = 1..Len(s)
  OBVIOUS
<1>2. \A x, y \in S : x = y
  BY <1>1 DEF EachOnce
<1>3. S # {} <=> e \in ElemsOf(s)
  BY <1>1 DEF ElemsOf
<1>4. CountIn(s, e) = Cardinality(S)
  BY DEF CountIn
<1> HIDE DEF S
<1>5. Cardinality(S) = CountIf(S # {})
  BY <1>2, CountsOne
<1> QED BY <1>3, <1>4, <1>5 DEF CountIf

\* With every element in one place, the copies are counted by the places.
LEMMA CopiesCounted ==
    ASSUME Len(Components) = 1, SurgeInv, NEW e \in Elements
    PROVE  Copies(e) = CountIf(e \in Spotted["queue"]) + CountIf(e \in Spotted["out"])
                        + CountIf(e \in Spotted["chan"]) + CountIf(e \in Spotted["drain"])
                        + CountIf(e \in Spotted["backed"])
<1> DEFINE P == {p \in Wires \X (1..Buffer) : p[2] <= Len(inChan[p[1]]) /\ inChan[p[1]][p[2]].elem = e}
           D == {w \in Wires : drain[w] = e}
           s == inChan[TheWire]
<1>1. /\ Wires = {TheWire} /\ s \in Seq(ItemSet) /\ EachOnce(s) /\ out \in Seq(ItemSet) /\ EachOnce(out)
      /\ Len(s) \in Nat /\ Len(s) <= Buffer /\ Buffer \in Nat /\ DOMAIN backedUp = ToSet(Backups)
  <2>1. Wires = {TheWire}
    BY OneComponent
  <2> QED BY <2>1, ShapeAssumption DEF SurgeInv, ChannelsInv, SurgeTypeOK, BackupsInv
<1>2. CountIn(out, e) = CountIf(e \in Spotted["out"])
  BY <1>1, CountsElems, SpotsAre
<1>3. Cardinality(P) = CountIf(e \in Spotted["chan"])
  <2>1. \A p \in P : p = <<TheWire, p[2]>> /\ p[2] \in 1..Len(s) /\ s[p[2]].elem = e
    BY <1>1
  <2>2. \A p, q \in P : p = q
    <3> TAKE p, q \in P
    <3>1. p[2] = q[2]
      BY <2>1 DEF EachOnce, ChannelsInv, SurgeInv
    <3> QED BY <2>1, <3>1
  <2>3. ASSUME NEW i \in 1..Len(s), s[i].elem = e PROVE <<TheWire, i>> \in P
    BY <1>1, <2>3
  <2>4. P # {} <=> e \in ElemsOf(s)
    <3>1. P # {} => e \in ElemsOf(s)
      BY <2>1 DEF ElemsOf
    <3>2. e \in ElemsOf(s) => P # {}
      <4> HIDE DEF P
      <4> QED BY <2>3 DEF ElemsOf
    <3> QED BY <3>1, <3>2
  <2> HIDE DEF P
  <2>5. Cardinality(P) = CountIf(P # {})
    BY <2>2, CountsOne
  <2> QED BY <2>4, <2>5, SpotsAre DEF CountIf
<1>4. Cardinality(D) = CountIf(e \in Spotted["drain"])
  <2>1. \A x, y \in D : x = y
    BY <1>1
  <2>2. D # {} <=> e \in Spotted["drain"]
    BY <1>1, SpotsAre
  <2> HIDE DEF D
  <2>3. Cardinality(D) = CountIf(D # {})
    BY <2>1, CountsOne
  <2> QED BY <2>2, <2>3 DEF CountIf
<1>5. (IF Backups = <<>> THEN 0 ELSE backedUp[Last(Backups)][e]) = CountIf(e \in Spotted["backed"])
  <2>1. CASE Backups = <<>>
    BY <2>1, SpotsAre DEF CountIf
  <2>2. CASE Backups # <<>>
    <3>1. Backups \in Seq(ToSet(Backups)) /\ Len(Backups) \in 1..Len(Backups)
      BY <2>2, ShapeAssumption
    <3>2. LastBackup \in ToSet(Backups) /\ Last(Backups) = LastBackup
      BY <3>1, ElementOfSeq DEF LastBackup, Last
    <3>3. backedUp[LastBackup][e] \in Nat /\ backedUp[LastBackup][e] <= 1
      BY <2>2, <3>2 DEF SurgeInv, BackupsInv
    <3> QED BY <2>2, <3>2, <3>3, SpotsAre DEF CountIf
  <2> QED BY <2>1, <2>2
<1>6. CountIf(e \in surgeQueue) = CountIf(e \in Spotted["queue"])
  BY SpotsAre
<1>7. Copies(e) = CountIf(e \in surgeQueue) + CountIn(out, e) + Cardinality(P) + Cardinality(D)
                    + (IF Backups = <<>> THEN 0 ELSE backedUp[Last(Backups)][e])
  BY DEF Copies
<1> HIDE DEF P, D
<1> QED BY <1>2, <1>3, <1>4, <1>5, <1>6, <1>7

\* An element that a goroutine holds is in flight.
LEMMA HeldInFlight ==
    ASSUME SurgeInv, NEW g \in Goroutines, NEW e \in Holding[g]
    PROVE  InFlight(e)
<1>1. StacksInv /\ Holding[g] = Held(stack[g], ret[g], Own(g)) /\ stack[g] \in Seq(FrameSet)
  BY DEF SurgeInv, StacksInv, GoodStack, Called, Holding
<1>2. CASE stack[g] = <<>>
  <2>1. e \in Own(g)
    BY <1>1, <1>2 DEF Held, Kept, Live
  <2> QED BY <2>1 DEF InFlight, Own
<1>3. CASE stack[g] # <<>>
  <2>1. Len(stack[g]) \in 1..Len(stack[g]) /\ DOMAIN stack[g] = 1..Len(stack[g])
    BY <1>1, <1>3
  <2>2. e \in Kept(stack[g]) \/ e = Handed(stack[g][Len(stack[g])])
    BY <1>1, <1>3 DEF Held, Live
  <2>3. CASE e \in Kept(stack[g])
    BY <2>1, <2>3 DEF Kept, InFlight
  <2>4. CASE e = Handed(stack[g][Len(stack[g])])
    BY <2>1, <2>4 DEF Handed, InFlight
  <2> QED BY <2>2, <2>3, <2>4
<1> QED BY <1>2, <1>3

LEMMA SurgeInvSound ==
    ASSUME Len(Components) = 1
    PROVE  SurgeInv => SurgeSound
<1> SUFFICES ASSUME SurgeInv, NEW e \in Elements
             PROVE  Copies(e) <= 1 /\ (~InFlight(e) => Copies(e) = CountIf(spc[e] = "nil"))
  <2>1. ASSUME SurgeInv, NEW e \in Elements
        PROVE  /\ Len(Backups) < 2 => cuts[e] = 0
               /\ \A b \in DOMAIN backedUp :
                    LET whole == backedUp[Last(Backups)][e]
                    IN  whole <= backedUp[b][e] /\ backedUp[b][e] <= whole + cuts[e]
    BY <2>1 DEF SurgeInv, BackupsInv, LastBackup, Last
  <2> QED BY <2>1 DEF SurgeSound, AcceptedOnce, SurgeInv
<1>1. Copies(e) = CountIf(e \in Spotted["queue"]) + CountIf(e \in Spotted["out"])
                    + CountIf(e \in Spotted["chan"]) + CountIf(e \in Spotted["drain"])
                    + CountIf(e \in Spotted["backed"])
  BY CopiesCounted
<1>2. \A p, q \in Spots : e \in Spotted[p] /\ e \in Spotted[q] => p = q
  BY DEF SurgeInv, Parted
<1>3. Copies(e) <= 1
  BY <1>1, <1>2 DEF Spots, CountIf
<1>4. ASSUME ~InFlight(e) PROVE Copies(e) = CountIf(spc[e] = "nil")
  <2>1. spc[e] \in {"new", "nil", "err"}
    BY <1>4 DEF InFlight, SurgeInv, SurgeTypeOK
  <2>2. \A g \in Goroutines : e \notin Holding[g]
    BY <1>4, HeldInFlight
  <2>3. PICK p \in Spots : e \in Spotted[p]
    BY <2>2 DEF SurgeInv, Parted
  <2>4. \A q \in Spots : e \in Spotted[q] <=> q = p
    BY <1>2, <2>3
  <2>5. p = "none" <=> spc[e] # "nil"
    <3>1. e \in Spotted["none"] <=> spc[e] # "nil"
      BY <2>1, SpotsAre
    <3> QED BY <2>4, <3>1 DEF Spots
  <2>6. CASE p = "none"
    BY <1>1, <2>4, <2>5, <2>6 DEF Spots, CountIf
  <2>7. CASE p # "none"
    BY <1>1, <2>4, <2>5, <2>7 DEF Spots, CountIf
  <2> QED BY <2>6, <2>7
<1> QED BY <1>3, <1>4

\* However Wire.Submit, the protector, the resister, the backups and the drain loop pass
\* elements around, in calls nested to any depth and of any number of goroutines: the
\* queue, the wire, its output and the last backup have one copy of an element at most,
\* and once nobody handles it one exactly if its Submit returned nil; any other backup
\* has besides it at most one for each round that a later backup cut short. One wire:
\* with more, every one of them is handed the element.
THEOREM SurgeSafe ==
    ASSUME Len(Components) = 1
    PROVE  SurgeSpec => []SurgeSound
<1>1. SurgeInit => SurgeInv
  BY SurgeInvInit
<1>2. SurgeInv /\ [SurgeNext]_surgeVars => SurgeInv'
  BY SurgeInvNext
<1>3. SurgeInv => SurgeSound
  BY SurgeInvSound
<1> QED BY <1>1, <1>2, <1>3, PTL DEF SurgeSpec
=============================================================================
