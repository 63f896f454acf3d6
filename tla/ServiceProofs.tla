---------------------------- MODULE ServiceProofs ----------------------------
(***************************************************************************)
(* Proofs about the services around the data flow, for any number of        *)
(* callers and any times: the token source, the key cache, the Kafka        *)
(* reader, the log sink, configuration, sensors and meter, authentication,  *)
(* and what payloads go through between the two ends of a relay or a store. *)
(***************************************************************************)
EXTENDS Authentication, TokenSource, KeyCache, KafkaReader, RelaySink, Configuration, Sensor,
        Payload, FiniteSetTheorems, SequenceTheorems, TLAPS

-----------------------------------------------------------------------------
(* The token source. *)

TokenTypeOK ==
    /\ tokenClock \in Nat /\ cachedDies \in Nat /\ cachedExp \in Nat
    /\ tokAt \in [TokenCalls -> {"new", "ask", "answered", "failed", "returned"}]
    /\ tokDies \in [TokenCalls -> Nat] /\ counted \in [TokenCalls -> {Life, DefaultLife}]
    /\ issuedAt \in [TokenCalls -> Nat] /\ returnedAt \in [TokenCalls -> Nat]

\* The source overrates the life of its token by at most the time of an answer.
CacheHonest == cachedExp > 0 => cachedExp <= cachedDies + Latency

\* An answer on its way is no older than the timeout.
AnswersYoung ==
    \A c \in TokenCalls : tokAt[c] = "answered" =>
        tokDies[c] = issuedAt[c] + Life /\ tokenClock <= issuedAt[c] + Latency

TokenInv == TokenTypeOK /\ CacheHonest /\ AnswersYoung /\ TokenLives

LEMMA TokenInvInit == TokenInit => TokenInv
BY TokenAssumption DEF TokenInit, TokenInv, TokenTypeOK, CacheHonest, AnswersYoung, TokenLives

LEMMA TokenInvNext == TokenInv /\ [TokenNext]_tokenVars => TokenInv'
<1> SUFFICES ASSUME TokenInv, [TokenNext]_tokenVars PROVE TokenInv'
  OBVIOUS
<1> USE TokenAssumption
    DEF TokenInv, TokenTypeOK, CacheHonest, AnswersYoung, TokenLives, TokTo, TokReturns
<1>1. CASE TokenTick
  BY <1>1 DEF TokenTick
<1>2. ASSUME NEW c \in TokenCalls, AccessToken(c) PROVE TokenInv'
  <2>1. CASE tokenClock + Skew < cachedExp
    BY <1>2, <2>1 DEF AccessToken
  <2>2. CASE ~(tokenClock + Skew < cachedExp)
    BY <1>2, <2>2 DEF AccessToken
  <2> QED BY <2>1, <2>2
<1>3. ASSUME NEW c \in TokenCalls, TokenAnswer(c) PROVE TokenInv'
  BY <1>3 DEF TokenAnswer
<1>4. ASSUME NEW c \in TokenCalls, StoreToken(c) PROVE TokenInv'
  BY <1>4 DEF StoreToken
<1>5. CASE UNCHANGED tokenVars
  BY <1>5 DEF tokenVars
<1> QED BY <1>1, <1>2, <1>3, <1>4, <1>5 DEF TokenNext, TokenStep

\* No token AccessToken returns has expired, whatever the order in which
\* overlapping answers are stored, as long as the leeway covers the timeout.
THEOREM TokensAlive == TokenSpec => []TokenLives
<1>1. TokenInv => TokenLives
  BY DEF TokenInv
<1> QED BY <1>1, TokenInvInit, TokenInvNext, PTL DEF TokenSpec

-----------------------------------------------------------------------------
(* The key cache. *)

JwtPlaces == {"new", "keys", "fetch", "store", "have", "verified", "mismatch", "unknown", "failed"}

KeyTypeOK ==
    /\ keyClock \in 0..MaxKeyClock /\ oldest \in 1..MaxKey /\ current \in 1..MaxKey
    /\ oldest <= current
    /\ retiredAt \in [1..MaxKey -> Nat]
    /\ keys \in SUBSET (1..MaxKey) /\ expires \in Nat
    /\ jwtAt \in [JwtCalls -> JwtPlaces]
    /\ signer \in [JwtCalls -> 1..MaxKey] /\ kid \in [JwtCalls -> 0..MaxKey]
    /\ forced \in [JwtCalls -> BOOLEAN] /\ asked \in [JwtCalls -> Nat]
    /\ fetched \in [JwtCalls -> SUBSET (1..MaxKey)] /\ chosen \in [JwtCalls -> 0..MaxKey]
    /\ seenOldest \in [JwtCalls -> 0..MaxKey] /\ seenCurrent \in [JwtCalls -> 0..MaxKey]

\* A key is retired at a time in the past, or still to come.
RetiredInPast ==
    /\ \A k \in 1..MaxKey : k < oldest => retiredAt[k] <= keyClock
    /\ \A k \in 1..MaxKey : k >= oldest => retiredAt[k] = NotYet

\* The cache is not used after the cache time of a retired key in it.
CacheYoung ==
    /\ expires <= keyClock + KeysTTL
    /\ \A k \in keys : expires <= retiredAt[k] + KeysTTL

\* What a call was given, and what it began with.
YoungCall(c) ==
    /\ asked[c] <= keyClock
    /\ jwtAt[c] # "new" => seenOldest[c] <= oldest /\ seenCurrent[c] <= current
    /\ jwtAt[c] = "store" => \A k \in fetched[c] : asked[c] <= retiredAt[k]
    /\ jwtAt[c] = "have" => \A k \in fetched[c] : asked[c] < retiredAt[k] + KeysTTL
    /\ jwtAt[c] \in {"verified", "mismatch"} => chosen[c] # 0
    /\ kid[c] \in {0, signer[c]}
CallsYoung == \A c \in JwtCalls : YoungCall(c)

\* A forced fetch brings the keys served at one moment after the call began.
Later(c, a, b) == seenOldest[c] <= a /\ seenCurrent[c] <= b /\ a <= oldest /\ b <= current
ForcedFresh ==
    \A c \in JwtCalls :
        /\ forced[c] => jwtAt[c] # "new"
        /\ forced[c] /\ jwtAt[c] \in {"store", "have"} =>
              \E a, b \in 1..MaxKey : Later(c, a, b) /\ fetched[c] = a..b

KeyInv == KeyTypeOK /\ RetiredInPast /\ CacheYoung /\ CallsYoung /\ ForcedFresh /\ KeysFresh

LEMMA KeyInvInit == KeyInit => KeyInv
BY KeyAssumption
   DEF KeyInit, KeyInv, KeyTypeOK, RetiredInPast, CacheYoung, CallsYoung, YoungCall, ForcedFresh,
       KeysFresh, JwtPlaces, NotYet

LEMMA KeyInvNext == KeyInv /\ [KeyNext]_keyVars => KeyInv'
<1> SUFFICES ASSUME KeyInv, [KeyNext]_keyVars PROVE KeyInv'
  OBVIOUS
<1> USE KeyAssumption
    DEF KeyInv, KeyTypeOK, RetiredInPast, CacheYoung, CallsYoung, YoungCall, ForcedFresh, KeysFresh,
        JwtPlaces, NotYet, JwtTo, provider, bearer, ServedThroughout, Served, Later
<1>1. CASE KeyTick
  <2> USE DEF KeyTick
  <2>1. KeyTypeOK' /\ RetiredInPast' /\ CacheYoung'
    BY <1>1
  <2>2. CallsYoung'
    BY <1>1
  <2>3. ForcedFresh'
    <3> HIDE DEF KeyTypeOK, RetiredInPast, CacheYoung, CallsYoung, KeysFresh, JwtPlaces
    <3> QED BY <1>1
  <2>4. KeysFresh'
    <3> HIDE DEF KeyTypeOK, RetiredInPast, CacheYoung, CallsYoung, ForcedFresh, JwtPlaces
    <3> QED BY <1>1
  <2> QED BY <2>1, <2>2, <2>3, <2>4
<1>2. CASE Rotate
  <2> USE DEF Rotate
  <2>1. KeyTypeOK' /\ RetiredInPast' /\ CacheYoung'
    BY <1>2
  <2>2. CallsYoung'
    BY <1>2
  <2>3. ForcedFresh'
    <3> SUFFICES ASSUME NEW c \in JwtCalls
                 PROVE  /\ forced[c] => jwtAt[c] # "new"
                        /\ forced[c] /\ jwtAt[c] \in {"store", "have"} =>
                             \E a, b \in 1..MaxKey : Later(c, a, b)' /\ fetched[c] = a..b
      BY <1>2
    <3>1. \A a, b \in 1..MaxKey : Later(c, a, b) => Later(c, a, b)'
      BY <1>2
    <3> HIDE DEF Later
    <3> QED BY <3>1
  <2>4. KeysFresh'
    <3> SUFFICES ASSUME NEW c \in JwtCalls
                 PROVE  /\ jwtAt[c] \in {"unknown", "mismatch"} /\ kid[c] # 0 => ~ServedThroughout(c, kid[c])'
                        /\ jwtAt[c] = "unknown" /\ kid[c] = 0 => seenCurrent[c] # current + 1
                        /\ jwtAt[c] \in {"verified", "mismatch"} => asked[c] < retiredAt[chosen[c]] + KeysTTL
      BY <1>2
    <3>1. jwtAt[c] # "new" => seenCurrent[c] <= current
      OBVIOUS
    <3>2. jwtAt[c] # "new" /\ ServedThroughout(c, kid[c])' => ServedThroughout(c, kid[c])
      BY <1>2, <3>1
    <3>3. seenCurrent[c] \in Nat /\ current \in Nat
      OBVIOUS
    <3> HIDE DEF ServedThroughout, CallsYoung, CacheYoung, RetiredInPast, ForcedFresh, KeyTypeOK
    <3> QED BY <3>1, <3>2, <3>3
  <2> QED BY <2>1, <2>2, <2>3, <2>4
<1>3. CASE Retire
  <2> USE DEF Retire
  <2>1. KeyTypeOK' /\ RetiredInPast'
    BY <1>3
  <2>2. \A k \in 1..MaxKey : retiredAt'[k] = IF k = oldest THEN keyClock ELSE retiredAt[k]
    BY <1>3
  <2>3. CacheYoung'
    BY <1>3, <2>2
  <2>4. CallsYoung'
    <3> SUFFICES ASSUME NEW c \in JwtCalls PROVE YoungCall(c)'
      OBVIOUS
    <3>1. jwtAt[c] # "new" => seenOldest[c] <= oldest + 1 /\ seenCurrent[c] <= current
      OBVIOUS
    <3>2. ASSUME NEW k \in fetched[c], jwtAt[c] = "store" PROVE asked[c] <= retiredAt'[k]
      BY <2>2, <3>2
    <3>3. ASSUME NEW k \in fetched[c], jwtAt[c] = "have" PROVE asked[c] < retiredAt'[k] + KeysTTL
      <4>1. k \in 1..MaxKey /\ asked[c] <= keyClock /\ asked[c] < retiredAt[k] + KeysTTL
        BY <3>3
      <4>2. asked[c] \in Nat /\ keyClock \in Nat /\ KeysTTL \in Nat /\ KeysTTL > 0
        OBVIOUS
      <4> HIDE DEF KeyTypeOK, CacheYoung, CallsYoung, RetiredInPast, ForcedFresh, KeysFresh
      <4> QED BY <2>2, <4>1, <4>2
    <3> HIDE DEF KeyTypeOK, CacheYoung, RetiredInPast, ForcedFresh, KeysFresh
    <3> QED BY <1>3, <3>1, <3>2, <3>3
  <2>5. ForcedFresh'
    <3> SUFFICES ASSUME NEW c \in JwtCalls
                 PROVE  /\ forced[c] => jwtAt[c] # "new"
                        /\ forced[c] /\ jwtAt[c] \in {"store", "have"} =>
                             \E a, b \in 1..MaxKey : Later(c, a, b)' /\ fetched[c] = a..b
      BY <1>3
    <3>1. \A a, b \in 1..MaxKey : Later(c, a, b) => Later(c, a, b)'
      BY <1>3
    <3> HIDE DEF Later
    <3> QED BY <3>1
  <2>6. KeysFresh'
    <3> SUFFICES ASSUME NEW c \in JwtCalls
                 PROVE  /\ jwtAt[c] \in {"unknown", "mismatch"} /\ kid[c] # 0 => ~ServedThroughout(c, kid[c])'
                        /\ jwtAt[c] = "unknown" /\ kid[c] = 0 => seenOldest[c] # current
                        /\ jwtAt[c] \in {"verified", "mismatch"} => asked[c] < retiredAt'[chosen[c]] + KeysTTL
      BY <1>3
    <3>1. jwtAt[c] # "new" => seenOldest[c] <= oldest /\ oldest < current
      BY <1>3
    <3>2. ServedThroughout(c, kid[c])' => ServedThroughout(c, kid[c])
      BY <1>3
    <3>3. jwtAt[c] \in {"verified", "mismatch"} => asked[c] < retiredAt'[chosen[c]] + KeysTTL
      <4> SUFFICES ASSUME jwtAt[c] \in {"verified", "mismatch"}
                   PROVE  asked[c] < retiredAt'[chosen[c]] + KeysTTL
        OBVIOUS
      <4>1. chosen[c] \in 1..MaxKey /\ asked[c] <= keyClock /\ asked[c] \in Nat /\ keyClock \in Nat
        OBVIOUS
      <4>2. asked[c] < retiredAt[chosen[c]] + KeysTTL
        OBVIOUS
      <4> HIDE DEF ServedThroughout, CallsYoung, CacheYoung, RetiredInPast, ForcedFresh, KeyTypeOK, KeysFresh
      <4> QED BY <2>2, <4>1, <4>2
    <3>4. seenOldest[c] \in Nat /\ current \in Nat /\ oldest \in Nat
      OBVIOUS
    <3> HIDE DEF ServedThroughout, CallsYoung, CacheYoung, RetiredInPast, ForcedFresh, KeyTypeOK
    <3> QED BY <3>1, <3>2, <3>3, <3>4
  <2> QED BY <2>1, <2>3, <2>4, <2>5, <2>6
<1>4. ASSUME NEW c \in JwtCalls, JwtStep(c) PROVE KeyInv'
  <2>1. /\ UNCHANGED <<keyClock, oldest, current, retiredAt>>
        /\ \A d \in JwtCalls : d # c =>
             /\ jwtAt'[d] = jwtAt[d] /\ signer'[d] = signer[d] /\ kid'[d] = kid[d]
             /\ forced'[d] = forced[d] /\ asked'[d] = asked[d] /\ fetched'[d] = fetched[d]
             /\ chosen'[d] = chosen[d] /\ seenOldest'[d] = seenOldest[d]
             /\ seenCurrent'[d] = seenCurrent[d]
    <3> HIDE DEF RetiredInPast, CacheYoung, CallsYoung, ForcedFresh, KeysFresh
    <3>1. CASE Validate(c)
      BY <3>1 DEF Validate
    <3>2. CASE GetKeys(c)
      BY <3>2 DEF GetKeys
    <3>3. CASE FetchJWKS(c)
      BY <3>3 DEF FetchJWKS
    <3>4. CASE StoreKeys(c)
      BY <3>4 DEF StoreKeys
    <3>5. CASE LookupKey(c)
      BY <3>5 DEF LookupKey
    <3> QED BY <1>4, <3>1, <3>2, <3>3, <3>4, <3>5 DEF JwtStep
  <2>2. RetiredInPast'
    BY <2>1
  <2> DEFINE Fresh(d) ==
        /\ jwtAt[d] \in {"unknown", "mismatch"} /\ kid[d] # 0 => ~ServedThroughout(d, kid[d])
        /\ jwtAt[d] = "unknown" /\ kid[d] = 0 =>
              ~(seenOldest[d] = current /\ seenCurrent[d] = current /\ oldest = current)
        /\ jwtAt[d] \in {"verified", "mismatch"} => asked[d] < retiredAt[chosen[d]] + KeysTTL
      Forced(d) ==
        /\ forced[d] => jwtAt[d] # "new"
        /\ forced[d] /\ jwtAt[d] \in {"store", "have"} =>
              \E a, b \in 1..MaxKey : Later(d, a, b) /\ fetched[d] = a..b
  \* The other calls are as they were.
  <2>3. \A d \in JwtCalls : d # c => YoungCall(d)' /\ Forced(d)' /\ Fresh(d)'
    <3> SUFFICES ASSUME NEW d \in JwtCalls, d # c PROVE YoungCall(d)' /\ Forced(d)' /\ Fresh(d)'
      OBVIOUS
    <3>1. YoungCall(d) /\ Forced(d) /\ Fresh(d)
      OBVIOUS
    <3> HIDE DEF KeyInv, KeyTypeOK, RetiredInPast, CacheYoung, CallsYoung, ForcedFresh, KeysFresh
    <3> QED BY <2>1, <3>1
  <2>4. KeyTypeOK' /\ CacheYoung' /\ YoungCall(c)' /\ Forced(c)' /\ Fresh(c)'
    <3>0. YoungCall(c) /\ Forced(c) /\ Fresh(c)
      OBVIOUS
    <3> HIDE DEF CallsYoung, ForcedFresh, KeysFresh
    <3>1. CASE Validate(c)
      <4> HIDE DEF RetiredInPast
      <4>1. PICK k \in 1..current : signer' = [signer EXCEPT ![c] = k]
                                    /\ \E named \in {k, 0} : kid' = [kid EXCEPT ![c] = named]
        BY <3>1 DEF Validate
      <4>2. k \in 1..MaxKey
        BY <4>1
      <4>3. KeyTypeOK'
        <5>1. signer' \in [JwtCalls -> 1..MaxKey] /\ kid' \in [JwtCalls -> 0..MaxKey]
          BY <4>1, <4>2
        <5> HIDE DEF CacheYoung, YoungCall, Forced, Fresh
        <5>2. /\ seenOldest' = [seenOldest EXCEPT ![c] = oldest]
              /\ seenCurrent' = [seenCurrent EXCEPT ![c] = current]
              /\ jwtAt' = [jwtAt EXCEPT ![c] = "keys"]
          BY <3>1 DEF Validate
        <5>3. seenOldest' \in [JwtCalls -> 0..MaxKey] /\ seenCurrent' \in [JwtCalls -> 0..MaxKey]
          BY <5>2
        <5>4. jwtAt' \in [JwtCalls -> JwtPlaces]
          BY <5>2
        <5> QED BY <3>1, <5>1, <5>3, <5>4 DEF Validate
      <4>4. kid'[c] \in {0, signer'[c]} /\ jwtAt'[c] = "keys" /\ ~forced'[c]
            /\ seenOldest'[c] = oldest /\ seenCurrent'[c] = current
        BY <3>0, <3>1, <4>1 DEF Validate
      <4>5. CacheYoung' /\ asked'[c] = asked[c]
        BY <3>1 DEF Validate
      <4>6. YoungCall(c)' /\ Forced(c)' /\ Fresh(c)'
        BY <2>1, <3>0, <4>4, <4>5
      <4> QED BY <4>3, <4>5, <4>6
    <3>2. CASE GetKeys(c)
      <4>1. KeyTypeOK'
        <5> HIDE DEF RetiredInPast, CacheYoung, YoungCall, Forced, Fresh
        <5>1. asked' \in [JwtCalls -> Nat]
          BY <3>2 DEF GetKeys
        <5>2. jwtAt' \in [JwtCalls -> JwtPlaces]
          <6>1. JwtTo(c, "have") \/ JwtTo(c, "fetch")
            BY <3>2 DEF GetKeys
          <6> QED BY <6>1
        <5>3. fetched' \in [JwtCalls -> SUBSET (1..MaxKey)]
          BY <3>2 DEF GetKeys
        <5> QED BY <3>2, <5>1, <5>2, <5>3 DEF GetKeys
      <4>2. CacheYoung'
        BY <3>2 DEF GetKeys
      <4>3. asked'[c] = keyClock /\ forced'[c] = forced[c] /\ kid'[c] = kid[c] /\ signer'[c] = signer[c]
            /\ seenOldest'[c] = seenOldest[c] /\ seenCurrent'[c] = seenCurrent[c] /\ jwtAt[c] = "keys"
        BY <3>2 DEF GetKeys
      <4>4. CASE ~forced[c] /\ keys # {} /\ keyClock < expires
        <5>1. jwtAt'[c] = "have" /\ fetched'[c] = keys
          BY <3>2, <4>4 DEF GetKeys
        <5>2. \A k \in keys : keyClock < retiredAt[k] + KeysTTL
          <6>1. \A k \in keys : retiredAt[k] \in Nat /\ expires <= retiredAt[k] + KeysTTL
            OBVIOUS
          <6>2. keyClock \in Nat /\ expires \in Nat
            OBVIOUS
          <6> HIDE DEF KeyTypeOK, CacheYoung, RetiredInPast, YoungCall, Forced, Fresh
          <6> QED BY <4>4, <6>1, <6>2
        <5>3. keyClock \in Nat
          OBVIOUS
        <5> HIDE DEF KeyTypeOK, CacheYoung, RetiredInPast
        <5> QED BY <2>1, <3>0, <4>1, <4>2, <4>3, <4>4, <5>1, <5>2, <5>3
      <4>5. CASE ~(~forced[c] /\ keys # {} /\ keyClock < expires)
        <5>1. jwtAt'[c] = "fetch"
          BY <3>2, <4>5 DEF GetKeys
        <5>2. keyClock \in Nat
          OBVIOUS
        <5> HIDE DEF KeyTypeOK, CacheYoung, RetiredInPast
        <5> QED BY <2>1, <3>0, <4>1, <4>2, <4>3, <5>1, <5>2
      <4> QED BY <4>4, <4>5
    <3>3. CASE FetchJWKS(c)
      <4>0. Served \in SUBSET (1..MaxKey) /\ \A k \in Served : k \in 1..MaxKey /\ oldest <= k
        OBVIOUS
      <4>1. KeyTypeOK'
        <5> HIDE DEF RetiredInPast, CacheYoung, YoungCall, Forced, Fresh
        <5>1. jwtAt' \in [JwtCalls -> JwtPlaces]
          BY <3>3 DEF FetchJWKS
        <5>2. fetched' \in [JwtCalls -> SUBSET (1..MaxKey)]
          <6>1. fetched' = [fetched EXCEPT ![c] = Served] \/ fetched' = fetched
            BY <3>3 DEF FetchJWKS
          <6> HIDE DEF Served
          <6> QED BY <4>0, <6>1
        <5> QED BY <3>3, <5>1, <5>2 DEF FetchJWKS
      <4>2. CacheYoung'
        BY <3>3 DEF FetchJWKS
      <4>3. asked'[c] = asked[c] /\ forced'[c] = forced[c] /\ kid'[c] = kid[c] /\ signer'[c] = signer[c]
            /\ seenOldest'[c] = seenOldest[c] /\ seenCurrent'[c] = seenCurrent[c] /\ jwtAt[c] = "fetch"
        BY <3>3 DEF FetchJWKS
      <4>4. CASE JwtTo(c, "store") /\ fetched' = [fetched EXCEPT ![c] = Served]
        <5>1. jwtAt'[c] = "store" /\ fetched'[c] = oldest..current
          BY <4>4
        <5>2. ASSUME NEW k \in Served PROVE asked[c] <= retiredAt[k]
          <6>1. retiredAt[k] = NotYet
            BY <4>0
          <6>2. asked[c] <= keyClock /\ keyClock <= MaxKeyClock
            BY <3>0
          <6>3. asked[c] \in Nat /\ keyClock \in Nat
            OBVIOUS
          <6> HIDE DEF KeyTypeOK, YoungCall, Forced, Fresh, RetiredInPast, CacheYoung
          <6> QED BY <6>1, <6>2, <6>3
        <5>3. Later(c, oldest, current)' /\ oldest \in 1..MaxKey /\ current \in 1..MaxKey
          BY <2>1, <3>0, <4>3
        <5>4. Forced(c)'
          <6> HIDE DEF KeyTypeOK, RetiredInPast, CacheYoung, YoungCall
          <6> QED BY <2>1, <5>1, <5>3
        <5>5. YoungCall(c)' /\ Fresh(c)'
          <6> HIDE DEF KeyTypeOK, RetiredInPast, CacheYoung, Forced
          <6> QED BY <2>1, <3>0, <4>3, <5>1, <5>2
        <5> QED BY <4>1, <4>2, <5>4, <5>5
      <4>5. CASE JwtTo(c, "failed") /\ UNCHANGED fetched
        <5>1. jwtAt'[c] = "failed"
          BY <4>5
        <5> QED BY <2>1, <3>0, <4>1, <4>2, <4>3, <5>1
      <4> QED BY <3>3, <4>4, <4>5 DEF FetchJWKS
    <3>4. CASE StoreKeys(c)
      <4>1. KeyTypeOK'
        <5> HIDE DEF RetiredInPast, CacheYoung, YoungCall, Forced, Fresh
        <5>1. jwtAt' \in [JwtCalls -> JwtPlaces] /\ expires' \in Nat /\ keys' \in SUBSET (1..MaxKey)
          BY <3>4 DEF StoreKeys
        <5> QED BY <3>4, <5>1 DEF StoreKeys
      <4>2. \A k \in fetched[c] : k \in 1..MaxKey /\ asked[c] <= retiredAt[k]
        BY <3>0, <3>4 DEF StoreKeys
      <4>3. CacheYoung'
        <5>1. keys' = fetched[c] /\ expires' = asked[c] + KeysTTL /\ asked[c] <= keyClock
          BY <3>0, <3>4 DEF StoreKeys
        <5>2. asked[c] \in Nat /\ keyClock \in Nat /\ \A k \in 1..MaxKey : retiredAt[k] \in Nat
          OBVIOUS
        <5> HIDE DEF KeyTypeOK, RetiredInPast, YoungCall, Forced, Fresh
        <5> QED BY <2>1, <4>2, <5>1, <5>2
      <4>4. UNCHANGED <<asked, forced, kid, signer, fetched, seenOldest, seenCurrent, chosen>>
            /\ jwtAt[c] = "store" /\ jwtAt'[c] = "have"
        BY <3>4 DEF StoreKeys
      <4>5. \A k \in fetched[c] : asked[c] < retiredAt[k] + KeysTTL
        BY <4>2
      <4> HIDE DEF KeyTypeOK, RetiredInPast, CacheYoung
      <4> QED BY <2>1, <3>0, <4>1, <4>3, <4>4, <4>5
    <3>5. CASE LookupKey(c)
      <4>1. CacheYoung' /\ jwtAt[c] = "have"
            /\ UNCHANGED <<asked, kid, signer, fetched, seenOldest, seenCurrent>>
        BY <3>5 DEF LookupKey
      <4>2. ASSUME NEW k \in Candidates(c), chosen' = [chosen EXCEPT ![c] = k],
                   JwtTo(c, IF k = signer[c] THEN "verified" ELSE "mismatch"), UNCHANGED forced
            PROVE  KeyTypeOK' /\ YoungCall(c)' /\ Forced(c)' /\ Fresh(c)'
        <5>1. k \in fetched[c] /\ k \in 1..MaxKey /\ (kid[c] # 0 => k = kid[c])
          BY <4>2 DEF Candidates
        <5>2. chosen'[c] = k /\ jwtAt'[c] = IF k = signer[c] THEN "verified" ELSE "mismatch"
          BY <4>2
        <5>3. chosen' \in [JwtCalls -> 0..MaxKey] /\ jwtAt' \in [JwtCalls -> JwtPlaces]
          <6> HIDE DEF RetiredInPast, CacheYoung, YoungCall, Forced, Fresh
          <6> QED BY <4>2, <5>1
        <5>4. KeyTypeOK'
          <6> HIDE DEF RetiredInPast, CacheYoung, YoungCall, Forced, Fresh
          <6> QED BY <3>5, <4>2, <5>3 DEF LookupKey
        <5> HIDE DEF KeyTypeOK, RetiredInPast, CacheYoung
        <5> QED BY <2>1, <3>0, <4>1, <4>2, <5>1, <5>2, <5>4
      <4>3. ASSUME ~forced[c], JwtTo(c, "keys"), forced' = [forced EXCEPT ![c] = TRUE], UNCHANGED chosen
            PROVE  KeyTypeOK' /\ YoungCall(c)' /\ Forced(c)' /\ Fresh(c)'
        <5>1. KeyTypeOK' /\ jwtAt'[c] = "keys"
          <6> HIDE DEF RetiredInPast, CacheYoung, YoungCall, Forced, Fresh
          <6> QED BY <3>5, <4>3 DEF LookupKey
        <5> HIDE DEF KeyTypeOK, RetiredInPast, CacheYoung
        <5> QED BY <2>1, <3>0, <4>1, <5>1
      <4>4. ASSUME Candidates(c) = {}, forced[c], JwtTo(c, "unknown"), UNCHANGED <<forced, chosen>>
            PROVE  KeyTypeOK' /\ YoungCall(c)' /\ Forced(c)' /\ Fresh(c)'
        <5>1. KeyTypeOK' /\ jwtAt'[c] = "unknown"
          <6> HIDE DEF RetiredInPast, CacheYoung, YoungCall, Forced, Fresh
          <6> QED BY <3>5, <4>4 DEF LookupKey
        <5>2. PICK a \in 1..MaxKey, b \in 1..MaxKey : Later(c, a, b) /\ fetched[c] = a..b
          BY <3>0, <4>1, <4>4
        <5>3. kid[c] # 0 => ~ServedThroughout(c, kid[c])
          <6> SUFFICES ASSUME kid[c] # 0, ServedThroughout(c, kid[c]) PROVE FALSE
            OBVIOUS
          <6>1. kid[c] \notin fetched[c]
            BY <4>4 DEF Candidates
          <6>2. kid[c] \in a..b
            <7>1. {kid[c], oldest, current, seenOldest[c], seenCurrent[c]} \subseteq Nat
              OBVIOUS
            <7> HIDE DEF KeyTypeOK, YoungCall, Forced, Fresh, RetiredInPast, CacheYoung
            <7> QED BY <5>2, <7>1
          <6> QED BY <5>2, <6>1, <6>2
        <5>4. kid[c] = 0 =>
                ~(seenOldest[c] = current /\ seenCurrent[c] = current /\ oldest = current)
          <6> SUFFICES ASSUME kid[c] = 0, seenOldest[c] = current, seenCurrent[c] = current, oldest = current
                       PROVE  FALSE
            OBVIOUS
          <6>1. a = current /\ b = current /\ current \in Nat
            BY <5>2
          <6>2. fetched[c] = {current}
            BY <5>2, <6>1
          <6> QED BY <4>4, <6>2 DEF Candidates
        <5> HIDE DEF KeyTypeOK, RetiredInPast, CacheYoung
        <5> QED BY <2>1, <3>0, <4>1, <5>1, <5>3, <5>4
      <4> QED BY <3>5, <4>1, <4>2, <4>3, <4>4 DEF LookupKey
    <3> QED BY <1>4, <3>1, <3>2, <3>3, <3>4, <3>5 DEF JwtStep
  <2> HIDE DEF Forced, Fresh, YoungCall
  <2>5. CallsYoung' /\ \A d \in JwtCalls : Forced(d)' /\ Fresh(d)'
    BY <2>3, <2>4
  <2>6. ForcedFresh' /\ KeysFresh'
    BY <2>5 DEF Forced, Fresh
  <2> QED BY <2>2, <2>4, <2>5, <2>6
<1>5. CASE UNCHANGED keyVars
  BY <1>5 DEF keyVars
<1> QED BY <1>1, <1>2, <1>3, <1>4, <1>5 DEF KeyNext

\* For any calls and any rotation of keys: no key that a token names is called
\* unknown while it is served throughout the call, a token that names none is called
\* unknown only if there was not one key alone, and no signature is verified with a
\* key that was retired the cache time before.
THEOREM KeysStayFresh == KeySpec => []KeysFresh
<1>1. KeyInv => KeysFresh
  BY DEF KeyInv
<1> QED BY <1>1, KeyInvInit, KeyInvNext, PTL DEF KeySpec

-----------------------------------------------------------------------------
(* The Kafka reader. *)

KafkaPlaces == {"idle", "window", "submit", "commitEach", "batch", "check", "stopped"}

KafkaTypeOK ==
    /\ policy \in {"auto", "after-each", "after-batch", "time"}
    /\ kServe \in KafkaPlaces
    /\ position \in [Partitions -> Nat] /\ latest \in [Partitions -> Nat]
    /\ committed \in [Partitions -> Nat] /\ goal \in [Partitions -> Nat]
    /\ handled \in [Partitions -> SUBSET Nat]
    /\ logEnd \in [Partitions -> Nat] /\ firstRead \in [Partitions -> Nat]
    /\ kServe \in {"submit", "commitEach"} => msg \in Partitions \X Nat

\* Handled, or behind the place where a reader without a committed offset began.
Behind(p, o) == o \in handled[p] \/ (startAt = "latest" /\ o < firstRead[p])

\* Everything before the reader's position is handled or behind, except what is in
\* hand; so is everything it may commit and everything it has committed.
FetchedHandled ==
    kServe # "idle" =>
        \A p \in Partitions, o \in Nat :
            o < position[p] => Behind(p, o) \/ (kServe = "submit" /\ msg = <<p, o>>)

InHandLast ==
    kServe \in {"submit", "commitEach"} => position[msg[1]] = msg[2] + 1

LatestHandled ==
    \A p \in Partitions, o \in Nat : o < latest[p] \/ o < committed[p] => Behind(p, o)

\* What the submits ask to commit is committed or noted down.
GoalNoted ==
    /\ policy \in {"auto", "after-each"} => latest = NoOffsets
    /\ policy = "auto" => committed = NoOffsets
    /\ kServe \in {"idle", "stopped"} => latest = NoOffsets
    /\ kServe = "commitEach" => policy = "after-each"
    /\ kServe # "idle" /\ commitFailed = FALSE /\ policy # "auto" =>
         \A p \in Partitions :
            goal[p] = IF kServe = "commitEach" /\ p = msg[1] THEN msg[2] + 1
                      ELSE IF latest[p] = 0 THEN committed[p] ELSE latest[p]

KafkaInv == KafkaTypeOK /\ FetchedHandled /\ InHandLast /\ LatestHandled /\ GoalNoted

LEMMA KafkaInvInit == KafkaInit => KafkaInv
BY KafkaReaderAssumption
   DEF KafkaInit, KafkaInv, KafkaTypeOK, FetchedHandled, InHandLast, LatestHandled, GoalNoted,
       KafkaPlaces, NoOffsets, Behind

\* What a call of CommitMessages leaves at the broker.
LEMMA CommitEffect ==
    ASSUME committed \in [Partitions -> Nat], NEW offsets \in [Partitions -> Nat], Commit(offsets)
    PROVE  /\ committed' \in [Partitions -> Nat]
           /\ \A p \in Partitions : committed'[p] \in {committed[p], offsets[p]}
           /\ commitFailed' = FALSE =>
                /\ commitFailed = FALSE
                /\ \A p \in Partitions :
                     committed'[p] = IF offsets[p] = 0 THEN committed[p] ELSE offsets[p]
BY DEF Commit

LEMMA KafkaInvNext == KafkaInv /\ [KafkaNext]_kafkaVars => KafkaInv'
<1> SUFFICES ASSUME KafkaInv, [KafkaNext]_kafkaVars PROVE KafkaInv'
  OBVIOUS
<1> USE DEF KafkaInv, KafkaTypeOK, FetchedHandled, InHandLast, LatestHandled, GoalNoted,
            KafkaPlaces, NoOffsets, logVars, setting, ground, Behind
<1>0. ASSUME NEW p \in Partitions, Produce(p) PROVE KafkaInv'
  BY <1>0 DEF Produce
<1>1. CASE KafkaServe
  <2>1. \A p \in Partitions : StartOffset(p) \in Nat
    BY DEF StartOffset
  <2>2. \A p \in Partitions :
          /\ position'[p] = IF committed[p] = 0 THEN StartOffset(p) ELSE committed[p]
          /\ firstRead'[p] = IF committed[p] = 0 THEN StartOffset(p) ELSE firstRead[p]
    BY <1>1 DEF KafkaServe
  <2>3. KafkaTypeOK'
    BY <1>1, <2>1 DEF KafkaServe
  <2>4. ASSUME NEW p \in Partitions, NEW o \in Nat, o < committed[p] PROVE Behind(p, o)'
    BY <1>1, <2>2, <2>4 DEF KafkaServe
  <2>5. ASSUME NEW p \in Partitions, NEW o \in Nat, o < position'[p] PROVE Behind(p, o)'
    <3>1. CASE committed[p] = 0
      BY <1>1, <2>2, <2>5, <3>1 DEF KafkaServe, StartOffset
    <3>2. CASE committed[p] # 0
      BY <2>2, <2>4, <2>5, <3>2
    <3> QED BY <3>1, <3>2
  <2>6. InHandLast' /\ GoalNoted'
    BY <1>1 DEF KafkaServe
  <2> QED BY <1>1, <2>3, <2>4, <2>5, <2>6 DEF KafkaServe
<1>2. CASE KafkaCancel
  BY <1>2 DEF KafkaCancel
<1>3. CASE KafkaCrash
  BY <1>3 DEF KafkaCrash
<1>4. ASSUME NEW p \in Partitions, FetchMessage(p) PROVE KafkaInv'
  <2>1. KafkaTypeOK'
    BY <1>4 DEF FetchMessage
  <2>2. FetchedHandled'
    <3> SUFFICES ASSUME NEW q \in Partitions, NEW o \in Nat, o < position'[q]
                 PROVE  Behind(q, o)' \/ (kServe' = "submit" /\ msg' = <<q, o>>)
      BY <1>4 DEF FetchMessage
    <3>1. CASE q # p \/ o # position[p]
      <4>0. position[q] \in Nat /\ position[p] \in Nat
        OBVIOUS
      <4>a. position'[q] = IF q = p THEN position[p] + 1 ELSE position[q]
        BY <1>4 DEF FetchMessage
      <4>1. o < position[q]
        BY <3>1, <4>0, <4>a
      <4>2. Behind(q, o) /\ handled[q] \subseteq handled'[q]
        BY <1>4, <4>1 DEF FetchMessage
      <4> QED BY <1>4, <4>2 DEF FetchMessage
    <3>2. CASE q = p /\ o = position[p]
      BY <1>4, <3>2 DEF FetchMessage
    <3> QED BY <3>1, <3>2
  <2>3. InHandLast'
    BY <1>4 DEF FetchMessage
  <2>4. LatestHandled'
    BY <1>4 DEF FetchMessage
  <2>5. GoalNoted'
    BY <1>4 DEF FetchMessage
  <2> QED BY <2>1, <2>2, <2>3, <2>4, <2>5
<1>5. CASE SubmitOK
  <2>1. KafkaTypeOK'
    <3>1. msg \in Partitions \X Nat
      BY <1>5 DEF SubmitOK
    <3>2. goal' \in [Partitions -> Nat] /\ latest' \in [Partitions -> Nat]
      BY SMTT(30), <1>5, <3>1 DEF SubmitOK
    <3>3. handled' \in [Partitions -> SUBSET Nat]
      BY <1>5, <3>1 DEF SubmitOK
    <3>4. kServe' \in KafkaPlaces
      BY <1>5 DEF SubmitOK
    <3>5. kServe' \in {"submit", "commitEach"} => msg' \in Partitions \X Nat
      BY <1>5, <3>1 DEF SubmitOK
    <3> QED BY <1>5, <3>2, <3>3, <3>4, <3>5 DEF SubmitOK
  <2>0. /\ \A p \in Partitions : handled[p] \subseteq handled'[p]
        /\ msg \in Partitions \X Nat /\ msg[2] \in handled'[msg[1]]
        /\ kServe' # "submit" /\ UNCHANGED <<position, startAt, firstRead, committed, policy>>
    BY <1>5 DEF SubmitOK
  <2>b. \A p \in Partitions, o \in Nat : Behind(p, o) => Behind(p, o)'
    BY <2>0
  <2>2. FetchedHandled'
    <3> SUFFICES ASSUME NEW q \in Partitions, NEW o \in Nat, o < position[q] PROVE Behind(q, o)'
      BY <2>0
    <3>1. Behind(q, o) \/ msg = <<q, o>>
      BY <1>5 DEF SubmitOK
    <3> QED BY <2>0, <2>b, <3>1
  <2>3. InHandLast'
    BY <1>5 DEF SubmitOK
  <2>4. LatestHandled'
    <3> SUFFICES ASSUME NEW q \in Partitions, NEW o \in Nat, o < latest'[q] \/ o < committed[q]
                 PROVE  Behind(q, o)'
      BY <2>0
    <3>1. CASE o < latest[q] \/ o < committed[q]
      BY <2>b, <3>1
    <3>2. CASE q = msg[1] /\ o < msg[2] + 1
      <4>1. o < position[q] /\ position[q] \in Nat
        BY <1>5, <3>2 DEF SubmitOK
      <4> QED BY <2>0, <2>2, <4>1, <1>5 DEF SubmitOK
    <3>3. latest'[q] \in {latest[q], IF q = msg[1] THEN msg[2] + 1 ELSE latest[q]}
      BY <1>5, <2>0 DEF SubmitOK
    <3> QED BY <3>1, <3>2, <3>3
  <2>5. GoalNoted'
    <3>1. CASE policy = "after-each"
      BY <1>5, <2>0, <3>1 DEF SubmitOK
    <3>2. CASE policy \in {"after-batch", "time"}
      <4>1. \A p \in Partitions :
              /\ goal'[p] = IF p = msg[1] THEN msg[2] + 1 ELSE goal[p]
              /\ latest'[p] = IF p = msg[1] THEN msg[2] + 1 ELSE latest[p]
        BY <1>5, <2>0, <3>2 DEF SubmitOK
      <4>2. kServe' = "window" /\ commitFailed' = commitFailed /\ kServe = "submit"
        BY <1>5, <3>2 DEF SubmitOK
      <4>3. msg[2] + 1 # 0
        BY <2>0
      <4> QED BY <2>0, <3>2, <4>1, <4>2, <4>3
    <3>3. CASE policy = "auto"
      BY <1>5, <2>0, <3>3 DEF SubmitOK
    <3> QED BY <3>1, <3>2, <3>3
  <2> QED BY <2>1, <2>2, <2>3, <2>4, <2>5
<1>6. CASE SubmitFails
  <2>0. /\ \A p \in Partitions : handled[p] \subseteq handled'[p]
        /\ msg \in Partitions \X Nat /\ msg[2] \in handled'[msg[1]]
        /\ handled' \in [Partitions -> SUBSET Nat]
        /\ kServe' = "window" /\ kServe = "submit"
        /\ UNCHANGED <<position, startAt, firstRead, committed, latest, policy, goal, commitFailed, logEnd>>
    BY <1>6 DEF SubmitFails
  <2>1. KafkaTypeOK'
    BY <2>0
  <2>2. FetchedHandled' /\ LatestHandled'
    <3>1. \A p \in Partitions, o \in Nat : Behind(p, o) => Behind(p, o)'
      BY <2>0
    <3>2. \A p \in Partitions, o \in Nat : msg = <<p, o>> => Behind(p, o)'
      BY <2>0
    <3> QED BY <2>0, <3>1, <3>2
  <2>3. InHandLast' /\ GoalNoted'
    BY <2>0
  <2> QED BY <2>1, <2>2, <2>3
<1>7. CASE CommitAfterEach
  <2> DEFINE offsets == [NoOffsets EXCEPT ![msg[1]] = msg[2] + 1]
  <2>o. msg \in Partitions \X Nat /\ offsets \in [Partitions -> Nat]
    BY <1>7 DEF CommitAfterEach
  <2>c. /\ committed' \in [Partitions -> Nat]
        /\ \A p \in Partitions : committed'[p] \in {committed[p], offsets[p]}
        /\ commitFailed' = FALSE =>
             /\ commitFailed = FALSE
             /\ \A p \in Partitions :
                  committed'[p] = IF offsets[p] = 0 THEN committed[p] ELSE offsets[p]
    <3> HIDE DEF offsets
    <3>1. Commit(offsets)
      BY <1>7 DEF CommitAfterEach, offsets
    <3> QED BY <2>o, <3>1, CommitEffect
  <2>1. KafkaTypeOK'
    BY <1>7, <2>c DEF CommitAfterEach
  <2>2. FetchedHandled'
    BY <1>7 DEF CommitAfterEach, Commit
  <2>3. InHandLast'
    BY <1>7 DEF CommitAfterEach, Commit
  <2>4. LatestHandled'
    BY ZenonT(40), <1>7 DEF CommitAfterEach, Commit
  <2>5. GoalNoted'
    <3>1. latest = NoOffsets /\ latest' = latest /\ policy' = policy /\ goal' = goal
      BY <1>7 DEF CommitAfterEach
    <3>2. \A p \in Partitions : offsets[p] = IF p = msg[1] THEN msg[2] + 1 ELSE 0
      BY <2>o
    <3>0. policy = "after-each" /\ kServe = "commitEach"
      BY <1>7 DEF CommitAfterEach
    <3>3. ASSUME commitFailed' = FALSE, NEW p \in Partitions PROVE goal[p] = committed'[p]
      BY <2>o, <2>c, <3>0, <3>1, <3>2, <3>3
    <3>4. kServe' = "window"
      BY <1>7 DEF CommitAfterEach
    <3> QED BY <3>0, <3>1, <3>3, <3>4
  <2> QED BY <2>1, <2>2, <2>3, <2>4, <2>5
<1>8. CASE WindowEnds
  BY <1>8 DEF WindowEnds
<1>9. CASE CommitLatest
  <2>1. CASE Commit(latest) /\ latest' = NoOffsets
    <3>1. /\ committed' \in [Partitions -> Nat]
          /\ \A p \in Partitions : committed'[p] \in {committed[p], latest[p]}
          /\ commitFailed' = FALSE =>
               /\ commitFailed = FALSE
               /\ \A p \in Partitions :
                    committed'[p] = IF latest[p] = 0 THEN committed[p] ELSE latest[p]
      BY <2>1, CommitEffect
    <3>2. KafkaTypeOK' /\ FetchedHandled' /\ InHandLast'
      BY <1>9, <2>1, <3>1 DEF CommitLatest
    <3>3. LatestHandled'
      BY <1>9, <2>1, <3>1 DEF CommitLatest
    <3>4. GoalNoted'
      BY <1>9, <2>1, <3>1 DEF CommitLatest
    <3> QED BY <3>2, <3>3, <3>4
  <2>2. CASE UNCHANGED <<committed, commitFailed, latest>>
    BY <1>9, <2>2 DEF CommitLatest
  <2> QED BY <1>9, <2>1, <2>2 DEF CommitLatest
<1>10. CASE NextWindow
  BY <1>10 DEF NextWindow
<1>11. CASE CommitFinal
  <2>1. CASE Commit(latest)
    <3>1. /\ committed' \in [Partitions -> Nat]
          /\ \A p \in Partitions : committed'[p] \in {committed[p], latest[p]}
          /\ commitFailed' = FALSE =>
               /\ commitFailed = FALSE
               /\ \A p \in Partitions :
                    committed'[p] = IF latest[p] = 0 THEN committed[p] ELSE latest[p]
      BY <2>1, CommitEffect
    <3>2. KafkaTypeOK' /\ FetchedHandled' /\ InHandLast'
      BY <1>11, <2>1, <3>1 DEF CommitFinal
    <3>3. LatestHandled'
      BY <1>11, <2>1, <3>1 DEF CommitFinal
    <3>4. GoalNoted'
      BY <1>11, <2>1, <3>1 DEF CommitFinal
    <3> QED BY <3>2, <3>3, <3>4
  <2>2. CASE UNCHANGED <<committed, commitFailed>> /\ latest = NoOffsets
    BY <1>11, <2>2 DEF CommitFinal
  <2> QED BY <1>11, <2>1, <2>2 DEF CommitFinal
<1>12. CASE KafkaReturns
  BY <1>12 DEF KafkaReturns
<1>13. CASE UNCHANGED kafkaVars
  BY <1>13 DEF kafkaVars
<1> QED
  BY <1>0, <1>1, <1>2, <1>3, <1>4, <1>5, <1>6, <1>7, <1>8, <1>9, <1>10, <1>11, <1>12, <1>13
     DEF KafkaNext, KafkaServeStep

\* Neither crashes nor failed commits make the group skip a message no run has
\* handled, except those in the log when a Serve with StartAt "latest" finds no
\* committed offset; a manual Serve that is stopped has committed all it submitted
\* unless a commit failed, and mode auto never commits; for any partitions.
THEOREM CommitsSafe == KafkaSpec => []CommitsExact
<1>1. KafkaInv => CommitsExact
  <2> SUFFICES ASSUME KafkaInv PROVE CommitsExact
    OBVIOUS
  <2>1. ASSUME NEW p \in Partitions, NEW o \in 0..LogLen - 1, o < committed[p]
        PROVE  Behind(p, o)
    BY <2>1, KafkaReaderAssumption DEF KafkaInv, LatestHandled
  <2>2. ASSUME kServe = "stopped", ~commitFailed, policy # "auto" PROVE committed = goal
    BY <2>2 DEF KafkaInv, KafkaTypeOK, GoalNoted, NoOffsets
  <2>3. policy = "auto" => committed = NoOffsets
    BY DEF KafkaInv, GoalNoted
  <2> QED BY <2>1, <2>2, <2>3 DEF CommitsExact, Behind
<1> QED BY <1>1, KafkaInvInit, KafkaInvNext, PTL DEF KafkaSpec

-----------------------------------------------------------------------------
(* The log sink. *)

Entries(s) == {s[i] : i \in 1..Len(s)}

LEMMA EntriesAppend ==
    ASSUME NEW S, NEW s \in Seq(S), NEW e \in S
    PROVE  Entries(Append(s, e)) = Entries(s) \cup {e}
<1>1. Len(Append(s, e)) = Len(s) + 1
  OBVIOUS
<1>2. \A i \in 1..Len(s) : Append(s, e)[i] = s[i]
  OBVIOUS
<1>3. Append(s, e)[Len(s) + 1] = e
  OBVIOUS
<1>4. Len(s) \in Nat
  OBVIOUS
<1> QED BY <1>1, <1>2, <1>3, <1>4 DEF Entries

LEMMA EntriesTail ==
    ASSUME NEW S, NEW s \in Seq(S), s # << >>
    PROVE  Entries(s) = {Head(s)} \cup Entries(Tail(s))
<1>1. Len(s) \in Nat \ {0} /\ Len(Tail(s)) = Len(s) - 1
  OBVIOUS
<1>2. \A i \in 1..Len(s) - 1 : Tail(s)[i] = s[i + 1]
  OBVIOUS
<1>3. Head(s) = s[1]
  OBVIOUS
<1>4. \A i \in 1..Len(s) : i = 1 \/ (i - 1 \in 1..Len(s) - 1 /\ s[i] = Tail(s)[i - 1])
  BY <1>1, <1>2
<1> QED BY SMTT(30), <1>1, <1>2, <1>3, <1>4 DEF Entries

SinkTypeOK ==
    /\ sinkQueue \in Seq(LogWriters) /\ submitted \in Seq(LogWriters)
    /\ pending \in Int /\ sinkClosed \in BOOLEAN
    /\ writing \in [LogWriters -> {"new", "send", "count", "done", "dropped"}]
    /\ worker \in {"range", "submit", "uncount", "done"}
    /\ worker = "submit" => inHand \in LogWriters
    /\ worker # "submit" => inHand = None
    /\ flushing \in [Flushers -> {"new", "poll", "flushed", "late"}]
    /\ before \in [Flushers -> SUBSET LogWriters]

\* writeMu is held from the test of the flag to the count.
SinkLocked ==
    /\ \A w \in LogWriters : writing[w] \in {"send", "count"} => writeMu = w
    /\ \A w \in LogWriters : writing[w] \in {"send", "count"} => ~sinkClosed
    /\ ~sinkPanic

\* The counter is the queue and the entry being submitted, less the entry that is
\* queued and not counted; that one is the last one queued.
HandCount == IF worker \in {"submit", "uncount"} THEN 1 ELSE 0
PendingExact ==
    /\ (\A w \in LogWriters : writing[w] # "count") => pending = Len(sinkQueue) + HandCount
    /\ \A w \in LogWriters : writing[w] = "count" =>
          /\ pending = Len(sinkQueue) + HandCount - 1
          /\ sinkQueue # << >> => sinkQueue[Len(sinkQueue)] = w
          /\ sinkQueue = << >> /\ worker = "submit" => inHand = w

\* No entry is lost between the queue and the relay.
Kept == Submitted \cup Entries(sinkQueue) \cup {inHand}
NoneLost ==
    /\ ~sinkClosed => \A w \in LogWriters : writing[w] \in {"count", "done"} => w \in Kept
    /\ \A f \in Flushers : \A w \in before[f] : writing[w] = "done" /\ w \in Kept

WorkerLeaves ==
    /\ worker = "done" => sinkQueue = << >> /\ sinkClosed
    /\ closer = "done" => worker = "done"

FlushedSubmitted ==
    \A f \in Flushers : flushing[f] = "flushed" => before[f] \subseteq Submitted

SinkInv == SinkTypeOK /\ SinkLocked /\ PendingExact /\ NoneLost /\ WorkerLeaves /\ FlushedSubmitted

LEMMA SinkInvInit == SinkInit => SinkInv
<1> SUFFICES ASSUME SinkInit PROVE SinkInv
  OBVIOUS
<1> USE DEF SinkInit
<1>1. SinkTypeOK
  <2>1. sinkClosed \in BOOLEAN
    OBVIOUS
  <2>2. sinkQueue \in Seq(LogWriters) /\ submitted \in Seq(LogWriters)
    OBVIOUS
  <2> QED BY <2>1, <2>2 DEF SinkTypeOK
<1>2. SinkLocked /\ NoneLost /\ WorkerLeaves /\ FlushedSubmitted
  BY DEF SinkLocked, NoneLost, WorkerLeaves, FlushedSubmitted
<1>3. PendingExact
  BY DEF PendingExact, HandCount
<1> QED BY <1>1, <1>2, <1>3 DEF SinkInv

LEMMA SinkInvNext == SinkInv /\ [SinkNext]_sinkVars => SinkInv'
<1> SUFFICES ASSUME SinkInv, [SinkNext]_sinkVars PROVE SinkInv'
  OBVIOUS
<1> USE SinkAssumption DEF SinkInv, Writing, WriteTo
<1>kept. UNCHANGED <<submitted, sinkQueue, inHand>> => Kept' = Kept /\ Submitted' = Submitted
  BY DEF Kept, Submitted, Entries
<1>1. ASSUME NEW w \in LogWriters, LockWrite(w) PROVE SinkInv'
  <2>1. SinkTypeOK'
    BY <1>1 DEF LockWrite, SinkTypeOK
  <2>2. SinkLocked'
    BY <1>1 DEF LockWrite, SinkTypeOK, SinkLocked
  <2>3. PendingExact'
    BY <1>1 DEF LockWrite, SinkTypeOK, SinkLocked, PendingExact, HandCount
  <2>4. NoneLost'
    BY <1>1, <1>kept DEF LockWrite, SinkTypeOK, NoneLost
  <2>5. WorkerLeaves'
    BY <1>1 DEF LockWrite, SinkTypeOK, SinkLocked, WorkerLeaves
  <2>6. FlushedSubmitted'
    BY <1>1, <1>kept DEF LockWrite, SinkTypeOK, FlushedSubmitted
  <2> QED BY <2>1, <2>2, <2>3, <2>4, <2>5, <2>6
<1>2. ASSUME NEW w \in LogWriters, SendEntry(w) PROVE SinkInv'
  <2>k. Submitted' = Submitted /\ Kept \subseteq Kept' /\ (writing'[w] = "count" => w \in Kept')
    <3>1. CASE SinkRoom /\ sinkQueue' = Append(sinkQueue, w)
      <4>1. Entries(sinkQueue') = Entries(sinkQueue) \cup {w}
        BY <3>1, EntriesAppend DEF SinkTypeOK
      <4> QED BY <1>2, <4>1 DEF SendEntry, Kept, Submitted
    <3>2. CASE UNCHANGED sinkQueue /\ writing' = [writing EXCEPT ![w] = "dropped"]
      BY <1>2, <1>kept, <3>2 DEF SendEntry, SinkTypeOK
    <3> QED BY <1>2, <3>1, <3>2 DEF SendEntry
  <2>1. SinkTypeOK'
    <3>1. sinkQueue' \in Seq(LogWriters)
      <4>1. sinkQueue \in Seq(LogWriters) /\ Append(sinkQueue, w) \in Seq(LogWriters)
        BY DEF SinkTypeOK
      <4>2. sinkQueue' = sinkQueue \/ sinkQueue' = Append(sinkQueue, w)
        BY <1>2 DEF SendEntry
      <4> QED BY <4>1, <4>2
    <3>2. writing' \in [LogWriters -> {"new", "send", "count", "done", "dropped"}]
      BY <1>2 DEF SendEntry, SinkTypeOK
    <3> QED BY <1>2, <3>1, <3>2 DEF SendEntry, SinkTypeOK
  <2>2. SinkLocked'
    BY <1>2 DEF SendEntry, SinkTypeOK, SinkLocked
  <2>3. PendingExact'
    BY SMTT(30), <1>2 DEF SendEntry, SinkTypeOK, SinkLocked, PendingExact, HandCount
  <2>4. NoneLost'
    BY <1>2, <2>k DEF SendEntry, SinkTypeOK, NoneLost
  <2>5. WorkerLeaves'
    BY <1>2 DEF SendEntry, SinkTypeOK, SinkLocked, WorkerLeaves
  <2>6. FlushedSubmitted'
    BY <1>2, <2>k DEF SendEntry, FlushedSubmitted
  <2> QED BY <2>1, <2>2, <2>3, <2>4, <2>5, <2>6
<1>3. ASSUME NEW w \in LogWriters, SendPanics(w) PROVE SinkInv'
  BY <1>3 DEF SendPanics, SinkLocked
<1>4. ASSUME NEW w \in LogWriters, CountEntry(w) PROVE SinkInv'
  <2>1. SinkTypeOK'
    BY <1>4 DEF CountEntry, SinkTypeOK
  <2>2. SinkLocked'
    BY <1>4 DEF CountEntry, SinkTypeOK, SinkLocked
  <2>3. PendingExact'
    BY <1>4 DEF CountEntry, SinkTypeOK, SinkLocked, PendingExact, HandCount
  <2>4. NoneLost'
    BY <1>4, <1>kept DEF CountEntry, SinkTypeOK, NoneLost
  <2>5. WorkerLeaves'
    BY <1>4 DEF CountEntry, SinkTypeOK, SinkLocked, WorkerLeaves
  <2>6. FlushedSubmitted'
    BY <1>4, <1>kept DEF CountEntry, SinkTypeOK, FlushedSubmitted
  <2> QED BY <2>1, <2>2, <2>3, <2>4, <2>5, <2>6
<1>5. CASE TakeEntry
  <2>s. sinkQueue # << >> /\ sinkQueue \in Seq(LogWriters)
    BY <1>5 DEF TakeEntry, SinkTypeOK
  <2>k. Submitted' = Submitted /\ Kept \ {None} \subseteq Kept'
    <3>1. Entries(sinkQueue) = {inHand'} \cup Entries(sinkQueue')
      BY <1>5, <2>s, EntriesTail DEF TakeEntry
    <3>2. inHand = None
      BY <1>5 DEF TakeEntry, SinkTypeOK
    <3> QED BY <1>5, <3>1, <3>2 DEF TakeEntry, Kept, Submitted
  <2>1. SinkTypeOK'
    BY <1>5 DEF TakeEntry, SinkTypeOK
  <2>2. SinkLocked'
    BY <1>5 DEF TakeEntry, SinkTypeOK, SinkLocked
  <2>3. PendingExact'
    <3>1. Len(sinkQueue) \in Nat \ {0} /\ Len(sinkQueue') = Len(sinkQueue) - 1
      BY <1>5, <2>s DEF TakeEntry
    <3>2. sinkQueue' # << >> => sinkQueue'[Len(sinkQueue')] = sinkQueue[Len(sinkQueue)]
      BY <1>5, <2>s, <3>1 DEF TakeEntry
    <3>3. sinkQueue' = << >> => inHand' = sinkQueue[Len(sinkQueue)]
      BY SMTT(30), <1>5, <2>s, <3>1 DEF TakeEntry
    <3>4. HandCount = 0 /\ HandCount' = 1 /\ pending' = pending /\ writing' = writing
      BY <1>5 DEF TakeEntry, HandCount
    <3>5. pending \in Int
      BY DEF SinkTypeOK
    <3> QED BY <2>s, <3>1, <3>2, <3>3, <3>4, <3>5 DEF PendingExact
  <2>4. NoneLost'
    BY <1>5, <2>k DEF TakeEntry, SinkTypeOK, NoneLost
  <2>5. WorkerLeaves'
    BY <1>5 DEF TakeEntry, SinkTypeOK, SinkLocked, WorkerLeaves
  <2>6. FlushedSubmitted'
    BY <1>5, <2>k DEF TakeEntry, FlushedSubmitted
  <2> QED BY <2>1, <2>2, <2>3, <2>4, <2>5, <2>6
<1>6. CASE SubmitEntry
  <2>k. Submitted \subseteq Submitted' /\ Kept \subseteq Kept'
    <3>1. Entries(submitted') = Entries(submitted) \cup {inHand}
      BY <1>6, EntriesAppend DEF SubmitEntry, SinkTypeOK
    <3> QED BY <1>6, <3>1 DEF SubmitEntry, Kept, Submitted, Entries
  <2>1. SinkTypeOK'
    BY <1>6 DEF SubmitEntry, SinkTypeOK
  <2>2. SinkLocked'
    BY <1>6 DEF SubmitEntry, SinkTypeOK, SinkLocked
  <2>3. PendingExact'
    BY <1>6 DEF SubmitEntry, SinkTypeOK, SinkLocked, PendingExact, HandCount
  <2>4. NoneLost'
    BY <1>6, <2>k DEF SubmitEntry, NoneLost
  <2>5. WorkerLeaves'
    BY <1>6 DEF SubmitEntry, SinkTypeOK, SinkLocked, WorkerLeaves
  <2>6. FlushedSubmitted'
    BY <1>6, <2>k DEF SubmitEntry, FlushedSubmitted
  <2> QED BY <2>1, <2>2, <2>3, <2>4, <2>5, <2>6
<1>7. CASE UncountEntry
  <2>1. SinkTypeOK'
    BY <1>7 DEF UncountEntry, SinkTypeOK
  <2>2. SinkLocked'
    BY <1>7 DEF UncountEntry, SinkTypeOK, SinkLocked
  <2>3. PendingExact'
    BY <1>7 DEF UncountEntry, SinkTypeOK, SinkLocked, PendingExact, HandCount
  <2>4. NoneLost'
    BY <1>7, <1>kept DEF UncountEntry, SinkTypeOK, NoneLost
  <2>5. WorkerLeaves'
    BY <1>7 DEF UncountEntry, SinkTypeOK, SinkLocked, WorkerLeaves
  <2>6. FlushedSubmitted'
    BY <1>7, <1>kept DEF UncountEntry, SinkTypeOK, FlushedSubmitted
  <2> QED BY <2>1, <2>2, <2>3, <2>4, <2>5, <2>6
<1>8. CASE WorkerEnds
  <2>1. SinkTypeOK'
    BY <1>8 DEF WorkerEnds, SinkTypeOK
  <2>2. SinkLocked'
    BY <1>8 DEF WorkerEnds, SinkTypeOK, SinkLocked
  <2>3. PendingExact'
    BY <1>8 DEF WorkerEnds, SinkTypeOK, SinkLocked, PendingExact, HandCount
  <2>4. NoneLost'
    BY <1>8, <1>kept DEF WorkerEnds, SinkTypeOK, NoneLost
  <2>5. WorkerLeaves'
    BY <1>8 DEF WorkerEnds, SinkTypeOK, SinkLocked, WorkerLeaves
  <2>6. FlushedSubmitted'
    BY <1>8, <1>kept DEF WorkerEnds, SinkTypeOK, FlushedSubmitted
  <2> QED BY <2>1, <2>2, <2>3, <2>4, <2>5, <2>6
<1>9. ASSUME NEW f \in Flushers, SyncBegins(f) PROVE SinkInv'
  <2>1. SinkTypeOK'
    BY <1>9 DEF SyncBegins, SinkTypeOK
  <2>2. SinkLocked'
    BY <1>9 DEF SyncBegins, SinkTypeOK, SinkLocked
  <2>3. PendingExact'
    BY <1>9 DEF SyncBegins, SinkTypeOK, SinkLocked, PendingExact, HandCount
  <2>4. NoneLost'
    BY <1>9, <1>kept DEF SyncBegins, SinkTypeOK, NoneLost
  <2>5. WorkerLeaves'
    BY <1>9 DEF SyncBegins, SinkTypeOK, SinkLocked, WorkerLeaves
  <2>6. FlushedSubmitted'
    BY <1>9, <1>kept DEF SyncBegins, SinkTypeOK, FlushedSubmitted
  <2> QED BY <2>1, <2>2, <2>3, <2>4, <2>5, <2>6
<1>10. ASSUME NEW f \in Flushers, SyncReturns(f) PROVE SinkInv'
  <2>1. SinkTypeOK'
    BY <1>10 DEF SyncReturns, SinkTypeOK
  <2>2. SinkLocked'
    BY <1>10 DEF SyncReturns, SinkTypeOK, SinkLocked
  <2>3. PendingExact'
    BY <1>10 DEF SyncReturns, SinkTypeOK, SinkLocked, PendingExact, HandCount
  <2>4. NoneLost'
    BY <1>10, <1>kept DEF SyncReturns, SinkTypeOK, NoneLost
  <2>5. WorkerLeaves'
    BY <1>10 DEF SyncReturns, SinkTypeOK, SinkLocked, WorkerLeaves
  <2>6. FlushedSubmitted'
    <3> SUFFICES ASSUME pending <= 0, NEW v \in before[f] PROVE v \in Submitted
      BY <1>10, <1>kept DEF SyncReturns, SinkTypeOK, FlushedSubmitted
    <3>1. v \in LogWriters /\ writing[v] = "done" /\ v \in Kept
      BY DEF NoneLost, SinkTypeOK
    <3>2. v \notin Entries(sinkQueue) /\ v # inHand
      <4>1. sinkQueue \in Seq(LogWriters) /\ Len(sinkQueue) \in Nat
        BY DEF SinkTypeOK
      <4>2. CASE \A w \in LogWriters : writing[w] # "count"
        <5>1. Len(sinkQueue) = 0 /\ worker # "submit"
          BY <4>1, <4>2 DEF PendingExact, HandCount
        <5> QED BY <3>1, <5>1 DEF Entries, SinkTypeOK
      <4>3. ASSUME NEW w \in LogWriters, writing[w] = "count"
            PROVE  v \notin Entries(sinkQueue) /\ v # inHand
        <5>1. Len(sinkQueue) + HandCount <= 1
          BY <4>1, <4>3 DEF PendingExact, HandCount
        <5>2. \A i \in 1..Len(sinkQueue) : sinkQueue[i] = w
          BY <4>1, <4>3, <5>1 DEF PendingExact, HandCount
        <5>3. worker = "submit" => inHand = w
          BY <4>1, <4>3, <5>1 DEF PendingExact, HandCount
        <5>4. v # w
          BY <3>1, <4>3
        <5> QED BY <3>1, <5>2, <5>3, <5>4 DEF Entries, SinkTypeOK
      <4> QED BY <4>2, <4>3
    <3> QED BY <3>1, <3>2 DEF Kept
  <2> QED BY <2>1, <2>2, <2>3, <2>4, <2>5, <2>6
<1>11. CASE CloseSink
  <2>1. SinkTypeOK'
    BY <1>11 DEF CloseSink, SinkTypeOK
  <2>2. SinkLocked'
    BY <1>11 DEF CloseSink, SinkTypeOK, SinkLocked
  <2>3. PendingExact'
    BY <1>11 DEF CloseSink, SinkTypeOK, SinkLocked, PendingExact, HandCount
  <2>4. NoneLost'
    BY <1>11, <1>kept DEF CloseSink, SinkTypeOK, NoneLost
  <2>5. WorkerLeaves'
    BY <1>11 DEF CloseSink, SinkTypeOK, SinkLocked, WorkerLeaves
  <2>6. FlushedSubmitted'
    BY <1>11, <1>kept DEF CloseSink, SinkTypeOK, FlushedSubmitted
  <2> QED BY <2>1, <2>2, <2>3, <2>4, <2>5, <2>6
<1>12. CASE CloseReturns
  <2>1. SinkTypeOK'
    BY <1>12 DEF CloseReturns, SinkTypeOK
  <2>2. SinkLocked'
    BY <1>12 DEF CloseReturns, SinkTypeOK, SinkLocked
  <2>3. PendingExact'
    BY <1>12 DEF CloseReturns, SinkTypeOK, SinkLocked, PendingExact, HandCount
  <2>4. NoneLost'
    BY <1>12, <1>kept DEF CloseReturns, SinkTypeOK, NoneLost
  <2>5. WorkerLeaves'
    BY <1>12 DEF CloseReturns, SinkTypeOK, SinkLocked, WorkerLeaves
  <2>6. FlushedSubmitted'
    BY <1>12, <1>kept DEF CloseReturns, SinkTypeOK, FlushedSubmitted
  <2> QED BY <2>1, <2>2, <2>3, <2>4, <2>5, <2>6
<1>13. CASE UNCHANGED sinkVars
  <2>1. SinkTypeOK'
    BY <1>13 DEF sinkVars, SinkTypeOK
  <2>2. SinkLocked'
    BY <1>13 DEF sinkVars, SinkTypeOK, SinkLocked
  <2>3. PendingExact'
    BY <1>13 DEF sinkVars, SinkTypeOK, SinkLocked, PendingExact, HandCount
  <2>4. NoneLost'
    BY <1>13, <1>kept DEF sinkVars, SinkTypeOK, NoneLost
  <2>5. WorkerLeaves'
    BY <1>13 DEF sinkVars, SinkTypeOK, SinkLocked, WorkerLeaves
  <2>6. FlushedSubmitted'
    BY <1>13, <1>kept DEF sinkVars, SinkTypeOK, FlushedSubmitted
  <2> QED BY <2>1, <2>2, <2>3, <2>4, <2>5, <2>6
<1> QED
  BY <1>1, <1>2, <1>3, <1>4, <1>5, <1>6, <1>7, <1>8, <1>9, <1>10, <1>11, <1>12, <1>13
     DEF SinkNext, WorkerStep, WriteStep

\* A Sync that returns in time has flushed what was written before it began, and a
\* Close that returns leaves nothing queued, for any writers and any queue size.
THEOREM SyncSafe == SinkSpec => []SyncFlushes
<1>1. SinkInv => SyncFlushes
  BY DEF SinkInv, SyncFlushes, SinkLocked, FlushedSubmitted, WorkerLeaves, SinkTypeOK
<1> QED BY <1>1, SinkInvInit, SinkInvNext, PTL DEF SinkSpec

-----------------------------------------------------------------------------
(* Configuration. *)

CallPlaces == {"new", "checked", "append", "returned", "panicked"}

ConfigTypeOK ==
    /\ value \in SUBSET ConfigCallers
    /\ calling \in [ConfigCallers -> [at : CallPlaces, seen : SUBSET ConfigCallers]]

\* An operation under the lock never has a list in hand.
LockedAppends ==
    Kind = "locked" =>
        /\ \A p \in ConfigCallers : calling[p].at # "append"
        /\ Returned \subseteq value
        /\ configRun \in {"snapshot", "run"} /\ component \in FrozenByServe => setBefore \subseteq used

\* While the flag is set, nothing new gets past the check.
FlagHolds ==
    configRun = "run" /\ component \notin NeverFrozen => flag = TRUE /\ Carried \subseteq admitted

ConfigInv == ConfigTypeOK /\ LockedAppends /\ FlagHolds

LEMMA ConfigInvInit == ConfigInit => ConfigInv
BY DEF ConfigInit, ConfigInv, ConfigTypeOK, CallPlaces, LockedAppends, FlagHolds, Returned

LEMMA ConfigInvNext == ConfigInv /\ [ConfigNext]_configurationVars => ConfigInv'
<1> SUFFICES ASSUME ConfigInv, [ConfigNext]_configurationVars PROVE ConfigInv'
  OBVIOUS
<1> USE DEF ConfigInv, ConfigTypeOK, CallPlaces, LockedAppends, FlagHolds, Returned, InFlight, Carried,
            Kind, CallGoes
<1>1. ASSUME NEW p \in ConfigCallers, RequireNotFrozen(p) PROVE ConfigInv'
  BY <1>1 DEF RequireNotFrozen
<1>2. ASSUME NEW p \in ConfigCallers, AppendLocked(p) PROVE ConfigInv'
  BY <1>2 DEF AppendLocked, Locked
<1>3. ASSUME NEW p \in ConfigCallers, AppendLoads(p) PROVE ConfigInv'
  BY <1>3 DEF AppendLoads, Locked
<1>4. ASSUME NEW p \in ConfigCallers, AppendStores(p) PROVE ConfigInv'
  BY <1>4 DEF AppendStores
<1>5. ASSUME NEW p \in ConfigCallers, Assign(p) PROVE ConfigInv'
  BY <1>5 DEF Assign
<1>6. CASE StartSetsFlag
  <2>1. component \notin NeverFrozen => flag' = TRUE
    BY <1>6 DEF StartSetsFlag
  <2>2. Carried' = Carried /\ admitted' = Carried
    BY <1>6 DEF StartSetsFlag
  <2>3. ConfigTypeOK' /\ LockedAppends'
    BY <1>6 DEF StartSetsFlag
  <2> QED BY <1>6, <2>1, <2>2, <2>3 DEF StartSetsFlag
<1>7. CASE ServeSnapshots
  BY <1>7 DEF ServeSnapshots
<1>8. CASE ServeFreezes
  BY <1>8 DEF ServeFreezes
<1>9. CASE StopClearsFlag
  BY <1>9 DEF StopClearsFlag
<1>10. CASE StopEnds
  BY <1>10 DEF StopEnds
<1>11. CASE UNCHANGED configurationVars
  BY <1>11 DEF configurationVars
<1> QED
  BY <1>1, <1>2, <1>3, <1>4, <1>5, <1>6, <1>7, <1>8, <1>9, <1>10, <1>11 DEF ConfigNext

\* For any number of callers and starts: what a locked Connect added stays added,
\* a jack serves what was set before, and nothing reaches a running component
\* that was not on its way when the flag was set.
THEOREM ConfigurationSafe == ConfigSpec => []ConfigSound
<1>1. ConfigInv => ConfigSound
  BY DEF ConfigInv, ConfigSound, ConnectedKept, FrozenStays, LockedAppends, FlagHolds, Carried
<1> QED BY <1>1, ConfigInvInit, ConfigInvNext, PTL DEF ConfigSpec

-----------------------------------------------------------------------------
(* The sensor. *)

Invocation ==
    [at : {"idle", "header", "call", "store"}, event : followed \cup {"none"},
     about : Parts \cup {"none"}, ptr : Int, len : Int, known : Nat, next : Nat, seen : Nat,
     rounds : Nat]

Added == tally["Start"] + tally["CircuitBreakerTrip"]

SensorTypeOK ==
    /\ slice \in [followed -> [ptr : Nat, len : Nat]]
    /\ byUser \in [followed -> 0..1] /\ returned \in [followed -> Nat]
    /\ registering \in [Registrars -> [event : followed \cup {"none"}, len : Nat, ptr : Nat,
                                       todo : SUBSET {"len", "ptr"}]]
    /\ on \in [Parts -> BOOLEAN]
    /\ emitting \in [Emitters -> Invocation]
    /\ gauge \in Nat /\ tally \in [GaugeEvents -> Nat] /\ missed \in Nat

\* A list in memory is at least as long as what Register has returned for.
ListsLong ==
    /\ \A e \in followed : slice[e].len >= returned[e]
    /\ \A e \in followed : e \in GaugeEvents => returned[e] >= byUser[e] + 1
    /\ \A r \in Registrars : registering[r].todo # {} =>
          /\ cbLock = r
          /\ registering[r].event \in followed
          /\ registering[r].len > returned[registering[r].event]
          /\ "len" \notin registering[r].todo => slice[registering[r].event].len >= registering[r].len

\* An Invoke knows of no callback that its list lacks.
KnowsAll(m) ==
    /\ m.at # "idle" => m.event \in followed
    /\ m.at = "header" => m.known <= returned[m.event] /\ (m.len = -1 \/ m.len >= m.known)
    /\ m.at = "header" => m.next = 1
    /\ m.at \in {"call", "store"} => m.len >= m.known
    /\ m.at # "idle" /\ m.event \in GaugeEvents => m.known >= byUser[m.event] + 1
    /\ m.at = "store" => m.event \in Downs /\ m.next = byUser[m.event] + 1 /\ m.seen <= Added
InvokesServed == \A c \in Emitters : KnowsAll(emitting[c])

\* The reports of e that have still to reach the meter.
Pending(e) ==
    {c \in Emitters :
        /\ emitting[c].event = e
        /\ \/ emitting[c].at \in {"header", "store"}
           \/ emitting[c].at = "call" /\ emitting[c].next <= byUser[e] + 1}
Running == {p \in Parts : on[p]}

\* Starts less stops, done or under way, are the parts that run.
FlagsTold ==
    tally["Start"] + Cardinality(Pending("Start"))
        = tally["Terminate"] + Cardinality(Pending("Terminate")) + Cardinality(Running)

GaugeCounts ==
    /\ gauge <= Added
    /\ ~raced /\ ~cleared => gauge + tally["Terminate"] + tally["Restart"] = Added + missed

SensorInv == SensorTypeOK /\ ListsLong /\ InvokesServed /\ FlagsTold /\ GaugeCounts

LEMMA PendingFinite ==
    /\ \A e : IsFiniteSet(Pending(e)) /\ Cardinality(Pending(e)) \in Nat
    /\ IsFiniteSet(Running) /\ Cardinality(Running) \in Nat
BY SensorAssumption, FS_Subset, FS_CardinalityType DEF Pending, Running

LEMMA SmallMod == \A n \in Nat : n < CountRange => n % CountRange = n
BY SensorAssumption

LEMMA GaugeNames ==
    /\ {"Start", "Terminate", "Restart", "CircuitBreakerTrip"} = GaugeEvents
    /\ Ups = {"Start", "CircuitBreakerTrip"} /\ Downs = {"Terminate", "Restart"}
BY DEF GaugeEvents, Ups, Downs

LEMMA TallyNats ==
    ASSUME SensorTypeOK
    PROVE  /\ tally["Start"] \in Nat /\ tally["Terminate"] \in Nat /\ tally["Restart"] \in Nat
           /\ tally["CircuitBreakerTrip"] \in Nat /\ Added \in Nat
BY GaugeNames DEF SensorTypeOK, Added

LEMMA ArrayForNat == \A n \in Nat : ArrayFor(n) \in Nat
<1> TAKE n \in Nat
<1>1. IsFiniteSet(0..n) /\ {k \in 0..n : ArrayCap(k) < n} \subseteq 0..n
  BY FS_Interval
<1>2. IsFiniteSet({k \in 0..n : ArrayCap(k) < n})
  BY <1>1, FS_Subset
<1> QED BY <1>2, FS_CardinalityType DEF ArrayFor

LEMMA SensorInvInit == SensorInit => SensorInv
<1> SUFFICES ASSUME SensorInit PROVE SensorInv
  OBVIOUS
<1>1. \A e \in followed : byUser[e] \in 0..1 /\ Own(e) \in {0, 1, 2} /\ returned[e] = byUser[e] + Own(e)
  BY DEF SensorInit, Own
<1>2. \A e \in followed : returned[e] \in {0, 1, 2, 3}
  BY <1>1
<1>3. emitting \in [Emitters -> Invocation]
  BY DEF SensorInit, Invoking, Invocation
<1>4. SensorTypeOK
  <2>1. slice \in [followed -> [ptr : Nat, len : Nat]]
    BY <1>2, ArrayForNat DEF SensorInit
  <2>2. returned \in [followed -> Nat]
    BY <1>2 DEF SensorInit
  <2> QED BY <1>3, <2>1, <2>2 DEF SensorInit, SensorTypeOK
<1>5. ListsLong /\ InvokesServed
  <2>1. \A e \in GaugeEvents : Own(e) \in {1, 2}
    BY DEF GaugeEvents, Ups, Downs, Own, Decorated
  <2>2. \A e \in followed : slice[e].len = returned[e]
    BY DEF SensorInit
  <2>3. \A e \in followed : e \in GaugeEvents => returned[e] >= byUser[e] + 1
    BY <1>1, <2>1
  <2>4. \A e \in followed : slice[e].len >= returned[e]
    BY <1>2, <2>2
  <2>5. (\A c \in Emitters : emitting[c].at = "idle") /\ \A r \in Registrars : registering[r].todo = {}
    BY DEF SensorInit, Invoking
  <2> QED BY <2>3, <2>4, <2>5 DEF ListsLong, InvokesServed, KnowsAll
<1>6. Pending("Start") = {} /\ Pending("Terminate") = {} /\ Running = {}
  BY DEF SensorInit, Pending, Running, Invoking
<1>7. FlagsTold
  <2>1. tally["Start"] = 0 /\ tally["Terminate"] = 0
    BY GaugeNames DEF SensorInit
  <2>2. Cardinality({}) = 0
    BY FS_EmptySet
  <2> QED BY <1>6, <2>1, <2>2 DEF FlagsTold
<1>8. GaugeCounts
  BY GaugeNames DEF SensorInit, GaugeCounts, Added
<1> QED BY <1>4, <1>5, <1>7, <1>8 DEF SensorInv

\* A step that leaves the meter, the flags and the pending reports alone.
LEMMA GaugeRests ==
    ASSUME FlagsTold, GaugeCounts, UNCHANGED <<on, gaugeVars>>,
           Pending("Start")' = Pending("Start"), Pending("Terminate")' = Pending("Terminate")
    PROVE  FlagsTold' /\ GaugeCounts'
BY DEF FlagsTold, GaugeCounts, Added, Running, gaugeVars

\* A new report waits to reach the meter.
LEMMA ReportInv ==
    ASSUME SensorInv, NEW c \in Emitters, NEW e, NEW p \in Parts \cup {"none"}, Report(c, e, p),
           on' \in [Parts -> BOOLEAN]
    PROVE  /\ SensorTypeOK' /\ ListsLong' /\ InvokesServed' /\ GaugeCounts'
           /\ \A f : Pending(f)' = IF f = e THEN Pending(f) \cup {c} ELSE Pending(f)
           /\ c \notin Pending(e)
<1> DEFINE m == Invoking(e, p, returned[e], emitting[c].rounds + 1)
<1>1. e \in followed /\ emitting[c].at = "idle" /\ emitting' = [emitting EXCEPT ![c] = m]
      /\ UNCHANGED <<followed, byUser, listVars, gaugeVars, overrun>>
  BY DEF Report
<1>2. m \in Invocation
  <2>1. returned[e] \in Nat /\ emitting[c].rounds \in Nat
    BY <1>1 DEF SensorInv, SensorTypeOK, Invocation
  <2> QED BY <1>1, <2>1 DEF Invocation, Invoking
<1>3. /\ m.at = "header" /\ m.event = e /\ m.len = -1 /\ m.known = returned[e] /\ m.next = 1
  BY DEF Invoking
<1>4. Invocation' = Invocation
  BY <1>1 DEF Invocation
<1> HIDE DEF m
<1>5. emitting' \in [Emitters -> Invocation] /\ emitting'[c] = m /\ \A d \in Emitters : d # c => emitting'[d] = emitting[d]
  BY <1>1, <1>2 DEF SensorInv, SensorTypeOK
<1>6. SensorTypeOK'
  BY <1>1, <1>4, <1>5 DEF SensorInv, SensorTypeOK, listVars, gaugeVars
<1>7. ListsLong'
  BY <1>1 DEF SensorInv, ListsLong, listVars
<1>8. Added' = Added
  BY <1>1 DEF Added, gaugeVars
<1>9. InvokesServed'
  <2>1. ASSUME NEW d \in Emitters, d # c PROVE KnowsAll(emitting[d])'
    BY <1>1, <1>5, <1>8, <2>1 DEF SensorInv, InvokesServed, KnowsAll, listVars
  <2>2. returned[e] \in Nat /\ (e \in GaugeEvents => returned[e] >= byUser[e] + 1)
    BY <1>1 DEF SensorInv, SensorTypeOK, ListsLong
  <2>3. KnowsAll(emitting[c])'
    BY <1>1, <1>3, <1>5, <2>2 DEF KnowsAll, listVars
  <2> QED BY <2>1, <2>3 DEF InvokesServed
<1>10. GaugeCounts'
  BY <1>1, <1>8 DEF SensorInv, GaugeCounts, gaugeVars
<1>11. \A f : Pending(f)' = IF f = e THEN Pending(f) \cup {c} ELSE Pending(f)
  BY <1>1, <1>3, <1>5 DEF Pending
<1>12. c \notin Pending(e)
  BY <1>1 DEF Pending
<1> QED BY <1>6, <1>7, <1>9, <1>10, <1>11, <1>12

\* A step keeps the invariant while what is added fits the counter.
LEMMA SensorInvNext ==
    SensorInv /\ Added < CountRange /\ (Added < CountRange)' /\ [SensorNext]_sensorVars => SensorInv'
<1> SUFFICES ASSUME SensorInv, Added < CountRange, (Added < CountRange)', [SensorNext]_sensorVars
             PROVE  SensorInv'
  OBVIOUS
<1> USE SensorAssumption DEF SensorInv
<1>1. ASSUME NEW r \in Registrars, NEW e \in followed, Register(r, e) PROVE SensorInv'
  <2>0. UNCHANGED <<followed, byUser, slice, returned, on, emitting, gaugeVars, overrun>>
    BY <1>1 DEF Register
  <2>1. SensorTypeOK'
    BY <1>1 DEF Register, SensorTypeOK, Invocation, gaugeVars
  <2>2. ListsLong'
    BY <1>1 DEF Register, SensorTypeOK, ListsLong
  <2>3. InvokesServed'
    BY <2>0 DEF InvokesServed, KnowsAll, Added, gaugeVars
  <2>4. \A f : Pending(f)' = Pending(f)
    BY <2>0 DEF Pending
  <2>5. FlagsTold' /\ GaugeCounts'
    BY <2>0, <2>4, GaugeRests
  <2> QED BY <2>1, <2>2, <2>3, <2>5 DEF SensorInv
<1>2. ASSUME NEW r \in Registrars, NEW w \in {"len", "ptr"}, StoreWord(r, w) PROVE SensorInv'
  <2>0. UNCHANGED <<followed, byUser, on, emitting, gaugeVars, overrun>>
    BY <1>2 DEF StoreWord
  <2>a. registering[r].event \in followed
    BY <1>2 DEF StoreWord, ListsLong
  <2>1. SensorTypeOK'
    <3>1. slice' \in [followed -> [ptr : Nat, len : Nat]]
      <4>1. CASE w = "len"
        BY <1>2, <2>a, <4>1 DEF StoreWord, SensorTypeOK
      <4>2. CASE w = "ptr"
        BY SMTT(30), <1>2, <2>a, <4>2 DEF StoreWord, SensorTypeOK
      <4> QED BY <4>1, <4>2
    <3>2. returned' \in [followed -> Nat]
      BY <1>2, <2>a DEF StoreWord, SensorTypeOK
    <3>3. registering' \in [Registrars -> [event : followed \cup {"none"}, len : Nat, ptr : Nat,
                                           todo : SUBSET {"len", "ptr"}]]
      BY SMTT(30), <1>2 DEF StoreWord, SensorTypeOK
    <3> QED BY <2>0, <3>1, <3>2, <3>3 DEF SensorTypeOK, Invocation, gaugeVars
  <2>2. ListsLong'
    BY SMTT(60), <1>2, <2>a DEF StoreWord, SensorTypeOK, ListsLong
  <2>3. InvokesServed'
    <3>1. \A e \in followed : returned'[e] >= returned[e] /\ returned[e] \in Nat /\ returned'[e] \in Nat
      BY <1>2, <2>a DEF StoreWord, SensorTypeOK
    <3>2. \A c \in Emitters : emitting[c].known \in Nat
      BY DEF SensorTypeOK, Invocation
    <3> QED BY <2>0, <3>1, <3>2 DEF InvokesServed, KnowsAll, Added, gaugeVars
  <2>4. \A f : Pending(f)' = Pending(f)
    BY <2>0 DEF Pending
  <2>5. FlagsTold' /\ GaugeCounts'
    BY <2>0, <2>4, GaugeRests
  <2> QED BY <2>1, <2>2, <2>3, <2>5 DEF SensorInv
<1>3. ASSUME NEW c \in Emitters, NEW p \in Parts, ReportStart(c, p) PROVE SensorInv'
  <2>1. on \in [Parts -> BOOLEAN] /\ ~on[p] /\ on' = [on EXCEPT ![p] = TRUE] /\ Report(c, "Start", p)
    BY <1>3 DEF ReportStart, SensorTypeOK
  <2>2. on' \in [Parts -> BOOLEAN] /\ p \notin Running /\ Running' = Running \cup {p}
    BY <2>1 DEF Running
  <2>3. /\ SensorTypeOK' /\ ListsLong' /\ InvokesServed' /\ GaugeCounts'
        /\ Pending("Start")' = Pending("Start") \cup {c} /\ c \notin Pending("Start")
        /\ Pending("Terminate")' = Pending("Terminate")
    BY <2>1, <2>2, ReportInv
  <2>4. Cardinality(Running') = Cardinality(Running) + 1
        /\ Cardinality(Pending("Start")') = Cardinality(Pending("Start")) + 1
    BY <2>2, <2>3, PendingFinite, FS_AddElement
  <2>5. UNCHANGED tally
    BY <2>1 DEF Report, gaugeVars
  <2>6. FlagsTold'
    BY <2>3, <2>4, <2>5, PendingFinite, TallyNats DEF FlagsTold
  <2> QED BY <2>3, <2>6 DEF SensorInv
<1>4. ASSUME NEW c \in Emitters, NEW p \in Parts, ReportStop(c, p) PROVE SensorInv'
  <2>1. on \in [Parts -> BOOLEAN] /\ on[p] /\ on' = [on EXCEPT ![p] = FALSE] /\ Report(c, "Terminate", p)
    BY <1>4 DEF ReportStop, SensorTypeOK
  <2>2. on' \in [Parts -> BOOLEAN] /\ p \in Running /\ Running' = Running \ {p}
    BY <2>1 DEF Running
  <2>3. /\ SensorTypeOK' /\ ListsLong' /\ InvokesServed' /\ GaugeCounts'
        /\ Pending("Terminate")' = Pending("Terminate") \cup {c} /\ c \notin Pending("Terminate")
        /\ Pending("Start")' = Pending("Start")
    BY <2>1, <2>2, ReportInv
  <2>4. Cardinality(Running') = Cardinality(Running) - 1
        /\ Cardinality(Pending("Terminate")') = Cardinality(Pending("Terminate")) + 1
    BY <2>2, <2>3, PendingFinite, FS_AddElement, FS_RemoveElement
  <2>5. UNCHANGED tally
    BY <2>1 DEF Report, gaugeVars
  <2>6. FlagsTold'
    BY <2>3, <2>4, <2>5, PendingFinite, TallyNats DEF FlagsTold
  <2> QED BY <2>3, <2>6 DEF SensorInv
<1>5. ASSUME NEW c \in Emitters, NEW e, NEW p \in Parts \cup {"none"}, Report(c, e, p), UNCHANGED on,
             e \notin {"Start", "Terminate"}
      PROVE  SensorInv'
  <2>1. /\ SensorTypeOK' /\ ListsLong' /\ InvokesServed' /\ GaugeCounts'
        /\ Pending("Terminate")' = Pending("Terminate") /\ Pending("Start")' = Pending("Start")
    BY <1>5, ReportInv DEF SensorTypeOK
  <2>2. UNCHANGED <<tally, Running>>
    BY <1>5 DEF Report, gaugeVars, Running
  <2>3. FlagsTold'
    BY <2>1, <2>2 DEF FlagsTold
  <2> QED BY <2>1, <2>3 DEF SensorInv
<1>6. ASSUME NEW c \in Emitters, ReadPtr(c) PROVE SensorInv'
  <2> DEFINE m == emitting[c]
             n == [m EXCEPT !.ptr = slice[m.event].ptr]
  <2>1. /\ m.at = "header"
        /\ emitting' = [emitting EXCEPT ![c] = n]
        /\ UNCHANGED <<followed, byUser, listVars, on, gaugeVars>>
    BY <1>6 DEF ReadPtr
  <2>2. /\ m \in Invocation /\ KnowsAll(m) /\ (m.at # "idle" => m.event \in followed) /\ m.next \in Nat
        /\ gauge \in Nat /\ m.len \in Int /\ m.known \in Nat /\ m.rounds \in Nat /\ m.seen \in Nat
    BY DEF SensorTypeOK, InvokesServed, KnowsAll, Invocation
  <2>3. n \in Invocation
    <3>1. slice[m.event].ptr \in Nat
      BY <2>1, <2>2 DEF SensorTypeOK
    <3> QED BY <2>2, <3>1 DEF Invocation
  <2>4. /\ n.event = m.event /\ n.known = m.known
        /\ n.at = m.at /\ n.len = m.len /\ n.next = m.next
    BY <2>2 DEF Invocation
  <2>5. Invocation' = Invocation
    BY <2>1 DEF Invocation
  <2> HIDE DEF n
  <2>6. /\ emitting' \in [Emitters -> Invocation] /\ emitting'[c] = n
        /\ \A d \in Emitters : d # c => emitting'[d] = emitting[d]
    BY <2>1, <2>3 DEF SensorTypeOK
  <2>7. SensorTypeOK'
    BY <2>1, <2>5, <2>6 DEF SensorTypeOK, listVars, gaugeVars
  <2>8. ListsLong'
    BY <2>1 DEF ListsLong, listVars
  <2>9. InvokesServed'
    <3>1. Added' = Added
      BY <2>1 DEF Added, gaugeVars
    <3>2. ASSUME NEW d \in Emitters, d # c PROVE KnowsAll(emitting[d])'
      BY <2>1, <2>6, <3>1, <3>2 DEF InvokesServed, KnowsAll, listVars
    <3>3. KnowsAll(emitting[c])'
      BY <2>1, <2>2, <2>4, <2>6, <3>1 DEF KnowsAll, listVars
    <3> QED BY <3>2, <3>3 DEF InvokesServed
  <2>10. \A f : Pending(f)' = Pending(f)
    BY <2>1, <2>4, <2>6 DEF Pending
  <2>11. FlagsTold' /\ GaugeCounts'
    BY <2>1, <2>10, GaugeRests
  <2> QED BY <2>7, <2>8, <2>9, <2>11 DEF SensorInv
<1>7. ASSUME NEW c \in Emitters, ReadLen(c) PROVE SensorInv'
  <2> DEFINE m == emitting[c]
             n == [m EXCEPT !.len = slice[m.event].len]
  <2>1. /\ m.at = "header"
        /\ emitting' = [emitting EXCEPT ![c] = n]
        /\ UNCHANGED <<followed, byUser, listVars, on, gaugeVars>>
    BY <1>7 DEF ReadLen
  <2>2. /\ m \in Invocation /\ KnowsAll(m) /\ (m.at # "idle" => m.event \in followed) /\ m.next \in Nat
        /\ gauge \in Nat /\ m.len \in Int /\ m.known \in Nat /\ m.rounds \in Nat /\ m.seen \in Nat
    BY DEF SensorTypeOK, InvokesServed, KnowsAll, Invocation
  <2>3. n \in Invocation
    <3>1. slice[m.event].len \in Nat
      BY <2>1, <2>2 DEF SensorTypeOK
    <3> QED BY <2>2, <3>1 DEF Invocation
  <2>4. /\ n.event = m.event /\ n.known = m.known
        /\ n.at = m.at /\ n.len = slice[m.event].len /\ n.next = m.next
    BY <2>2 DEF Invocation
  <2>5. Invocation' = Invocation
    BY <2>1 DEF Invocation
  <2> HIDE DEF n
  <2>6. /\ emitting' \in [Emitters -> Invocation] /\ emitting'[c] = n
        /\ \A d \in Emitters : d # c => emitting'[d] = emitting[d]
    BY <2>1, <2>3 DEF SensorTypeOK
  <2>7. SensorTypeOK'
    BY <2>1, <2>5, <2>6 DEF SensorTypeOK, listVars, gaugeVars
  <2>8. ListsLong'
    BY <2>1 DEF ListsLong, listVars
  <2>9. InvokesServed'
    <3>1. Added' = Added
      BY <2>1 DEF Added, gaugeVars
    <3>2. ASSUME NEW d \in Emitters, d # c PROVE KnowsAll(emitting[d])'
      BY <2>1, <2>6, <3>1, <3>2 DEF InvokesServed, KnowsAll, listVars
    <3>3. KnowsAll(emitting[c])'
      <4>1. /\ slice[m.event].len >= returned[m.event] /\ slice[m.event].len \in Nat
            /\ returned[m.event] \in Nat
        BY <2>1, <2>2 DEF SensorTypeOK, ListsLong
      <4> QED BY <2>1, <2>2, <2>4, <2>6, <3>1, <4>1 DEF KnowsAll, listVars
    <3> QED BY <3>2, <3>3 DEF InvokesServed
  <2>10. \A f : Pending(f)' = Pending(f)
    BY <2>1, <2>4, <2>6 DEF Pending
  <2>11. FlagsTold' /\ GaugeCounts'
    BY <2>1, <2>10, GaugeRests
  <2> QED BY <2>7, <2>8, <2>9, <2>11 DEF SensorInv
<1>8. ASSUME NEW c \in Emitters, SnapshotCallbacks(c) PROVE SensorInv'
  <2> DEFINE m == emitting[c]
             n == [m EXCEPT !.at = "call"]
  <2>1. /\ m.at = "header" /\ m.len # -1
        /\ emitting' = [emitting EXCEPT ![c] = n]
        /\ UNCHANGED <<followed, byUser, listVars, on, gaugeVars>>
    BY <1>8 DEF SnapshotCallbacks
  <2>2. /\ m \in Invocation /\ KnowsAll(m) /\ (m.at # "idle" => m.event \in followed) /\ m.next \in Nat
        /\ gauge \in Nat /\ m.len \in Int /\ m.known \in Nat /\ m.rounds \in Nat /\ m.seen \in Nat
    BY DEF SensorTypeOK, InvokesServed, KnowsAll, Invocation
  <2>3. n \in Invocation
    BY <2>1, <2>2 DEF Invocation
  <2>4. /\ n.event = m.event /\ n.known = m.known
        /\ n.at = "call" /\ n.len = m.len /\ n.next = m.next
    BY <2>2 DEF Invocation
  <2>5. Invocation' = Invocation
    BY <2>1 DEF Invocation
  <2> HIDE DEF n
  <2>6. /\ emitting' \in [Emitters -> Invocation] /\ emitting'[c] = n
        /\ \A d \in Emitters : d # c => emitting'[d] = emitting[d]
    BY <2>1, <2>3 DEF SensorTypeOK
  <2>7. SensorTypeOK'
    BY <2>1, <2>5, <2>6 DEF SensorTypeOK, listVars, gaugeVars
  <2>8. ListsLong'
    BY <2>1 DEF ListsLong, listVars
  <2>9. InvokesServed'
    <3>1. Added' = Added
      BY <2>1 DEF Added, gaugeVars
    <3>2. ASSUME NEW d \in Emitters, d # c PROVE KnowsAll(emitting[d])'
      BY <2>1, <2>6, <3>1, <3>2 DEF InvokesServed, KnowsAll, listVars
    <3>3. KnowsAll(emitting[c])'
      BY <2>1, <2>2, <2>4, <2>6, <3>1 DEF KnowsAll, listVars
    <3> QED BY <3>2, <3>3 DEF InvokesServed
  <2>10. \A f : Pending(f)' = Pending(f)
    <3>1. n.next = 1 /\ byUser[m.event] \in 0..1
      BY <2>1, <2>2, <2>4 DEF KnowsAll, SensorTypeOK
    <3>2. n.next <= byUser[m.event] + 1
      BY <3>1
    <3> QED BY <2>1, <2>4, <2>6, <3>2 DEF Pending
  <2>11. FlagsTold' /\ GaugeCounts'
    BY <2>1, <2>10, GaugeRests
  <2> QED BY <2>7, <2>8, <2>9, <2>11 DEF SensorInv
<1>9. ASSUME NEW c \in Emitters, CallUser(c) PROVE SensorInv'
  <2> DEFINE m == emitting[c]
             n == [m EXCEPT !.next = m.next + 1]
  <2>1. /\ m.at = "call" /\ ~AtMeter(c)
        /\ emitting' = [emitting EXCEPT ![c] = n]
        /\ UNCHANGED <<followed, byUser, listVars, on, gaugeVars>>
    BY <1>9 DEF CallUser
  <2>2. /\ m \in Invocation /\ KnowsAll(m) /\ (m.at # "idle" => m.event \in followed) /\ m.next \in Nat
        /\ gauge \in Nat /\ m.len \in Int /\ m.known \in Nat /\ m.rounds \in Nat /\ m.seen \in Nat
    BY DEF SensorTypeOK, InvokesServed, KnowsAll, Invocation
  <2>3. n \in Invocation
    BY <2>1, <2>2 DEF Invocation
  <2>4. /\ n.event = m.event /\ n.known = m.known
        /\ n.at = m.at /\ n.len = m.len /\ n.next = m.next + 1
    BY <2>2 DEF Invocation
  <2>5. Invocation' = Invocation
    BY <2>1 DEF Invocation
  <2> HIDE DEF n
  <2>6. /\ emitting' \in [Emitters -> Invocation] /\ emitting'[c] = n
        /\ \A d \in Emitters : d # c => emitting'[d] = emitting[d]
    BY <2>1, <2>3 DEF SensorTypeOK
  <2>7. SensorTypeOK'
    BY <2>1, <2>5, <2>6 DEF SensorTypeOK, listVars, gaugeVars
  <2>8. ListsLong'
    BY <2>1 DEF ListsLong, listVars
  <2>9. InvokesServed'
    <3>1. Added' = Added
      BY <2>1 DEF Added, gaugeVars
    <3>2. ASSUME NEW d \in Emitters, d # c PROVE KnowsAll(emitting[d])'
      BY <2>1, <2>6, <3>1, <3>2 DEF InvokesServed, KnowsAll, listVars
    <3>3. KnowsAll(emitting[c])'
      BY <2>1, <2>2, <2>4, <2>6, <3>1 DEF KnowsAll, listVars
    <3> QED BY <3>2, <3>3 DEF InvokesServed
  <2>10. \A f \in {"Start", "Terminate"} : Pending(f)' = Pending(f)
    <3> SUFFICES ASSUME NEW f \in {"Start", "Terminate"}, m.event = f
                 PROVE  n.next <= byUser[f] + 1 <=> m.next <= byUser[f] + 1
      BY <2>1, <2>4, <2>6 DEF Pending
    <3>1. byUser[f] \in 0..1
      BY <2>1, <2>2 DEF SensorTypeOK
    <3>2. m.next # byUser[f] + 1
      BY <2>1, GaugeNames DEF AtMeter
    <3> QED BY <2>2, <2>4, <3>1, <3>2
  <2>11. FlagsTold' /\ GaugeCounts'
    BY <2>1, <2>10, GaugeRests
  <2> QED BY <2>7, <2>8, <2>9, <2>11 DEF SensorInv
<1>10. ASSUME NEW c \in Emitters, IncrementCount(c) PROVE SensorInv'
  <2> DEFINE m == emitting[c]
             n == [m EXCEPT !.next = m.next + 1]
  <2>1. /\ /\ m.at = "call" /\ m.next = byUser[m.event] + 1 /\ m.event \in Ups
           /\ gauge' = (gauge + 1) % CountRange /\ tally' = [tally EXCEPT ![m.event] = @ + 1]
        /\ emitting' = [emitting EXCEPT ![c] = n]
        /\ UNCHANGED <<followed, byUser, listVars, on, missed, raced, cleared>>
    BY <1>10 DEF IncrementCount, AtMeter
  <2>2. /\ m \in Invocation /\ KnowsAll(m) /\ (m.at # "idle" => m.event \in followed) /\ m.next \in Nat
        /\ gauge \in Nat /\ m.len \in Int /\ m.known \in Nat /\ m.rounds \in Nat /\ m.seen \in Nat
    BY DEF SensorTypeOK, InvokesServed, KnowsAll, Invocation
  <2>3. n \in Invocation
    BY <2>1, <2>2 DEF Invocation
  <2>4. /\ n.event = m.event /\ n.known = m.known
        /\ n.at = m.at /\ n.len = m.len /\ n.next = m.next + 1
    BY <2>2 DEF Invocation
  <2>5. Invocation' = Invocation
    BY <2>1 DEF Invocation
  <2> HIDE DEF n
  <2>6. /\ emitting' \in [Emitters -> Invocation] /\ emitting'[c] = n
        /\ \A d \in Emitters : d # c => emitting'[d] = emitting[d]
    BY <2>1, <2>3 DEF SensorTypeOK
  <2>7. SensorTypeOK'
    <3>1. tally' \in [GaugeEvents -> Nat] /\ gauge' \in Nat
      <4>1. m.event \in GaugeEvents /\ tally[m.event] + 1 \in Nat
        BY <2>1 DEF GaugeEvents, SensorTypeOK
      <4>2. (gauge + 1) % CountRange \in Nat
        BY <2>2, SensorAssumption
      <4> QED BY <2>1, <4>1, <4>2 DEF SensorTypeOK
    <3> QED BY <2>1, <2>5, <2>6, <3>1 DEF SensorTypeOK, listVars
  <2>8. ListsLong'
    BY <2>1 DEF ListsLong, listVars
  <2>9. InvokesServed'
    <3>1. Added' = Added + 1 /\ Added \in Nat
      BY <2>1, TallyNats, GaugeNames DEF Added, SensorTypeOK
    <3>2. ASSUME NEW d \in Emitters, d # c PROVE KnowsAll(emitting[d])'
      <4>1. emitting[d].seen \in Nat /\ KnowsAll(emitting[d])
        BY DEF SensorTypeOK, Invocation, InvokesServed
      <4> QED BY <2>1, <2>6, <3>1, <3>2, <4>1 DEF KnowsAll, listVars
    <3>3. KnowsAll(emitting[c])'
      BY <2>1, <2>2, <2>4, <2>6, <3>1 DEF KnowsAll, listVars
    <3> QED BY <3>2, <3>3 DEF InvokesServed
  <2>10. /\ Added' = Added + 1 /\ Added \in Nat /\ Added + 1 < CountRange
         /\ tally'["Terminate"] = tally["Terminate"] /\ tally'["Restart"] = tally["Restart"]
    BY <2>1, TallyNats, GaugeNames DEF Added, SensorTypeOK
  <2>11. FlagsTold' /\ GaugeCounts'
    <3>1. GaugeCounts'
      <4>1. gauge + 1 \in Nat /\ gauge + 1 < CountRange
        BY <2>2, <2>10 DEF GaugeCounts
      <4>2. gauge' = gauge + 1
        BY <2>1, <4>1, SmallMod
      <4>3. UNCHANGED <<raced, cleared, missed>>
        BY <2>1
      <4>4. missed \in Nat
        BY DEF SensorTypeOK
      <4> QED BY <2>2, <2>10, <4>2, <4>3, <4>4, TallyNats DEF GaugeCounts
    <3>2. /\ Running' = Running
          /\ Pending("Terminate")' = Pending("Terminate")
      BY <2>1, <2>4, <2>6, GaugeNames DEF Pending, Running
    <3>3. CASE m.event = "Start"
      <4>0. byUser[m.event] \in 0..1
        BY <2>1, <2>2 DEF SensorTypeOK
      <4>1. c \in Pending("Start") /\ Pending("Start")' = Pending("Start") \ {c}
        <5>1. m.next <= byUser["Start"] + 1 /\ ~(n.next <= byUser["Start"] + 1)
          BY <2>1, <2>2, <2>4, <3>3, <4>0
        <5> QED BY <2>1, <2>4, <2>6, <3>3, <5>1 DEF Pending
      <4>2. Cardinality(Pending("Start")') = Cardinality(Pending("Start")) - 1
        BY <4>1, PendingFinite, FS_RemoveElement
      <4>3. tally'["Start"] = tally["Start"] + 1
        BY <2>1, <3>3, GaugeNames DEF SensorTypeOK
      <4> QED BY <2>10, <3>1, <3>2, <4>2, <4>3, PendingFinite, TallyNats DEF FlagsTold
    <3>4. CASE m.event # "Start"
      <4>1. tally'["Start"] = tally["Start"]
        BY <2>1, <3>4, GaugeNames DEF SensorTypeOK
      <4>2. Pending("Start")' = Pending("Start")
        BY <2>1, <2>4, <2>6, <3>4 DEF Pending
      <4> QED BY <2>10, <3>1, <3>2, <4>1, <4>2 DEF FlagsTold
    <3> QED BY <3>3, <3>4
  <2> QED BY <2>7, <2>8, <2>9, <2>11 DEF SensorInv
<1>11. ASSUME NEW c \in Emitters, LoadCount(c) PROVE SensorInv'
  <2> DEFINE m == emitting[c]
             n == [m EXCEPT !.at = "store", !.seen = gauge]
  <2>1. /\ m.at = "call" /\ m.next = byUser[m.event] + 1 /\ m.event \in Downs
        /\ emitting' = [emitting EXCEPT ![c] = n]
        /\ UNCHANGED <<followed, byUser, listVars, on, gaugeVars>>
    BY <1>11 DEF LoadCount, AtMeter
  <2>2. /\ m \in Invocation /\ KnowsAll(m) /\ (m.at # "idle" => m.event \in followed) /\ m.next \in Nat
        /\ gauge \in Nat /\ m.len \in Int /\ m.known \in Nat /\ m.rounds \in Nat /\ m.seen \in Nat
    BY DEF SensorTypeOK, InvokesServed, KnowsAll, Invocation
  <2>3. n \in Invocation
    BY <2>1, <2>2 DEF Invocation
  <2>4. /\ n.event = m.event /\ n.known = m.known
        /\ n.at = "store" /\ n.len = m.len /\ n.next = m.next /\ n.seen = gauge
    BY <2>2 DEF Invocation
  <2>5. Invocation' = Invocation
    BY <2>1 DEF Invocation
  <2> HIDE DEF n
  <2>6. /\ emitting' \in [Emitters -> Invocation] /\ emitting'[c] = n
        /\ \A d \in Emitters : d # c => emitting'[d] = emitting[d]
    BY <2>1, <2>3 DEF SensorTypeOK
  <2>7. SensorTypeOK'
    BY <2>1, <2>5, <2>6 DEF SensorTypeOK, listVars, gaugeVars
  <2>8. ListsLong'
    BY <2>1 DEF ListsLong, listVars
  <2>9. InvokesServed'
    <3>1. Added' = Added
      BY <2>1 DEF Added, gaugeVars
    <3>2. ASSUME NEW d \in Emitters, d # c PROVE KnowsAll(emitting[d])'
      BY <2>1, <2>6, <3>1, <3>2 DEF InvokesServed, KnowsAll, listVars
    <3>3. KnowsAll(emitting[c])'
      <4>1. gauge <= Added
        BY DEF GaugeCounts
      <4> QED BY <2>1, <2>2, <2>4, <2>6, <3>1, <4>1 DEF KnowsAll, listVars
    <3> QED BY <3>2, <3>3 DEF InvokesServed
  <2>10. \A f : Pending(f)' = Pending(f)
    <3>1. m.next <= byUser[m.event] + 1
      BY <2>1, <2>2
    <3> QED BY <2>1, <2>4, <2>6, <3>1 DEF Pending
  <2>11. FlagsTold' /\ GaugeCounts'
    BY <2>1, <2>10, GaugeRests
  <2> QED BY <2>7, <2>8, <2>9, <2>11 DEF SensorInv
<1>12. ASSUME NEW c \in Emitters, DecrementCount(c) PROVE SensorInv'
  <2> DEFINE m == emitting[c]
             n == [m EXCEPT !.at = "call", !.next = m.next + 1]
  <2>1. /\ /\ m.at = "store" /\ raced' = (raced \/ gauge # m.seen)
           /\ tally' = [tally EXCEPT ![m.event] = @ + 1]
           /\ IF m.seen = 0 THEN missed' = missed + 1 /\ gauge' = gauge
                            ELSE gauge' = (m.seen - 1) % CountRange /\ missed' = missed
        /\ emitting' = [emitting EXCEPT ![c] = n]
        /\ UNCHANGED <<followed, byUser, listVars, on, cleared>>
    BY <1>12 DEF DecrementCount, Decremented
  <2>2. /\ m \in Invocation /\ KnowsAll(m) /\ (m.at # "idle" => m.event \in followed) /\ m.next \in Nat
        /\ gauge \in Nat /\ m.len \in Int /\ m.known \in Nat /\ m.rounds \in Nat /\ m.seen \in Nat
    BY DEF SensorTypeOK, InvokesServed, KnowsAll, Invocation
  <2>3. n \in Invocation
    <3>1. m \in Invocation /\ m.next + 1 \in Nat
      BY <2>2
    <3> HIDE DEF m
    <3> QED BY <3>1 DEF Invocation
  <2>4. /\ n.event = m.event /\ n.known = m.known
        /\ n.at = "call" /\ n.len = m.len /\ n.next = m.next + 1
    BY <2>2 DEF Invocation
  <2>5. Invocation' = Invocation
    BY <2>1 DEF Invocation
  <2> HIDE DEF n
  <2>6. /\ emitting' \in [Emitters -> Invocation] /\ emitting'[c] = n
        /\ \A d \in Emitters : d # c => emitting'[d] = emitting[d]
    BY <2>1, <2>3 DEF SensorTypeOK
  <2>7. SensorTypeOK'
    <3>1. tally' \in [GaugeEvents -> Nat]
      <4>1. m.event \in GaugeEvents
        BY <2>1, <2>2 DEF KnowsAll, GaugeEvents
      <4>2. tally[m.event] + 1 \in Nat
        BY <4>1 DEF SensorTypeOK
      <4> QED BY <2>1, <4>1, <4>2 DEF SensorTypeOK
    <3>2. gauge' \in Nat /\ missed' \in Nat
      <4>1. m.seen # 0 => (m.seen - 1) % CountRange \in Nat
        BY <2>2, SensorAssumption
      <4> QED BY <2>1, <2>2, <4>1 DEF SensorTypeOK
    <3> QED BY <2>1, <2>5, <2>6, <3>1, <3>2 DEF SensorTypeOK, listVars
  <2>8. ListsLong'
    BY <2>1 DEF ListsLong, listVars
  <2>9. InvokesServed'
    <3>1. Added' = Added
      <4>1. m.event \in Downs
        BY <2>1, <2>2 DEF KnowsAll
      <4> QED BY <2>1, <4>1, GaugeNames DEF Added, SensorTypeOK
    <3>2. ASSUME NEW d \in Emitters, d # c PROVE KnowsAll(emitting[d])'
      BY <2>1, <2>6, <3>1, <3>2 DEF InvokesServed, KnowsAll, listVars
    <3>3. KnowsAll(emitting[c])'
      BY <2>1, <2>2, <2>4, <2>6, <3>1 DEF KnowsAll, listVars
    <3> QED BY <3>2, <3>3 DEF InvokesServed
  <2>10. /\ m.event \in Downs /\ m.next = byUser[m.event] + 1 /\ m.seen <= Added /\ Added' = Added
         /\ tally'["Start"] = tally["Start"]
         /\ tally'[m.event] = tally[m.event] + 1
         /\ \A f \in Downs : f # m.event => tally'[f] = tally[f]
    <3>1. m.event \in Downs /\ m.next = byUser[m.event] + 1 /\ m.seen <= Added
      BY <2>1, <2>2 DEF KnowsAll
    <3> QED BY <2>1, <3>1, GaugeNames DEF Added, SensorTypeOK
  <2>11. FlagsTold' /\ GaugeCounts'
    <3>1. GaugeCounts'
      <4>1. Added \in Nat /\ Added < CountRange /\ missed \in Nat
        BY TallyNats DEF SensorTypeOK
      <4>2. m.seen # 0 => gauge' = m.seen - 1 /\ missed' = missed
        <5>1. m.seen # 0 => m.seen - 1 \in Nat /\ m.seen - 1 < CountRange
          BY <2>2, <2>10, <4>1
        <5> QED BY <2>1, <5>1, SmallMod
      <4>3. m.seen = 0 => gauge' = gauge /\ missed' = missed + 1
        BY <2>1
      <4>4. ~raced' => ~raced /\ gauge = m.seen
        BY <2>1
      <4>5. cleared' = cleared
        BY <2>1
      <4>6. tally'["Terminate"] + tally'["Restart"] = tally["Terminate"] + tally["Restart"] + 1
        <5>1. CASE m.event = "Terminate"
          BY <2>10, <5>1, GaugeNames, TallyNats
        <5>2. CASE m.event = "Restart"
          BY <2>10, <5>2, GaugeNames, TallyNats
        <5> QED BY <2>10, <5>1, <5>2, GaugeNames
      <4>7. gauge' <= Added'
        BY <2>2, <2>10, <4>1, <4>2, <4>3 DEF GaugeCounts
      <4>8. ~raced' /\ ~cleared' =>
              gauge' + (tally'["Terminate"] + tally'["Restart"]) = Added' + missed'
        BY <2>2, <2>10, <4>1, <4>2, <4>3, <4>4, <4>5, <4>6, TallyNats DEF GaugeCounts
      <4>9. gauge' \in Nat /\ tally'["Terminate"] \in Nat /\ tally'["Restart"] \in Nat
        BY <2>7, GaugeNames DEF SensorTypeOK
      <4> QED BY <4>7, <4>8, <4>9 DEF GaugeCounts
    <3>2. Running' = Running /\ Pending("Start")' = Pending("Start")
      BY <2>1, <2>4, <2>6, <2>10, GaugeNames DEF Pending, Running
    <3>3. CASE m.event = "Terminate"
      <4>1. c \in Pending("Terminate") /\ Pending("Terminate")' = Pending("Terminate") \ {c}
        <5>0. byUser[m.event] \in 0..1
          BY <2>1, <2>2 DEF SensorTypeOK
        <5>1. ~(n.next <= byUser["Terminate"] + 1)
          BY <2>2, <2>4, <2>10, <3>3, <5>0
        <5> QED BY <2>1, <2>4, <2>6, <3>3, <5>1 DEF Pending
      <4>2. /\ Cardinality(Pending("Terminate")') = Cardinality(Pending("Terminate")) - 1
        BY <4>1, PendingFinite, FS_RemoveElement
      <4> QED BY <2>10, <3>1, <3>2, <3>3, <4>2, PendingFinite, TallyNats DEF FlagsTold
    <3>4. CASE m.event # "Terminate"
      <4>1. tally'["Terminate"] = tally["Terminate"]
        BY <2>10, <3>4, GaugeNames
      <4>2. Pending("Terminate")' = Pending("Terminate")
        BY <2>1, <2>4, <2>6, <3>4 DEF Pending
      <4> QED BY <2>10, <3>1, <3>2, <4>1, <4>2 DEF FlagsTold
    <3> QED BY <3>3, <3>4
  <2> QED BY <2>7, <2>8, <2>9, <2>11 DEF SensorInv
<1>13. ASSUME NEW c \in Emitters, InvokeReturns(c) PROVE SensorInv'
  <2> DEFINE m == emitting[c]
             n == [m EXCEPT !.at = "idle"]
  <2>1. /\ m.at = "call" /\ m.next > m.len
        /\ emitting' = [emitting EXCEPT ![c] = n]
        /\ UNCHANGED <<followed, byUser, listVars, on, gaugeVars>>
    BY <1>13 DEF InvokeReturns
  <2>2. /\ m \in Invocation /\ KnowsAll(m) /\ (m.at # "idle" => m.event \in followed) /\ m.next \in Nat
        /\ gauge \in Nat /\ m.len \in Int /\ m.known \in Nat /\ m.rounds \in Nat /\ m.seen \in Nat
    BY DEF SensorTypeOK, InvokesServed, KnowsAll, Invocation
  <2>3. n \in Invocation
    BY <2>1, <2>2 DEF Invocation
  <2>4. /\ n.event = m.event /\ n.known = m.known
        /\ n.at = "idle" /\ n.len = m.len /\ n.next = m.next
    BY <2>2 DEF Invocation
  <2>5. Invocation' = Invocation
    BY <2>1 DEF Invocation
  <2> HIDE DEF n
  <2>6. /\ emitting' \in [Emitters -> Invocation] /\ emitting'[c] = n
        /\ \A d \in Emitters : d # c => emitting'[d] = emitting[d]
    BY <2>1, <2>3 DEF SensorTypeOK
  <2>7. SensorTypeOK'
    BY <2>1, <2>5, <2>6 DEF SensorTypeOK, listVars, gaugeVars
  <2>8. ListsLong'
    BY <2>1 DEF ListsLong, listVars
  <2>9. InvokesServed'
    <3>1. Added' = Added
      BY <2>1 DEF Added, gaugeVars
    <3>2. ASSUME NEW d \in Emitters, d # c PROVE KnowsAll(emitting[d])'
      BY <2>1, <2>6, <3>1, <3>2 DEF InvokesServed, KnowsAll, listVars
    <3>3. KnowsAll(emitting[c])'
      BY <2>1, <2>2, <2>4, <2>6, <3>1 DEF KnowsAll, listVars
    <3> QED BY <3>2, <3>3 DEF InvokesServed
  <2>10. \A f \in {"Start", "Terminate"} : Pending(f)' = Pending(f)
    <3> SUFFICES ASSUME NEW f \in {"Start", "Terminate"}, m.event = f PROVE ~(m.next <= byUser[f] + 1)
      BY <2>1, <2>4, <2>6 DEF Pending
    <3>1. byUser[f] \in 0..1
      BY <2>1, <2>2 DEF SensorTypeOK
    <3>2. m.len >= m.known /\ m.known >= byUser[f] + 1
      BY <2>1, <2>2, GaugeNames DEF KnowsAll
    <3> QED BY <2>1, <2>2, <3>1, <3>2
  <2>11. FlagsTold' /\ GaugeCounts'
    BY <2>1, <2>10, GaugeRests
  <2> QED BY <2>7, <2>8, <2>9, <2>11 DEF SensorInv
<1>14. CASE resetRunningMetrics
  <2>1. gauge' = 0 /\ cleared' = TRUE
        /\ UNCHANGED <<followed, byUser, listVars, on, emitting, tally, missed, raced, overrun>>
    BY <1>14 DEF resetRunningMetrics
  <2>2. SensorTypeOK' /\ ListsLong' /\ InvokesServed' /\ FlagsTold'
    BY <2>1 DEF SensorTypeOK, ListsLong, InvokesServed, KnowsAll, Added, FlagsTold, Pending, Running,
                listVars, Invocation
  <2>3. GaugeCounts'
    BY <2>1, TallyNats DEF GaugeCounts, Added
  <2> QED BY <2>2, <2>3 DEF SensorInv
<1>15. CASE UNCHANGED sensorVars
  BY <1>15 DEF sensorVars, listVars, gaugeVars, SensorTypeOK, ListsLong, InvokesServed, KnowsAll, Added,
               FlagsTold, Pending, Running, GaugeCounts, Invocation
<1>16. ASSUME NEW c \in Emitters, NEW p \in Parts, ReportRestart(c, p) PROVE SensorInv'
  BY <1>5, <1>16 DEF ReportRestart
<1>17. ASSUME NEW c \in Emitters, NEW e \in followed, Emit(c, e) PROVE SensorInv'
  BY <1>5, <1>17 DEF Emit
<1> QED
  BY <1>1, <1>2, <1>3, <1>4, <1>6, <1>7, <1>8, <1>9, <1>10, <1>11, <1>12, <1>13, <1>14, <1>15,
     <1>16, <1>17 DEF SensorNext

\* For any number of emitters, registrars, parts and lists, as long as the meter's
\* counter can hold what is added to it: no event misses a callback registered before
\* it, and the gauge is what its writers (starts, stops, breaker trips, restarts) have
\* made of it unless a decrement raced or a Monitor that ended has reset it.
THEOREM SensorSafe ==
    SensorSpec /\ [](tally["Start"] + tally["CircuitBreakerTrip"] < CountRange) => []SensorSound
<1>1. ASSUME SensorInv PROVE SensorSound
  <2>1. CallbacksServed
    BY <1>1 DEF SensorInv, CallbacksServed, InvokesServed, KnowsAll
  <2>2. ASSUME \A c \in Emitters : emitting[c].at = "idle", ~raced, ~cleared
        PROVE  gauge + tally["Restart"]
                   = Cardinality({p \in Parts : on[p]}) + tally["CircuitBreakerTrip"] + missed
    <3>1. Pending("Start") = {} /\ Pending("Terminate") = {}
      BY <2>2 DEF Pending
    <3>2. tally["Start"] = tally["Terminate"] + Cardinality(Running) /\ Cardinality(Running) \in Nat
      BY <1>1, <3>1, FS_EmptySet, PendingFinite, TallyNats DEF SensorInv, FlagsTold
    <3>3. gauge + tally["Terminate"] + tally["Restart"] = tally["Start"] + tally["CircuitBreakerTrip"] + missed
      BY <1>1, <2>2 DEF SensorInv, GaugeCounts, Added
    <3>4. gauge \in Nat /\ missed \in Nat
      BY <1>1 DEF SensorInv, SensorTypeOK
    <3> QED BY <1>1, <3>2, <3>3, <3>4, TallyNats DEF Running, SensorInv
  <2>3. GaugeSound
    BY <1>1, <2>2 DEF SensorInv, GaugeCounts, GaugeSound, Added
  <2> QED BY <2>1, <2>3 DEF SensorSound
<1>2. (tally["Start"] + tally["CircuitBreakerTrip"] < CountRange) <=> (Added < CountRange)
  BY DEF Added
<1> QED BY <1>1, <1>2, SensorInvInit, SensorInvNext, PTL DEF SensorSpec

-----------------------------------------------------------------------------
(* Authentication. *)

AuthPlaces ==
    {"new", "install", "policy", "dispatch", "begin", "lookup", "ask", "apply", "store", "done",
     "datagram"}

AuthTypeOK ==
    /\ validator \in Nat
    /\ cache \in [Validators -> [active : BOOLEAN, exp : Nat]]
    /\ authClock \in 0..MaxClock /\ revokedAt \in Nat
    /\ reqAt \in [AuthReqs -> AuthPlaces]
    /\ statics \in [AuthReqs -> BOOLEAN] /\ token \in [AuthReqs -> {"none", "opaque", "jwt"}]
    /\ myV \in [AuthReqs -> Validators] /\ began \in [AuthReqs -> Nat]
    /\ answer \in [AuthReqs -> {"none", "429", "error", "useless", "active", "inactive"}]
    /\ verdict \in [AuthReqs -> {"none", "ok", "bad"}]
    /\ outcome \in [AuthReqs -> {"none", "accepted", "refused"}]

\* Every validator installed belongs to a request that is past its look.
Looking == {r \in AuthReqs : reqAt[r] \in {"new", "install"}}
ValidatorsCounted == validator + Cardinality(Looking) <= Cardinality(AuthReqs)

\* No request passes its look without the validator the options ask for.
ValidatorInstalled == HasValidator => \A r \in AuthReqs \ Looking : validator # 0

\* What is known of a request on its way.
RequestsOpen ==
    \A r \in AuthReqs :
        /\ reqAt[r] \notin {"done", "datagram"} => verdict[r] = "none" /\ outcome[r] = "none"
        /\ reqAt[r] = "datagram" => owner = "webtransport" /\ verdict[r] = "none"
        /\ reqAt[r] \notin {"new", "install", "policy", "done", "datagram"} => statics[r] \/ ~authRequired
        /\ began[r] <= authClock

\* A good answer, cached or on its way, was given before the revocation.
AnswersHonest ==
    /\ revokedAt <= authClock \/ revokedAt = Never
    /\ \A v \in Validators : cache[v].exp <= authClock + TTL
    /\ \A v \in Validators : cache[v].active => cache[v].exp <= revokedAt + TTL
    /\ \A r \in AuthReqs :
          reqAt[r] \in {"apply", "store"} /\ answer[r] = "active" => began[r] <= revokedAt

AuthInv ==
    /\ AuthTypeOK /\ ValidatorsCounted /\ ValidatorInstalled /\ RequestsOpen /\ AnswersHonest
    /\ RevocationHonoured /\ AcceptedApproved

LEMMA LookingFinite ==
    /\ IsFiniteSet(Looking) /\ Cardinality(Looking) \in Nat
    /\ Cardinality(AuthReqs) \in Nat
BY AuthAssumption, FS_Subset, FS_CardinalityType DEF Looking

LEMMA AuthInvInit == AuthInit => AuthInv
<1> SUFFICES ASSUME AuthInit PROVE AuthInv
  OBVIOUS
<1> USE AuthAssumption, LookingFinite DEF AuthInit
<1>1. AuthTypeOK
  BY DEF AuthTypeOK, AuthPlaces, NoEntry, Never, Validators
<1>2. Looking = AuthReqs
  BY DEF Looking
<1>3. ValidatorsCounted /\ ValidatorInstalled
  BY <1>2 DEF ValidatorsCounted, ValidatorInstalled
<1>4. RequestsOpen /\ AnswersHonest /\ RevocationHonoured /\ AcceptedApproved
  BY DEF RequestsOpen, AnswersHonest, RevocationHonoured, AcceptedApproved, Introspected, NoEntry, Never
<1> QED BY <1>1, <1>3, <1>4 DEF AuthInv

\* What a step to a place, and a verdict, leave behind.
LEMMA ReqToTypes ==
    ASSUME AuthTypeOK, NEW r \in AuthReqs, NEW place \in AuthPlaces, ReqTo(r, place)
    PROVE  reqAt' \in [AuthReqs -> AuthPlaces]
BY DEF ReqTo, AuthTypeOK

LEMMA VerdictTypes ==
    ASSUME AuthTypeOK, NEW r \in AuthReqs, NEW ok \in BOOLEAN, Verdict(r, ok)
    PROVE  /\ reqAt' \in [AuthReqs -> AuthPlaces]
           /\ verdict' \in [AuthReqs -> {"none", "ok", "bad"}]
           /\ outcome' \in [AuthReqs -> {"none", "accepted", "refused"}]
<1>1. reqAt' \in [AuthReqs -> AuthPlaces]
  BY ReqToTypes DEF Verdict, Decide, AuthPlaces
<1>2. verdict' \in [AuthReqs -> {"none", "ok", "bad"}]
  BY DEF Verdict, AuthTypeOK
<1>3. outcome' \in [AuthReqs -> {"none", "accepted", "refused"}]
  BY DEF Verdict, Decide, Soften, AuthTypeOK
<1> QED BY <1>1, <1>2, <1>3

LEMMA AuthInvNext == AuthInv /\ [AuthNext]_authVars => AuthInv'
<1> SUFFICES ASSUME AuthInv, [AuthNext]_authVars PROVE AuthInv'
  OBVIOUS
<1> USE AuthAssumption
    DEF AuthInv, confVars, cacheVars, timeVars, ReqTo, Soften, Decide, Verdict
<1>1. CASE AuthTick
  BY <1>1 DEF AuthTick, AuthTypeOK, ValidatorsCounted, ValidatorInstalled, HasValidator, Looking, RequestsOpen,
     AnswersHonest, Never, RevocationHonoured, Introspected, AcceptedApproved
<1>2. CASE Revoke
  BY <1>2 DEF Revoke, AuthTypeOK, ValidatorsCounted, ValidatorInstalled, HasValidator, Looking, RequestsOpen,
     AnswersHonest, Never, RevocationHonoured, Introspected, AcceptedApproved
<1>3. ASSUME NEW r \in AuthReqs, Arrive(r) PROVE AuthInv'
  <2>1. AuthTypeOK'
    BY <1>3 DEF Arrive, AuthTypeOK, AuthPlaces
  <2>2. ValidatorsCounted'
    <3>1. r \in Looking
      BY <1>3 DEF Arrive, Looking
    <3>2. Cardinality(Looking \ {r}) = Cardinality(Looking) - 1
      BY <3>1, LookingFinite, FS_RemoveElement
    <3>3. \/ Looking' = Looking /\ validator' = validator
          \/ Looking' = Looking \ {r} /\ validator' \in Nat /\ validator' <= validator + 1
      <4>1. CASE owner \in Relays
        BY <1>3, <4>1 DEF Arrive, AuthTypeOK, AuthPlaces, Looking
      <4>2. CASE owner \notin Relays
        BY <1>3, <4>2 DEF Arrive, AuthTypeOK, AuthPlaces, Looking
      <4> QED BY <4>1, <4>2
    <3>4. CASE Looking' = Looking /\ validator' = validator
      BY <3>4 DEF ValidatorsCounted
    <3>5. CASE Looking' = Looking \ {r} /\ validator' \in Nat /\ validator' <= validator + 1
      <4>1. Cardinality(Looking') = Cardinality(Looking) - 1
        BY <3>2, <3>5
      <4> QED BY <3>5, <4>1, LookingFinite DEF ValidatorsCounted, AuthTypeOK
    <3> QED BY <3>3, <3>4, <3>5
  <2>3. ValidatorInstalled'
    BY <1>3 DEF Arrive, AuthTypeOK, ValidatorInstalled, HasValidator, Looking
  <2>4. RequestsOpen'
    BY <1>3 DEF Arrive, AuthTypeOK, AuthPlaces, RequestsOpen
  <2>5. AnswersHonest'
    BY <1>3 DEF Arrive, AuthTypeOK, AuthPlaces, RequestsOpen, AnswersHonest, Never
  <2>6. RevocationHonoured'
    BY <1>3 DEF Arrive, AuthTypeOK, AuthPlaces, RequestsOpen, AnswersHonest, RevocationHonoured, Introspected
  <2>7. AcceptedApproved'
    BY <1>3 DEF Arrive, AuthTypeOK, AuthPlaces, RequestsOpen, ValidatorInstalled, AcceptedApproved, HasValidator, Looking
  <2> QED BY <2>1, <2>2, <2>3, <2>4, <2>5, <2>6, <2>7 DEF AuthInv
<1>4. ASSUME NEW r \in AuthReqs, Install(r) PROVE AuthInv'
  <2>1. AuthTypeOK'
    BY <1>4 DEF Install, AuthTypeOK, AuthPlaces
  <2>2. ValidatorsCounted'
    <3>1. r \in Looking /\ Looking' = Looking \ {r}
      BY <1>4 DEF Install, AuthTypeOK, AuthPlaces, Looking
    <3>2. Cardinality(Looking') = Cardinality(Looking) - 1
      BY <3>1, LookingFinite, FS_RemoveElement
    <3> QED BY <1>4, <3>2, LookingFinite DEF Install, ValidatorsCounted, AuthTypeOK
  <2>3. ValidatorInstalled'
    BY <1>4 DEF Install, AuthTypeOK, ValidatorInstalled, HasValidator, Looking
  <2>4. RequestsOpen'
    BY <1>4 DEF Install, AuthTypeOK, AuthPlaces, RequestsOpen
  <2>5. AnswersHonest'
    BY <1>4 DEF Install, AuthTypeOK, AuthPlaces, RequestsOpen, AnswersHonest, Never
  <2>6. RevocationHonoured'
    BY <1>4 DEF Install, AuthTypeOK, AuthPlaces, RequestsOpen, AnswersHonest, RevocationHonoured, Introspected
  <2>7. AcceptedApproved'
    BY <1>4 DEF Install, AuthTypeOK, AuthPlaces, RequestsOpen, ValidatorInstalled, AcceptedApproved, HasValidator, Looking
  <2> QED BY <2>1, <2>2, <2>3, <2>4, <2>5, <2>6, <2>7 DEF AuthInv
<1>5. ASSUME NEW r \in AuthReqs, GrpcPolicy(r) PROVE AuthInv'
  <2>1. AuthTypeOK'
    <3>1. validator \in Validators
      BY LookingFinite DEF AuthTypeOK, ValidatorsCounted, Validators
    <3>2. myV' \in [AuthReqs -> Validators]
      BY <1>5, <3>1 DEF GrpcPolicy, CallValidator, AuthTypeOK
    <3> QED BY <1>5, <3>2 DEF GrpcPolicy, CallValidator, AuthTypeOK, AuthPlaces
  <2>l. Looking' = Looking
    BY <1>5 DEF GrpcPolicy, CallValidator, AuthTypeOK, AuthPlaces, Looking
  <2>2. ValidatorsCounted'
    BY <1>5, <2>l DEF GrpcPolicy, ValidatorsCounted
  <2>3. ValidatorInstalled'
    BY <1>5 DEF GrpcPolicy, CallValidator, AuthTypeOK, ValidatorInstalled, HasValidator, Looking
  <2>4. RequestsOpen'
    BY <1>5 DEF GrpcPolicy, CallValidator, AuthTypeOK, AuthPlaces, RequestsOpen
  <2>5. AnswersHonest'
    BY <1>5 DEF GrpcPolicy, CallValidator, AuthTypeOK, AuthPlaces, RequestsOpen, AnswersHonest, Never
  <2>6. RevocationHonoured'
    BY <1>5 DEF GrpcPolicy, CallValidator, AuthTypeOK, AuthPlaces, RequestsOpen, AnswersHonest, RevocationHonoured, Introspected
  <2>7. AcceptedApproved'
    BY <1>5 DEF GrpcPolicy, CallValidator, AuthTypeOK, AuthPlaces, RequestsOpen, ValidatorInstalled, AcceptedApproved, HasValidator, Looking
  <2> QED BY <2>1, <2>2, <2>3, <2>4, <2>5, <2>6, <2>7 DEF AuthInv
<1>6. ASSUME NEW r \in AuthReqs, FirstErrorWins(r) PROVE AuthInv'
  <2>1. AuthTypeOK'
    <3>1. validator \in Validators
      BY LookingFinite DEF AuthTypeOK, ValidatorsCounted, Validators
    <3>2. myV' \in [AuthReqs -> Validators]
      BY <1>6, <3>1 DEF FirstErrorWins, CallValidator, AuthTypeOK
    <3> QED BY <1>6, <3>2 DEF FirstErrorWins, CallValidator, AuthTypeOK, AuthPlaces
  <2>l. Looking' = Looking
    BY <1>6 DEF FirstErrorWins, CallValidator, AuthTypeOK, AuthPlaces, Looking
  <2>2. ValidatorsCounted'
    BY <1>6, <2>l DEF FirstErrorWins, ValidatorsCounted
  <2>3. ValidatorInstalled'
    BY <1>6 DEF FirstErrorWins, CallValidator, AuthTypeOK, ValidatorInstalled, HasValidator, Looking
  <2>4. RequestsOpen'
    BY <1>6 DEF FirstErrorWins, CallValidator, AuthTypeOK, AuthPlaces, RequestsOpen
  <2>5. AnswersHonest'
    BY <1>6 DEF FirstErrorWins, CallValidator, AuthTypeOK, AuthPlaces, RequestsOpen, AnswersHonest, Never
  <2>6. RevocationHonoured'
    BY <1>6 DEF FirstErrorWins, CallValidator, AuthTypeOK, AuthPlaces, RequestsOpen, AnswersHonest, RevocationHonoured, Introspected
  <2>7. AcceptedApproved'
    <3>1. authRequired' = authRequired /\ statics' = statics /\ verdict' = verdict /\ owner' = owner /\ HasValidator' = HasValidator
      BY <1>6 DEF FirstErrorWins, HasValidator
    <3>2. outcome'[r] = "accepted" /\ authRequired => statics[r] /\ ~HasValidator
      BY <1>6 DEF FirstErrorWins, CallValidator, AuthTypeOK, AuthPlaces, RequestsOpen, ValidatorInstalled, Looking, Decide, ReqTo
    <3>3. \A q \in AuthReqs \ {r} : outcome'[q] = outcome[q] /\ reqAt'[q] = reqAt[q]
      BY <1>6 DEF FirstErrorWins, CallValidator, AuthTypeOK, Decide, ReqTo
    <3> QED BY <3>1, <3>2, <3>3 DEF AcceptedApproved, AuthInv
  <2> QED BY <2>1, <2>2, <2>3, <2>4, <2>5, <2>6, <2>7 DEF AuthInv
<1>7. ASSUME NEW r \in AuthReqs, Dispatch(r) PROVE AuthInv'
  <2>1. AuthTypeOK'
    <3>1. UNCHANGED <<validator, cache, authClock, revokedAt, statics, token, myV, began, answer>>
      BY <1>7 DEF Dispatch
    <3>2. (\E ok \in BOOLEAN : Verdict(r, ok)) \/ (ReqTo(r, "begin") /\ UNCHANGED <<verdict, outcome>>)
      BY <1>7 DEF Dispatch
    <3>3. /\ reqAt' \in [AuthReqs -> AuthPlaces]
          /\ verdict' \in [AuthReqs -> {"none", "ok", "bad"}]
          /\ outcome' \in [AuthReqs -> {"none", "accepted", "refused"}]
      <4> HIDE DEF Verdict, ReqTo
      <4>1. ASSUME NEW ok \in BOOLEAN, Verdict(r, ok) PROVE  /\ reqAt' \in [AuthReqs -> AuthPlaces]
                 /\ verdict' \in [AuthReqs -> {"none", "ok", "bad"}]
                 /\ outcome' \in [AuthReqs -> {"none", "accepted", "refused"}]
        BY <4>1, VerdictTypes
      <4>2. CASE ReqTo(r, "begin") /\ UNCHANGED <<verdict, outcome>>
        BY <4>2, ReqToTypes DEF AuthTypeOK, AuthPlaces
      <4> QED BY <3>2, <4>1, <4>2
    <3> QED BY <3>1, <3>3 DEF AuthTypeOK
  <2>l. Looking' = Looking
    BY <1>7 DEF Dispatch, AuthTypeOK, AuthPlaces, Looking
  <2>2. ValidatorsCounted'
    BY <1>7, <2>l DEF Dispatch, ValidatorsCounted
  <2>3. ValidatorInstalled'
    BY <1>7 DEF Dispatch, AuthTypeOK, ValidatorInstalled, HasValidator, Looking
  <2>4. RequestsOpen'
    BY <1>7 DEF Dispatch, AuthTypeOK, AuthPlaces, RequestsOpen
  <2>5. AnswersHonest'
    BY <1>7 DEF Dispatch, AuthTypeOK, AuthPlaces, RequestsOpen, AnswersHonest, Never
  <2>6. RevocationHonoured'
    BY <1>7 DEF Dispatch, AuthTypeOK, AuthPlaces, RequestsOpen, AnswersHonest, RevocationHonoured, Introspected
  <2>7. AcceptedApproved'
    BY SMTT(30), <1>7 DEF Dispatch, AuthTypeOK, AuthPlaces, RequestsOpen, ValidatorInstalled, AcceptedApproved, HasValidator, Looking
  <2> QED BY <2>1, <2>2, <2>3, <2>4, <2>5, <2>6, <2>7 DEF AuthInv
<1>8. ASSUME NEW r \in AuthReqs, Begin(r) PROVE AuthInv'
  <2>1. AuthTypeOK'
    <3>1. UNCHANGED <<validator, cache, authClock, revokedAt, statics, token, myV, answer>>
      BY <1>8 DEF Begin
    <3>2. began' \in [AuthReqs -> Nat]
      BY <1>8 DEF Begin, AuthTypeOK
    <3>3. /\ reqAt' \in [AuthReqs -> AuthPlaces]
          /\ verdict' \in [AuthReqs -> {"none", "ok", "bad"}]
          /\ outcome' \in [AuthReqs -> {"none", "accepted", "refused"}]
      <4> HIDE DEF Verdict, ReqTo
      <4>1. Verdict(r, FALSE) \/ (ReqTo(r, "lookup") /\ UNCHANGED <<verdict, outcome>>)
        BY <1>8 DEF Begin
      <4>2. CASE Verdict(r, FALSE)
        BY <4>2, VerdictTypes
      <4>3. CASE ReqTo(r, "lookup") /\ UNCHANGED <<verdict, outcome>>
        BY <4>3, ReqToTypes DEF AuthTypeOK, AuthPlaces
      <4> QED BY <4>1, <4>2, <4>3
    <3> QED BY <3>1, <3>2, <3>3 DEF AuthTypeOK
  <2>l. Looking' = Looking
    BY <1>8 DEF Begin, AuthTypeOK, AuthPlaces, Looking
  <2>2. ValidatorsCounted'
    BY <1>8, <2>l DEF Begin, ValidatorsCounted
  <2>3. ValidatorInstalled'
    BY <1>8 DEF Begin, AuthTypeOK, ValidatorInstalled, HasValidator, Looking
  <2>4. RequestsOpen'
    BY <1>8 DEF Begin, AuthTypeOK, AuthPlaces, RequestsOpen
  <2>5. AnswersHonest'
    BY <1>8 DEF Begin, AuthTypeOK, AuthPlaces, RequestsOpen, AnswersHonest, Never
  <2>6. RevocationHonoured'
    BY <1>8 DEF Begin, AuthTypeOK, AuthPlaces, RequestsOpen, AnswersHonest, RevocationHonoured, Introspected
  <2>7. AcceptedApproved'
    BY <1>8 DEF Begin, AuthTypeOK, AuthPlaces, RequestsOpen, ValidatorInstalled, AcceptedApproved, HasValidator, Looking
  <2> QED BY <2>1, <2>2, <2>3, <2>4, <2>5, <2>6, <2>7 DEF AuthInv
<1>9. ASSUME NEW r \in AuthReqs, Lookup(r) PROVE AuthInv'
  <2>1. AuthTypeOK'
    BY ZenonT(40), <1>9 DEF Lookup, AuthTypeOK, AuthPlaces
  <2>l. Looking' = Looking
    BY <1>9 DEF Lookup, AuthTypeOK, AuthPlaces, Looking
  <2>2. ValidatorsCounted'
    BY <1>9, <2>l DEF Lookup, ValidatorsCounted
  <2>3. ValidatorInstalled'
    BY <1>9 DEF Lookup, AuthTypeOK, ValidatorInstalled, HasValidator, Looking
  <2>4. RequestsOpen'
    BY <1>9 DEF Lookup, AuthTypeOK, AuthPlaces, RequestsOpen
  <2>5. AnswersHonest'
    BY <1>9 DEF Lookup, AuthTypeOK, AuthPlaces, RequestsOpen, AnswersHonest, Never
  <2>6. RevocationHonoured'
    BY <1>9 DEF Lookup, AuthTypeOK, AuthPlaces, RequestsOpen, AnswersHonest, RevocationHonoured, Introspected
  <2>7. AcceptedApproved'
    BY SMTT(30), <1>9 DEF Lookup, AuthTypeOK, AuthPlaces, RequestsOpen, ValidatorInstalled, AcceptedApproved, HasValidator, Looking
  <2> QED BY <2>1, <2>2, <2>3, <2>4, <2>5, <2>6, <2>7 DEF AuthInv
<1>10. ASSUME NEW r \in AuthReqs, Answer(r) PROVE AuthInv'
  <2>1. AuthTypeOK'
    BY <1>10 DEF Answer, AuthTypeOK, AuthPlaces
  <2>l. Looking' = Looking
    BY <1>10 DEF Answer, AuthTypeOK, AuthPlaces, Looking
  <2>2. ValidatorsCounted'
    BY <1>10, <2>l DEF Answer, ValidatorsCounted
  <2>3. ValidatorInstalled'
    BY <1>10 DEF Answer, AuthTypeOK, ValidatorInstalled, HasValidator, Looking
  <2>4. RequestsOpen'
    BY <1>10 DEF Answer, AuthTypeOK, AuthPlaces, RequestsOpen
  <2>5. AnswersHonest'
    BY <1>10 DEF Answer, AuthTypeOK, AuthPlaces, RequestsOpen, AnswersHonest, Never
  <2>6. RevocationHonoured'
    BY <1>10 DEF Answer, AuthTypeOK, AuthPlaces, RequestsOpen, AnswersHonest, RevocationHonoured, Introspected
  <2>7. AcceptedApproved'
    BY <1>10 DEF Answer, AuthTypeOK, AuthPlaces, RequestsOpen, ValidatorInstalled, AcceptedApproved, HasValidator, Looking
  <2> QED BY <2>1, <2>2, <2>3, <2>4, <2>5, <2>6, <2>7 DEF AuthInv
<1>11. ASSUME NEW r \in AuthReqs, TooManyRequests(r) PROVE AuthInv'
  <2>1. AuthTypeOK'
    BY <1>11 DEF TooManyRequests, AuthTypeOK, AuthPlaces
  <2>l. Looking' = Looking
    BY <1>11 DEF TooManyRequests, AuthTypeOK, AuthPlaces, Looking
  <2>2. ValidatorsCounted'
    BY <1>11, <2>l DEF TooManyRequests, ValidatorsCounted
  <2>3. ValidatorInstalled'
    BY <1>11 DEF TooManyRequests, AuthTypeOK, ValidatorInstalled, HasValidator, Looking
  <2>4. RequestsOpen'
    BY <1>11 DEF TooManyRequests, AuthTypeOK, AuthPlaces, RequestsOpen
  <2>5. AnswersHonest'
    BY <1>11 DEF TooManyRequests, AuthTypeOK, AuthPlaces, RequestsOpen, AnswersHonest, Never
  <2>6. RevocationHonoured'
    BY <1>11 DEF TooManyRequests, AuthTypeOK, AuthPlaces, RequestsOpen, AnswersHonest, RevocationHonoured, Introspected
  <2>7. AcceptedApproved'
    BY <1>11 DEF TooManyRequests, AuthTypeOK, AuthPlaces, RequestsOpen, ValidatorInstalled, AcceptedApproved, HasValidator, Looking
  <2> QED BY <2>1, <2>2, <2>3, <2>4, <2>5, <2>6, <2>7 DEF AuthInv
<1>12. ASSUME NEW r \in AuthReqs, EndBackoff(r) PROVE AuthInv'
  <2>1. AuthTypeOK'
    BY <1>12 DEF EndBackoff, AuthTypeOK, AuthPlaces
  <2>l. Looking' = Looking
    BY <1>12 DEF EndBackoff, AuthTypeOK, AuthPlaces, Looking
  <2>2. ValidatorsCounted'
    BY <1>12, <2>l DEF EndBackoff, ValidatorsCounted
  <2>3. ValidatorInstalled'
    BY <1>12 DEF EndBackoff, AuthTypeOK, ValidatorInstalled, HasValidator, Looking
  <2>4. RequestsOpen'
    BY <1>12 DEF EndBackoff, AuthTypeOK, AuthPlaces, RequestsOpen
  <2>5. AnswersHonest'
    BY <1>12 DEF EndBackoff, AuthTypeOK, AuthPlaces, RequestsOpen, AnswersHonest, Never
  <2>6. RevocationHonoured'
    BY <1>12 DEF EndBackoff, AuthTypeOK, AuthPlaces, RequestsOpen, AnswersHonest, RevocationHonoured, Introspected
  <2>7. AcceptedApproved'
    BY <1>12 DEF EndBackoff, AuthTypeOK, AuthPlaces, RequestsOpen, ValidatorInstalled, AcceptedApproved, HasValidator, Looking
  <2> QED BY <2>1, <2>2, <2>3, <2>4, <2>5, <2>6, <2>7 DEF AuthInv
<1>13. ASSUME NEW r \in AuthReqs, AskFails(r) PROVE AuthInv'
  <2>1. AuthTypeOK'
    BY <1>13 DEF AskFails, AuthTypeOK, AuthPlaces
  <2>l. Looking' = Looking
    BY <1>13 DEF AskFails, AuthTypeOK, AuthPlaces, Looking
  <2>2. ValidatorsCounted'
    BY <1>13, <2>l DEF AskFails, ValidatorsCounted
  <2>3. ValidatorInstalled'
    BY <1>13 DEF AskFails, AuthTypeOK, ValidatorInstalled, HasValidator, Looking
  <2>4. RequestsOpen'
    BY <1>13 DEF AskFails, AuthTypeOK, AuthPlaces, RequestsOpen
  <2>5. AnswersHonest'
    BY <1>13 DEF AskFails, AuthTypeOK, AuthPlaces, RequestsOpen, AnswersHonest, Never
  <2>6. RevocationHonoured'
    BY <1>13 DEF AskFails, AuthTypeOK, AuthPlaces, RequestsOpen, AnswersHonest, RevocationHonoured, Introspected
  <2>7. AcceptedApproved'
    BY <1>13 DEF AskFails, AuthTypeOK, AuthPlaces, RequestsOpen, ValidatorInstalled, AcceptedApproved, HasValidator, Looking
  <2> QED BY <2>1, <2>2, <2>3, <2>4, <2>5, <2>6, <2>7 DEF AuthInv
<1>14. ASSUME NEW r \in AuthReqs, StoreAnswer(r) PROVE AuthInv'
  <2>1. AuthTypeOK'
    BY <1>14 DEF StoreAnswer, AuthTypeOK, AuthPlaces
  <2>l. Looking' = Looking
    BY <1>14 DEF StoreAnswer, AuthTypeOK, AuthPlaces, Looking
  <2>2. ValidatorsCounted'
    BY <1>14, <2>l DEF StoreAnswer, ValidatorsCounted
  <2>3. ValidatorInstalled'
    BY <1>14 DEF StoreAnswer, AuthTypeOK, ValidatorInstalled, HasValidator, Looking
  <2>4. RequestsOpen'
    BY <1>14 DEF StoreAnswer, AuthTypeOK, AuthPlaces, RequestsOpen
  <2>5. AnswersHonest'
    <3>1. myV[r] \in Validators /\ cache' = [cache EXCEPT ![myV[r]] = cache'[myV[r]]]
      BY <1>14 DEF StoreAnswer, AuthTypeOK
    <3>2. cache'[myV[r]].exp = began[r] + TTL /\ (cache'[myV[r]].active <=> answer[r] = "active")
      BY <1>14 DEF StoreAnswer, AuthTypeOK
    <3>3. answer[r] = "active" => began[r] <= revokedAt
      BY <1>14 DEF StoreAnswer, AnswersHonest
    <3>4. ASSUME NEW v \in Validators
          PROVE  cache'[v].exp <= authClock + TTL /\ (cache'[v].active => cache'[v].exp <= revokedAt + TTL)
      <4>1. CASE v = myV[r]
        BY <3>2, <3>3, <4>1 DEF RequestsOpen, AuthTypeOK
      <4>2. CASE v # myV[r]
        BY <1>14, <4>2 DEF StoreAnswer, AnswersHonest, AuthTypeOK
      <4> QED BY <4>1, <4>2
    <3> QED BY <1>14, <3>4 DEF StoreAnswer, AuthTypeOK, AuthPlaces, AnswersHonest, Never
  <2>6. RevocationHonoured'
    BY <1>14 DEF StoreAnswer, AuthTypeOK, AuthPlaces, RequestsOpen, AnswersHonest, RevocationHonoured, Introspected
  <2>7. AcceptedApproved'
    BY <1>14 DEF StoreAnswer, AuthTypeOK, AuthPlaces, RequestsOpen, ValidatorInstalled, AcceptedApproved, HasValidator, Looking
  <2> QED BY <2>1, <2>2, <2>3, <2>4, <2>5, <2>6, <2>7 DEF AuthInv
<1>17. ASSUME NEW r \in AuthReqs, handleDatagram(r) PROVE AuthInv'
  <2>1. AuthTypeOK'
    BY <1>17 DEF handleDatagram, AuthTypeOK, AuthPlaces
  <2>l. Looking' = Looking
    BY <1>17 DEF handleDatagram, AuthTypeOK, AuthPlaces, Looking
  <2>2. ValidatorsCounted'
    BY <1>17, <2>l DEF handleDatagram, ValidatorsCounted
  <2>3. ValidatorInstalled'
    BY <1>17 DEF handleDatagram, AuthTypeOK, ValidatorInstalled, HasValidator, Looking
  <2>4. RequestsOpen'
    BY <1>17 DEF handleDatagram, AuthTypeOK, AuthPlaces, RequestsOpen
  <2>5. AnswersHonest'
    BY <1>17 DEF handleDatagram, AuthTypeOK, AuthPlaces, RequestsOpen, AnswersHonest, Never
  <2>6. RevocationHonoured'
    BY <1>17 DEF handleDatagram, AuthTypeOK, AuthPlaces, RequestsOpen, AnswersHonest, RevocationHonoured, Introspected
  <2>7. AcceptedApproved'
    BY <1>17 DEF handleDatagram, AuthTypeOK, AuthPlaces, RequestsOpen, ValidatorInstalled, AcceptedApproved, HasValidator, Looking
  <2> QED BY <2>1, <2>2, <2>3, <2>4, <2>5, <2>6, <2>7 DEF AuthInv
<1>15. CASE UNCHANGED authVars
  BY <1>15 DEF authVars, AuthTypeOK, ValidatorsCounted, ValidatorInstalled, HasValidator, Looking, RequestsOpen,
     AnswersHonest, RevocationHonoured, Introspected, AcceptedApproved
<1>16. ASSUME NEW r \in AuthReqs, AuthStep(r) PROVE AuthInv'
  BY <1>3, <1>4, <1>5, <1>6, <1>7, <1>8, <1>9, <1>10, <1>11, <1>12, <1>13, <1>14, <1>16, <1>17
     DEF AuthStep, RelayPolicy, HttpJackPolicy, WsJackPolicy, GrpcDispatch, QuicDispatch, WsRelayDispatch,
         WtRelayDispatch, HttpJackDispatch, WsJackDispatch, GrpcValidate, QuicValidate, WsRelayValidate,
         WtRelayValidate, HttpJackValidate, WsJackValidate, ValidateStep
<1> QED BY <1>1, <1>2, <1>15, <1>16 DEF AuthNext

\* For any requests, validators and answers on their way: a revoked token is not
\* accepted the cache time after its revocation, and with authRequired nothing but a
\* WebTransport datagram is accepted without its headers and the validator's approval.
THEOREM AuthenticationSafe == AuthSpec => []AuthSound
<1>1. AuthInv => AuthSound
  BY DEF AuthInv, AuthSound
<1> QED BY <1>1, AuthInvInit, AuthInvNext, PTL DEF AuthSpec

-----------------------------------------------------------------------------
(* Payloads. *)

\* The metadata of the sender, but for the content type that a gRPC-Web relay fills in.
SendersMeta(meta) ==
    /\ meta = [perf |-> origin.perf, sec |-> origin.sec, type |-> meta.type, set |-> TRUE]
    /\ meta.type = EncodePayload(origin).type \/ (origin.kind = "web" /\ meta.type = "json")

\* A datagram without metadata: nothing is known of it, or what the stream of a
\* passthrough relay says.
Bare == origin.datagram = TRUE /\ origin.omit = TRUE
BareMeta(meta) == meta \in {NoMeta, PassthroughDefaults}

\* A payload on its way has the layers its sender gave it; the metadata its next
\* receiver will use are those of the sender, or those of a bare datagram.
OnTheWay ==
    LET wp == WrapPayload(origin)
        meta == EffectiveMeta(envelope, defaults)
    IN  /\ origin \in Senders /\ wp # Failed
        /\ envelope = [layers |-> wp.layers, enc |-> wp.enc, typeName |-> wp.typeName,
                       meta |-> envelope.meta]
        /\ IF Bare THEN BareMeta(meta) ELSE SendersMeta(meta)

\* What a store holds is what its writer put there.
InStore ==
    /\ origin \in StoreConfigs(carrier)
    /\ IF carrier = "s3" THEN validateWriterSecurityConfig(origin) ELSE resolveWriterEncryption(origin)
    /\ envelope = IF carrier = "s3" THEN PutObject(origin) ELSE InsertRow(origin)

PayloadInv ==
    /\ carrier \in {"", "relay"} \cup StoreKinds
    /\ carrier = "" => reading = ""
    /\ reading = "" => reader = [kind |-> ""]
    /\ carrier = "relay" /\ reading = "" => OnTheWay
    /\ carrier \in StoreKinds /\ reading = "" => InStore
    /\ PayloadSound

\* A layer is put on, and comes off, at the end.
LEMMA Layered ==
    ASSUME NEW S, NEW s \in Seq(S), NEW x \in S
    PROVE  /\ Append(s, x) \in Seq(S) /\ Append(s, x) # <<>>
           /\ Last(Append(s, x)) = x /\ Front(Append(s, x)) = s
           /\ x \in Range(Append(s, x))
<1>1. /\ Append(s, x) \in Seq(S) /\ Append(s, x) # <<>> /\ Len(Append(s, x)) = Len(s) + 1
      /\ Append(s, x)[Len(s) + 1] = x /\ DOMAIN Append(s, x) = 1..(Len(s) + 1) /\ Len(s) \in Nat
  OBVIOUS
<1>2. Front(Append(s, x)) = s
  <2> DEFINE f == SubSeq(Append(s, x), 1, Len(s))
  <2>1. f \in Seq(S) /\ Len(f) = Len(s) /\ \A i \in 1..Len(s) : f[i] = s[i]
    OBVIOUS
  <2>2. f = s
    BY <2>1, SeqEqual
  <2> QED BY <1>1, <2>2 DEF Front
<1>3. Last(Append(s, x)) = x /\ x \in Range(Append(s, x))
  BY <1>1 DEF Last, Range
<1> QED BY <1>1, <1>2, <1>3

\* What a sender compresses and seals, a reader with its key opens and decompresses; one
\* with another key does not get past the seal.
LEMMA Unpacked ==
    ASSUME NEW base, NEW alg, NEW sec, NEW key
    PROVE  LET layers == encryptData(compressData(<<base>>, alg), sec, key)
           IN  /\ sec # "aes" \/ key \in RawKeys =>
                    decompressData(decryptData(layers, sec, key), alg) = <<base>>
               /\ \A other : sec = "aes" /\ decryptData(layers, sec, other) # <<>> =>
                    <<"aes", other>> \in Range(layers)
<1> DEFINE S == {base, <<"zip", alg>>, <<"aes", key>>}
           packed == compressData(<<base>>, alg)
<1>1. <<base>> \in Seq(S) /\ <<base>> # <<>>
  OBVIOUS
<1>2. packed \in Seq(S) /\ decompressData(packed, alg) = <<base>>
  BY <1>1, Layered DEF compressData, decompressData
<1>3. /\ Append(packed, <<"aes", key>>) # <<>> /\ Last(Append(packed, <<"aes", key>>)) = <<"aes", key>>
      /\ Front(Append(packed, <<"aes", key>>)) = packed
      /\ <<"aes", key>> \in Range(Append(packed, <<"aes", key>>))
  BY <1>2, Layered
<1>4. packed = compressData(<<base>>, alg)
  OBVIOUS
<1> HIDE DEF packed
<1>5. CASE sec = "aes"
  <2> DEFINE layers == Append(packed, <<"aes", key>>)
  <2>1. encryptData(packed, sec, key) = layers
    BY <1>5 DEF encryptData
  <2>2. key \in RawKeys => decryptData(layers, sec, key) = packed
    BY <1>3, <1>5 DEF decryptData
  <2>3. \A other : decryptData(layers, sec, other) # <<>> => <<"aes", other>> = <<"aes", key>>
    BY <1>3, <1>5 DEF decryptData
  <2> QED BY <1>2, <1>3, <1>4, <1>5, <2>1, <2>2, <2>3
<1>6. CASE sec # "aes"
  BY <1>2, <1>4, <1>6 DEF encryptData, decryptData
<1> QED BY <1>5, <1>6

\* The keys of senders.
LEMMA SenderKeys ==
    /\ \A key : normalizeAESKey(key) # "" => normalizeAESKey(key) \in RawKeys
    /\ normalizeAESKey("") = ""
  BY PayloadAssumption DEF normalizeAESKey

\* A reader that has not read says nothing.
LEMMA Unread == LET none == [kind |-> ""] IN "key" \notin DOMAIN none /\ "require" \notin DOMAIN none
  OBVIOUS

\* The metadata change, the rest of a payload does not.
LEMMA Relabelled ==
    ASSUME NEW layers, NEW enc, NEW typeName, NEW old, NEW meta
    PROVE  [[layers |-> layers, enc |-> enc, typeName |-> typeName, meta |-> old] EXCEPT !.meta = meta]
             = [layers |-> layers, enc |-> enc, typeName |-> typeName, meta |-> meta]
  OBVIOUS

LEMMA Fields ==
    ASSUME NEW layers, NEW enc, NEW typeName, NEW meta, NEW wp,
           wp = [layers |-> layers, enc |-> enc, typeName |-> typeName, meta |-> meta]
    PROVE  /\ wp.layers = layers /\ wp.enc = enc /\ wp.typeName = typeName /\ wp.meta = meta
  OBVIOUS

\* No metadata: nothing compressed, nothing sealed, and the stream's defaults count.
LEMMA NoMetaFields ==
    /\ NoMeta.perf = "off" /\ NoMeta.sec = "off" /\ NoMeta.type = ""
    /\ ~NoMeta.set
<1>1. NoMeta.perf = "off" /\ NoMeta.sec = "off" /\ NoMeta.type = ""
  BY DEF NoMeta
<1>2. NoMeta.set = FALSE
  BY Zenon DEF NoMeta
<1> QED BY <1>1, <1>2

LEMMA PassthroughFields ==
    /\ PassthroughDefaults.perf = "off" /\ PassthroughDefaults.sec = "off"
    /\ PassthroughDefaults.type = "octets" /\ PassthroughDefaults.set = TRUE
<1>1. /\ PassthroughDefaults.perf = "off" /\ PassthroughDefaults.sec = "off"
      /\ PassthroughDefaults.type = "octets"
  BY DEF PassthroughDefaults
<1>2. PassthroughDefaults.set = TRUE
  BY Zenon DEF PassthroughDefaults
<1> QED BY <1>1, <1>2

\* What WrapPayload makes of what it does not refuse.
LEMMA Wrapped ==
    ASSUME NEW s, WrapPayload(s) # Failed
    PROVE  LET e == EncodePayload(s)
               sealing == normalizeAESKey(s.key)
           IN  /\ Encodable(s) /\ validateEncryptionRequirement(s.sec, s.key)
               /\ s.sec = "aes" => sealing # ""
               /\ WrapPayload(s) =
                    [layers |-> encryptData(compressData(<< <<e.code, s.target>> >>, s.perf), s.sec, sealing),
                     enc |-> e.enc, typeName |-> s.typeName,
                     meta |-> [perf |-> s.perf, sec |-> s.sec, type |-> e.type, set |-> TRUE]]
               /\ WrapPayload(s).layers =
                    encryptData(compressData(<< <<e.code, s.target>> >>, s.perf), s.sec, sealing)
               /\ WrapPayload(s).enc = e.enc /\ WrapPayload(s).typeName = s.typeName
<1> DEFINE e == EncodePayload(s)
           sealing == normalizeAESKey(s.key)
<1>1. /\ Encodable(s) /\ validateEncryptionRequirement(s.sec, s.key)
      /\ s.sec = "aes" => sealing # ""
      /\ WrapPayload(s) =
           [layers |-> encryptData(compressData(<< <<e.code, s.target>> >>, s.perf), s.sec, sealing),
            enc |-> e.enc, typeName |-> s.typeName,
            meta |-> [perf |-> s.perf, sec |-> s.sec, type |-> e.type, set |-> TRUE]]
  BY Zenon DEF WrapPayload
<1>2. /\ WrapPayload(s).layers =
           encryptData(compressData(<< <<e.code, s.target>> >>, s.perf), s.sec, sealing)
      /\ WrapPayload(s).enc = e.enc /\ WrapPayload(s).typeName = s.typeName
  BY DEF WrapPayload
<1> QED BY <1>1, <1>2, Zenon

\* What a relay, with or without gRPC-Web, makes of the metadata of a payload on its way.
LEMMA MetaKept ==
    ASSUME OnTheWay, ~Bare, NEW web \in BOOLEAN
    PROVE  LET meta == MetaSeen(envelope, defaults, web)
           IN  SendersMeta(meta) /\ (web /\ origin.kind = "web" => meta.type = "json")
<1> DEFINE m == EffectiveMeta(envelope, defaults)
           type == EncodePayload(origin).type
           meta == MetaSeen(envelope, defaults, web)
<1>1. /\ m = [perf |-> origin.perf, sec |-> origin.sec, type |-> m.type, set |-> TRUE]
      /\ m.type = type \/ (origin.kind = "web" /\ m.type = "json")
      /\ envelope.enc = WrapPayload(origin).enc /\ WrapPayload(origin) # Failed
  BY DEF OnTheWay, SendersMeta
<1>2. envelope.enc = EncodePayload(origin).enc
  BY <1>1 DEF WrapPayload
<1>3. type = "" => origin.kind = "web"
  BY DEF EncodePayload, GobPayload
<1>4. origin.kind = "web" => type = "" /\ envelope.enc = ""
  BY <1>2 DEF EncodePayload
<1> HIDE DEF m
<1>5. m.perf = origin.perf /\ m.sec = origin.sec
  BY <1>1
<1>6. meta = IF web /\ m.type = "" /\ envelope.enc \in {"", "gob"}
             THEN [perf |-> m.perf, sec |-> m.sec, type |-> "json", set |-> TRUE] ELSE m
  BY DEF MetaSeen, applyGRPCWebContentTypeDefaults, m
<1>7. /\ meta = [perf |-> origin.perf, sec |-> origin.sec, type |-> meta.type, set |-> TRUE]
      /\ meta.type = type \/ (origin.kind = "web" /\ meta.type = "json")
      /\ web /\ origin.kind = "web" => meta.type = "json"
  <2>1. CASE web /\ m.type = "" /\ envelope.enc \in {"", "gob"}
    <3>1. meta = [perf |-> origin.perf, sec |-> origin.sec, type |-> "json", set |-> TRUE]
      BY <1>5, <1>6, <2>1
    <3>2. meta.type = "json"
      BY <3>1
    <3>3. type = "" \/ origin.kind = "web"
      BY <1>1, <2>1
    <3> HIDE DEF meta
    <3> QED BY <1>3, <3>1, <3>2, <3>3 DEF meta
  <2>2. CASE ~(web /\ m.type = "" /\ envelope.enc \in {"", "gob"})
    <3>1. meta = m
      BY <1>6, <2>2
    <3>2. web /\ origin.kind = "web" => m.type = "json"
      BY <1>1, <1>4, <2>2
    <3> QED BY <1>1, <3>1, <3>2
  <2> QED BY <2>1, <2>2
<1> HIDE DEF meta
<1>8. SendersMeta(meta) /\ (web /\ origin.kind = "web" => meta.type = "json")
  BY <1>7, Zenon DEF SendersMeta
<1> QED BY <1>8 DEF meta

\* A bare datagram is handed on as bare as it came.
LEMMA BareKept ==
    ASSUME OnTheWay, Bare, NEW web \in BOOLEAN, web => defaults.set
    PROVE  BareMeta(MetaSeen(envelope, defaults, web))
<1> DEFINE m == EffectiveMeta(envelope, defaults)
<1>1. m \in {NoMeta, PassthroughDefaults}
  BY DEF OnTheWay, BareMeta
<1>2. CASE ~web
  BY <1>1, <1>2 DEF MetaSeen, BareMeta
<1>3. CASE web
  <2>1. m.set
    BY <1>3 DEF EffectiveMeta
  <2> HIDE DEF m
  <2>2. m.type = "octets"
    BY <1>1, <2>1, NoMetaFields, PassthroughFields
  <2>3. MetaSeen(envelope, defaults, web) = m
    BY <1>3, <2>2 DEF MetaSeen, applyGRPCWebContentTypeDefaults, m
  <2> QED BY <1>1, <2>3 DEF BareMeta
<1> QED BY <1>2, <1>3

\* What is left of an envelope that could not be opened, and of one that was.
LEMMA NoLayers ==
    \A type, target : /\ JSONOutcomes(<<>>) = {"error"} /\ GobOutcomes(<<>>, target) = {"error"}
                      /\ decodeProtoInto(<<>>, type, target) = {"error"}
<1>1. \A x : <<>> # <<x>>
  OBVIOUS
<1>2. Len(<<>>) = 0
  OBVIOUS
<1>3. JSONOutcomes(<<>>) = {"error"}
  BY <1>2 DEF JSONOutcomes
<1>4. \A target : GobOutcomes(<<>>, target) = {"error"}
  BY <1>1, <1>2 DEF GobOutcomes
<1> QED BY <1>3, <1>4 DEF decodeProtoInto

LEMMA OneLayer ==
    \A target, type : 
        /\ JSONOutcomes(<< <<"json", target>> >>) = {"item"}
        /\ type # "other" => decodeProtoInto(<< <<"proto", "proto">> >>, type, "proto") = {"item"}
<1>1. \A x : Len(<<x>>) = 1 /\ <<x>>[1] = x /\ <<x>> # <<>>
  OBVIOUS
<1>2. \A target : JSONOutcomes(<< <<"json", target>> >>) = {"item"}
  BY <1>1 DEF JSONOutcomes
<1>3. \A type : type # "other" => decodeProtoInto(<< <<"proto", "proto">> >>, type, "proto") = {"item"}
  BY <1>1 DEF decodeProtoInto
<1> QED BY <1>2, <1>3

\* What arrives is what the sender wrapped, under the metadata its receiver sees.
LEMMA Arrived ==
    ASSUME OnTheWay, NEW meta
    PROVE  LET s == origin
               e == EncodePayload(s)
               sealing == normalizeAESKey(s.key)
               layers == encryptData(compressData(<< <<e.code, s.target>> >>, s.perf), s.sec, sealing)
           IN  /\ s \in Senders /\ Encodable(s) /\ validateEncryptionRequirement(s.sec, s.key)
               /\ s.sec = "aes" => sealing # ""
               /\ envelope.layers = layers
               /\ [envelope EXCEPT !.meta = meta]
                    = [layers |-> layers, enc |-> e.enc, typeName |-> s.typeName, meta |-> meta]
<1> DEFINE s == origin
           e == EncodePayload(s)
           sealing == normalizeAESKey(s.key)
           layers == encryptData(compressData(<< <<e.code, s.target>> >>, s.perf), s.sec, sealing)
<1>1. /\ s \in Senders /\ WrapPayload(s) # Failed
      /\ envelope = [layers |-> WrapPayload(s).layers, enc |-> WrapPayload(s).enc,
                     typeName |-> WrapPayload(s).typeName, meta |-> envelope.meta]
  BY DEF OnTheWay
<1>2. /\ Encodable(s) /\ validateEncryptionRequirement(s.sec, s.key)
      /\ s.sec = "aes" => sealing # ""
      /\ WrapPayload(s).layers = layers
      /\ WrapPayload(s).enc = e.enc /\ WrapPayload(s).typeName = s.typeName
  BY <1>1, Wrapped, Zenon
<1>3. envelope = [layers |-> layers, enc |-> e.enc, typeName |-> s.typeName, meta |-> envelope.meta]
  BY <1>1, <1>2
<1> HIDE DEF layers, e, sealing
<1>4. [envelope EXCEPT !.meta = meta]
        = [layers |-> layers, enc |-> e.enc, typeName |-> s.typeName, meta |-> meta]
  BY <1>3, Relabelled
<1>5. envelope.layers = layers
  BY <1>3
<1> QED BY <1>1, <1>2, <1>4, <1>5 DEF layers, e, sealing

\* Whoever reads a bare datagram.
LEMMA BareRead ==
    ASSUME PayloadInv, Bare, NEW key \in AllKeys, NEW web \in BOOLEAN, Receive(key, web)
    PROVE  PayloadSound'
<1> DEFINE s == origin
           e == EncodePayload(s)
           meta == MetaSeen(envelope, defaults, web)
           got == [envelope EXCEPT !.meta = meta]
           sealing == normalizeAESKey(s.key)
           base == <<e.code, s.target>>
           layers == encryptData(compressData(<< base >>, s.perf), s.sec, sealing)
           enc == IF e.enc # "" THEN e.enc ELSE IF s.target = "proto" THEN "proto" ELSE "gob"
<1>1. /\ OnTheWay /\ carrier' = "relay" /\ origin' = s /\ envelope' = envelope
      /\ reading' \in UnwrapPayload(got, key, s.target)
      /\ reader' = [key |-> key, require |-> key # "", web |-> web]
      /\ web => defaults.set
  BY DEF Receive, PayloadInv
<1>2. meta.perf = "off" /\ meta.sec = "off" /\ meta.type \in {"", "octets"}
  <2>1. meta \in {NoMeta, PassthroughDefaults}
    BY <1>1, BareKept DEF BareMeta
  <2> HIDE DEF meta
  <2> QED BY <2>1, NoMetaFields, PassthroughFields
<1> HIDE DEF meta
<1>3. /\ s \in Senders /\ Encodable(s) /\ validateEncryptionRequirement(s.sec, s.key)
      /\ s.sec = "aes" => sealing # ""
      /\ got = [layers |-> layers, enc |-> e.enc, typeName |-> s.typeName, meta |-> meta]
  BY <1>1, Arrived
<1> HIDE DEF got
<1>4. s.kind = "wt"
  BY <1>3 DEF Bare, Senders
<1>5. reading' \in IF key # "" THEN {"error"}
                   ELSE IF enc = "gob" THEN GobOutcomes(layers, s.target)
                   ELSE decodeProtoInto(layers, s.typeName, s.target)
  <2> HIDE DEF layers, e, s
  <2>1. /\ got.layers = layers /\ got.enc = e.enc /\ got.typeName = s.typeName /\ got.meta = meta
    BY <1>3, Fields
  <2>2. decompressData(decryptData(layers, "off", key), "off") = layers
    BY DEF decryptData, decompressData, Compressed
  <2> QED BY <1>1, <1>2, <2>1, <2>2 DEF UnwrapPayload
<1>6. s.sec # "aes" => sealing = ""
  BY <1>3, SenderKeys DEF validateEncryptionRequirement
<1>7. s.sec # "aes" => layers = compressData(<< base >>, s.perf)
  BY DEF encryptData
<1>8. Undescribed(s) = (Compressed(s.perf) \/ s.sec = "aes" \/ <<s.format, s.target>> = <<"json", "bytes">>)
  BY DEF Undescribed, Bare
<1> HIDE DEF layers, sealing, s, e
<1>9. MatchedDelivers'
  <2> SUFFICES ASSUME Readable(s), key = sealing
               PROVE  IF Undescribed(s) THEN reading' # "item" ELSE reading' = "item"
    BY <1>1, PayloadAssumption DEF MatchedDelivers, sealing, s
  <2>1. CASE s.sec = "aes"
    BY <1>3, <1>5, <1>8, <2>1
  <2>2. CASE s.sec # "aes" /\ Compressed(s.perf)
    <3>1. layers = Append(<< base >>, <<"zip", s.perf>>)
      BY <1>7, <2>2 DEF compressData
    <3>2. Len(layers) = 2
      BY <3>1
    <3>3. \A x : layers # <<x>>
      BY <3>2
    <3>4. "item" \notin GobOutcomes(layers, s.target)
      BY <3>2, <3>3 DEF GobOutcomes
    <3>5. "item" \notin decodeProtoInto(layers, s.typeName, s.target)
      BY <3>3 DEF decodeProtoInto
    <3> QED BY <1>5, <1>8, <2>2, <3>4, <3>5
  <2>3. CASE s.sec # "aes" /\ ~Compressed(s.perf)
    <3>1. layers = << base >> /\ key = ""
      BY <1>6, <1>7, <2>3 DEF compressData
    <3>2. CASE s.format = "json"
      <4>1. e.code = "json" /\ e.enc = "" /\ s.target # "proto"
        BY <1>4, <3>2 DEF e, EncodePayload, Readable
      <4>2. reading' \in GobOutcomes(<< <<"json", s.target>> >>, s.target)
        BY <1>5, <3>1, <4>1
      <4>3. /\ << <<"json", s.target>> >> # << <<"gob", s.target>> >>
            /\ Len(<< <<"json", s.target>> >>) = 1 /\ << <<"json", s.target>> >>[1][1] = "json"
        OBVIOUS
      <4>4. CASE s.target = "bytes"
        BY <1>8, <3>2, <4>1, <4>2, <4>3, <4>4 DEF GobOutcomes
      <4>5. CASE s.target # "bytes"
        <5>1. GobOutcomes(<< <<"json", s.target>> >>, s.target) = {"item"}
          BY <4>1, <4>3, <4>5, OneLayer DEF GobOutcomes
        <5> QED BY <1>8, <2>3, <4>2, <4>5, <5>1
      <4> QED BY <4>4, <4>5
    <3>3. CASE s.format = "proto"
      <4>1. e.code = "proto" /\ e.enc = "proto" /\ s.target = "proto" /\ s.typeName # "other"
        BY <1>3, <1>4, <3>3 DEF e, EncodePayload, Readable, Encodable
      <4>2. reading' \in decodeProtoInto(<< <<"proto", "proto">> >>, s.typeName, "proto")
        BY <1>5, <3>1, <4>1
      <4> QED BY <1>8, <2>3, <3>3, <4>1, <4>2, OneLayer
    <3>4. CASE s.format \notin {"json", "proto"}
      <4>1. e.code = "gob" /\ e.enc = "gob" /\ s.target # "proto"
        BY <1>4, <3>4 DEF e, EncodePayload, Readable
      <4>2. reading' \in GobOutcomes(<< <<"gob", s.target>> >>, s.target)
        BY <1>5, <3>1, <4>1
      <4> QED BY <1>8, <2>3, <3>4, <4>2 DEF GobOutcomes
    <3> QED BY <3>2, <3>3, <3>4
  <2> QED BY <2>1, <2>2, <2>3
<1>10. KeyedRefusesPlain'
  BY <1>1, <1>5 DEF KeyedRefusesPlain
<1> QED BY <1>9, <1>10 DEF PayloadSound

\* Whoever reads a payload on its way.
LEMMA RelayRead ==
    ASSUME PayloadInv, ~Bare, NEW key \in AllKeys, NEW web \in BOOLEAN, Receive(key, web)
    PROVE  PayloadSound'
<1> DEFINE s == origin
           e == EncodePayload(s)
           meta == MetaSeen(envelope, defaults, web)
           got == [envelope EXCEPT !.meta = meta]
           sealing == normalizeAESKey(s.key)
           base == <<e.code, s.target>>
           plain == decompressData(decryptData(envelope.layers, s.sec, key), s.perf)
<1>1. /\ OnTheWay /\ carrier = "relay" /\ carrier' = "relay" /\ origin' = s /\ envelope' = envelope
      /\ reading' \in UnwrapPayload(got, key, s.target)
      /\ reader' = [key |-> key, require |-> key # "", web |-> web]
  BY DEF Receive, PayloadInv
<1>2. SendersMeta(meta) /\ (web /\ s.kind = "web" => meta.type = "json")
  BY <1>1, MetaKept, Zenon
<1>3. /\ s \in Senders /\ Encodable(s) /\ validateEncryptionRequirement(s.sec, s.key)
      /\ s.sec = "aes" => sealing # ""
  BY <1>1, Arrived
<1>4. /\ envelope.layers = encryptData(compressData(<< base >>, s.perf), s.sec, sealing)
      /\ got = [layers |-> envelope.layers, enc |-> e.enc, typeName |-> s.typeName, meta |-> meta]
  BY <1>1, Arrived
<1> HIDE DEF meta
<1>5. /\ meta.perf = s.perf /\ meta.sec = s.sec
      /\ meta.type = e.type \/ (s.kind = "web" /\ meta.type = "json")
      /\ web /\ s.kind = "web" => meta.type = "json"
  <2>1. /\ meta = [perf |-> s.perf, sec |-> s.sec, type |-> meta.type, set |-> TRUE]
        /\ meta.type = e.type \/ (s.kind = "web" /\ meta.type = "json")
    BY <1>2, Zenon DEF SendersMeta
  <2> QED BY <1>2, <2>1
<1> HIDE DEF got
<1>6. reading' \in IF key # "" /\ s.sec # "aes" THEN {"error"}
                   ELSE IF meta.type = "json" /\ s.target # "proto" THEN JSONOutcomes(plain)
                   ELSE IF (IF e.enc # "" THEN e.enc ELSE IF s.target = "proto" THEN "proto" ELSE "gob") = "gob"
                   THEN GobOutcomes(plain, s.target)
                   ELSE decodeProtoInto(plain, s.typeName, s.target)
  BY <1>1, <1>5, <1>4 DEF UnwrapPayload
<1>7. (s.sec # "aes" \/ key = sealing) => plain = << base >>
  <2>1. s.sec # "aes" => plain = decompressData(decryptData(envelope.layers, s.sec, sealing), s.perf)
    BY DEF decryptData
  <2>2. s.sec # "aes" \/ sealing \in RawKeys
    BY <1>3, SenderKeys
  <2>3. decompressData(decryptData(envelope.layers, s.sec, sealing), s.perf) = << base >>
    BY <1>4, <2>2, Unpacked
  <2> QED BY <2>1, <2>3
<1>8. s.sec = "aes" /\ plain # <<>> => <<"aes", key>> \in Range(envelope.layers)
  BY <1>4, Unpacked DEF decompressData
<1> HIDE DEF plain, sealing, e, s
<1>9. MatchedDelivers'
  <2> SUFFICES ASSUME Readable(s), key = sealing, s.kind = "web" => web
               PROVE  reading' = "item"
    BY <1>1, PayloadAssumption DEF MatchedDelivers, Undescribed, Bare, sealing, s
  <2>1. ~(key # "" /\ s.sec # "aes")
    BY <1>3, SenderKeys DEF validateEncryptionRequirement, sealing, s
  <2>2. plain = << base >>
    BY <1>7
  <2>3. CASE s.kind \in {"grpc", "quic"}
    <3>1. e.code = "gob" /\ e.type = "octets" /\ e.enc = ""
      BY <2>3 DEF e, EncodePayload, GobPayload
    <3>2. s.target # "proto" /\ meta.type = "octets"
      BY <1>5, <2>3, <3>1 DEF Readable
    <3> QED BY <1>6, <2>1, <2>2, <3>1, <3>2 DEF GobOutcomes
  <2>4. CASE s.kind = "web"
    <3>1. e.code = "json"
      BY <2>4 DEF e, EncodePayload
    <3>2. s.target # "proto" /\ meta.type = "json"
      BY <1>5, <2>4 DEF Readable
    <3> QED BY <1>6, <2>1, <2>2, <3>1, <3>2, OneLayer
  <2>5. CASE s.kind \notin {"grpc", "quic", "web"}
    <3>1. CASE s.format = "json"
      <4>1. e.code = "json" /\ e.type = "json"
        BY <2>5, <3>1 DEF e, EncodePayload
      <4>2. s.target # "proto" /\ meta.type = "json"
        BY <1>5, <2>5, <3>1, <4>1 DEF Readable
      <4> QED BY <1>6, <2>1, <2>2, <4>1, <4>2, OneLayer
    <3>2. CASE s.format = "proto"
      <4>1. e.code = "proto" /\ e.type = "protobuf" /\ e.enc = "proto"
        BY <2>5, <3>2 DEF e, EncodePayload
      <4>2. s.target = "proto" /\ s.typeName # "other"
        BY <1>3, <2>5, <3>2 DEF Readable, Encodable
      <4> QED BY <1>6, <2>1, <2>2, <4>1, <4>2, OneLayer
    <3>3. CASE s.format \notin {"json", "proto"}
      <4>1. e.code = "gob" /\ e.type = "octets" /\ e.enc = "gob"
        BY <2>5, <3>3 DEF e, EncodePayload, Readable
      <4>2. s.target # "proto" /\ meta.type = "octets"
        BY <1>5, <2>5, <3>3, <4>1 DEF Readable
      <4> QED BY <1>6, <2>1, <2>2, <4>1, <4>2 DEF GobOutcomes
    <3> QED BY <3>1, <3>2, <3>3
  <2> QED BY <2>3, <2>4, <2>5
<1>10. KeyedRefusesPlain'
  <2> SUFFICES ASSUME key # "", reading' \in {"item", "garbled"}
               PROVE  <<"aes", key>> \in Range(envelope.layers)
    BY <1>1 DEF KeyedRefusesPlain
  <2>1. s.sec = "aes"
    BY <1>6
  <2>2. plain # <<>>
    BY <1>6, <2>1, NoLayers
  <2> QED BY <1>8, <2>1, <2>2
<1> QED BY <1>9, <1>10 DEF PayloadSound

\* Whoever reads an object or a row.
LEMMA StoreRead ==
    ASSUME PayloadInv, carrier \in StoreKinds, NEW c \in StoreConfigs(carrier), Fetch(c)
    PROVE  PayloadSound'
<1> DEFINE o == origin
           base == <<o.format, "struct">>
           alg == IF o.gzip THEN "gzip" ELSE "off"
           sec == IF o.mode THEN "aes" ELSE "off"
           layers == encryptData(compressData(<< base >>, alg), sec, o.key)
           got == IF c.column THEN envelope ELSE [envelope EXCEPT !.meta = NoMeta]
           opened == decryptIfNeeded(c, got)
<1>1. /\ InStore /\ carrier \in {"s3", "postgres"} /\ carrier' = carrier /\ origin' = o /\ envelope' = envelope
      /\ reading' = DecodeStored(Unzipped(got, opened), c.format)
      /\ reader' = c
  BY PayloadAssumption DEF Fetch, PayloadInv
<1>2. /\ o.mode \in BOOLEAN /\ o.gzip \in BOOLEAN /\ o.column \in BOOLEAN
      /\ o.key \in RawKeys \cup {""} /\ (o.key # "" => o.mode)
      /\ c.mode \in BOOLEAN /\ c.require \in BOOLEAN /\ c.column \in BOOLEAN
      /\ c.key \in RawKeys \cup {""} /\ (carrier = "s3" => c.column /\ o.column)
      /\ carrier = "postgres" => ~o.gzip
  BY <1>1 DEF InStore, StoreConfigs
<1>3. (o.mode => o.key # "") /\ (c.require => c.key # "")
  BY <1>1, <1>2 DEF InStore, Fetch, validateWriterSecurityConfig, resolveWriterEncryption,
        validateReaderSecurityConfig, resolveReaderEncryption, StoreConfigs
<1>4. compressData(<< base >>, alg) = IF o.gzip THEN Append(<< base >>, <<"zip", "gzip">>) ELSE << base >>
  BY <1>2 DEF compressData, Compressed
<1>5. layers = IF o.mode THEN Append(compressData(<< base >>, alg), <<"aes", o.key>>)
               ELSE compressData(<< base >>, alg)
  BY <1>2 DEF encryptData
<1> HIDE DEF layers
<1>6. /\ envelope = StoredAs(layers, envelope.enc, envelope.meta)
      /\ envelope.layers = layers
      /\ envelope.meta.sec = (IF o.mode /\ o.column THEN "aes" ELSE "off")
      /\ o.mode /\ envelope.meta.sec = "aes" => envelope.meta.perf = alg
      /\ ~o.mode => envelope.enc = IF o.gzip THEN "gzip" ELSE ""
  <2>1. CASE carrier = "s3"
    <3> DEFINE sealed == [perf |-> alg, sec |-> "aes", type |-> "octets", set |-> TRUE]
               enc == IF o.mode THEN "" ELSE IF o.gzip THEN "gzip" ELSE ""
               meta == IF o.mode THEN sealed ELSE NoMeta
    <3>1. sealed.perf = alg /\ sealed.sec = "aes"
      OBVIOUS
    <3>2. envelope = StoredAs(layers, enc, meta)
      <4>1. envelope = PutObject(o)
        BY <1>1, <2>1 DEF InStore
      <4> HIDE DEF o
      <4> QED BY <1>2, <1>4, <1>5, <4>1, Zenon DEF PutObject, applyCSE, encryptAESGCM, encodePayload
    <3> HIDE DEF sealed, enc, meta, o
    <3>3. envelope.layers = layers /\ envelope.enc = enc /\ envelope.meta = meta
      BY <3>2, Fields DEF StoredAs
    <3>4. meta = (IF o.mode THEN sealed ELSE NoMeta) /\ enc = (IF o.mode THEN "" ELSE IF o.gzip THEN "gzip" ELSE "")
      BY DEF meta, enc
    <3> HIDE DEF alg
    <3> QED BY <1>2, <2>1, <3>1, <3>2, <3>3, <3>4, NoMetaFields
  <2>2. CASE carrier = "postgres"
    <3> DEFINE meta == IF o.mode THEN RowFlag(o) ELSE NoMeta
    <3>0. envelope = InsertRow(o)
      BY <1>1, <2>2 DEF InStore
    <3>1. /\ RowFlag(o).perf = "off" /\ RowFlag(o).sec = IF o.column THEN "aes" ELSE "off"
      BY DEF RowFlag, NoMeta
    <3>2. envelope = StoredAs(layers, "", meta)
      <4> HIDE DEF o
      <4> QED BY <1>2, <1>4, <1>5, <2>2, <3>0, Zenon DEF InsertRow, encryptAESGCM, encodePayload
    <3>3. alg = "off"
      BY <1>2, <2>2
    <3> HIDE DEF o, meta, alg
    <3>4. envelope.layers = layers /\ envelope.enc = "" /\ envelope.meta = meta
      BY <3>2, Fields DEF StoredAs
    <3>5. meta = IF o.mode THEN RowFlag(o) ELSE NoMeta
      BY DEF meta
    <3> QED BY <1>2, <2>2, <3>1, <3>2, <3>3, <3>4, <3>5, NoMetaFields
  <2> QED BY <1>1, <2>1, <2>2
<1>7. /\ got.layers = layers /\ got.enc = envelope.enc
      /\ got.meta.sec = (IF o.mode /\ o.column /\ c.column THEN "aes" ELSE "off")
      /\ o.mode /\ got.meta.sec = "aes" => got.meta.perf = alg
  <2> HIDE DEF alg, o
  <2>1. CASE c.column
    <3>1. got = envelope
      BY <2>1
    <3> HIDE DEF got
    <3> QED BY <1>6, <2>1, <3>1
  <2>2. CASE ~c.column
    <3> DEFINE enc == envelope.enc
               old == envelope.meta
    <3>1. got = [envelope EXCEPT !.meta = NoMeta]
      BY <2>2
    <3>2. envelope = [layers |-> layers, enc |-> enc, typeName |-> "", meta |-> old]
      BY <1>6 DEF StoredAs
    <3> HIDE DEF enc, old, got
    <3>3. got = [layers |-> layers, enc |-> enc, typeName |-> "", meta |-> NoMeta]
      BY <3>1, <3>2, Relabelled
    <3>4. got.layers = layers /\ got.enc = enc /\ got.meta = NoMeta
      BY <3>3, Fields
    <3>5. got.meta.sec = "off"
      BY <3>4, NoMetaFields
    <3> QED BY <2>2, <3>4, <3>5 DEF enc
  <2> QED BY <1>2, <2>1, <2>2
<1> HIDE DEF got
<1>8. opened = IF got.meta.sec # "aes" THEN IF c.require THEN <<>> ELSE layers
               ELSE IF c.key = "" THEN <<>> ELSE decryptData(layers, "aes", c.key)
  BY <1>2, <1>7 DEF decryptIfNeeded, decryptAESGCM, decryptData
<1> HIDE DEF opened
<1>9. /\ o.mode /\ o.key \in RawKeys => decompressData(decryptData(layers, "aes", o.key), alg) = << base >>
      /\ ~o.mode => decompressData(layers, alg) = << base >>
      /\ \A key : o.mode /\ decryptData(layers, "aes", key) # <<>> => <<"aes", key>> \in Range(layers)
  BY Unpacked DEF layers, decryptData
<1>10. MatchedDelivers'
  <2> SUFFICES ASSUME c.key = o.key, c.format = o.format, o.mode => c.column /\ o.column
               PROVE  reading' = "item"
    BY <1>1 DEF MatchedDelivers
  <2>1. Unzipped(got, opened) = << base >>
    <3>1. CASE o.mode
      BY <1>2, <1>3, <1>7, <1>8, <1>9, <3>1 DEF Unzipped
    <3>2. CASE ~o.mode
      <4>1. ~c.require /\ opened = layers
        BY <1>2, <1>3, <1>7, <1>8, <3>2
      <4> QED BY <1>2, <1>6, <1>7, <1>9, <3>2, <4>1 DEF Unzipped
    <3> QED BY <1>2, <3>1, <3>2
  <2>2. << base >> # <<>>
    OBVIOUS
  <2> QED BY <1>1, <2>1, <2>2 DEF DecodeStored
<1>11. KeyedRefusesPlain'
  <2> SUFFICES ASSUME c.require, reading' \in {"item", "garbled"}
               PROVE  <<"aes", c.key>> \in Range(envelope.layers)
    BY <1>1 DEF KeyedRefusesPlain
  <2>1. opened # <<>>
    BY <1>1 DEF DecodeStored, Unzipped, decompressData
  <2>2. o.mode /\ decryptData(layers, "aes", c.key) # <<>>
    BY <1>2, <1>7, <1>8, <2>1
  <2>3. envelope.layers = layers
    BY <1>6
  <2> QED BY <1>9, <2>2, <2>3
<1> QED BY <1>10, <1>11 DEF PayloadSound

\* A payload sets out, and crosses a passthrough relay.
LEMMA SetsOut ==
    ASSUME PayloadInv, NEW s \in Senders, carrier = "", Submit(s)
    PROVE  PayloadInv'
<1> DEFINE wp == WrapPayload(s)
<1>1. /\ reader' = [kind |-> ""] /\ carrier' = "relay" /\ origin' = s
      /\ defaults' = DefaultsSeen(s.datagram, buildStreamDefaults(s)) /\ envelope' = Omitted(s, wp)
      /\ reading' = IF wp = Failed THEN "error" ELSE ""
  BY DEF PayloadInv, Submit
<1>2. carrier' \notin StoreKinds
  BY <1>1, PayloadAssumption
<1>3. ASSUME wp # Failed PROVE OnTheWay'
  <2> DEFINE own == [perf |-> s.perf, sec |-> s.sec, type |-> EncodePayload(s).type, set |-> TRUE]
  <2>1. wp = [layers |-> wp.layers, enc |-> wp.enc, typeName |-> wp.typeName, meta |-> own]
    BY <1>3, Wrapped
  <2>2. buildStreamDefaults(s) = own
    BY DEF buildStreamDefaults, QuicDefaults, WsDefaults, EncodePayload, GobPayload
  <2>3. /\ own.type = EncodePayload(s).type /\ own.set = TRUE
    BY Zenon
  <2> HIDE DEF wp, own
  <2>4. PICK layers, enc, typeName :
           /\ wp = [layers |-> layers, enc |-> enc, typeName |-> typeName, meta |-> own]
           /\ wp.layers = layers /\ wp.enc = enc /\ wp.typeName = typeName
    BY <2>1
  <2>5. PICK meta : /\ envelope' = [layers |-> layers, enc |-> enc, typeName |-> typeName, meta |-> meta]
                    /\ meta = IF s.kind = "grpc" \/ s.omit THEN NoMeta ELSE own
    <3>1. CASE s.kind = "grpc" \/ s.omit
      <4>1. Omitted(s, wp) = [wp EXCEPT !.meta = NoMeta]
        BY <3>1 DEF Omitted
      <4> QED BY <1>1, <2>4, <3>1, <4>1, Relabelled
    <3>2. CASE ~(s.kind = "grpc" \/ s.omit)
      BY <1>1, <2>4, <3>2 DEF Omitted
    <3> QED BY <3>1, <3>2
  <2>6. envelope'.meta = meta
    BY <2>5, Fields
  <2>7. s.datagram \in BOOLEAN /\ s.omit \in BOOLEAN /\ (s.datagram => s.kind # "grpc")
    BY DEF Senders
  <2>8. IF s.datagram /\ s.omit THEN EffectiveMeta(envelope', defaults') = NoMeta
        ELSE EffectiveMeta(envelope', defaults') = own
    <3>1. CASE s.datagram /\ s.omit
      BY <1>1, <2>5, <2>6, <3>1, NoMetaFields DEF EffectiveMeta, DefaultsSeen
    <3>2. CASE ~(s.datagram /\ s.omit)
      BY <1>1, <2>2, <2>3, <2>5, <2>6, <2>7, <3>2, NoMetaFields DEF EffectiveMeta, DefaultsSeen
    <3> QED BY <3>1, <3>2
  <2>9. own = [perf |-> s.perf, sec |-> s.sec, type |-> own.type, set |-> TRUE]
    BY <2>3 DEF own
  <2>10. Bare' = (s.datagram /\ s.omit)
    BY <1>1, <2>7 DEF Bare
  <2>11. IF Bare' THEN BareMeta(EffectiveMeta(envelope', defaults'))
         ELSE SendersMeta(EffectiveMeta(envelope, defaults))'
    BY <1>1, <2>3, <2>8, <2>9, <2>10, Zenon DEF BareMeta, SendersMeta
  <2> QED BY <1>1, <1>3, <2>4, <2>5, <2>6, <2>11, Zenon DEF OnTheWay, wp
<1>4. PayloadSound'
  BY <1>1, Unread DEF PayloadSound, MatchedDelivers, KeyedRefusesPlain
<1> QED BY <1>1, <1>2, <1>3, <1>4 DEF PayloadInv

LEMMA Crosses ==
    ASSUME PayloadInv, NEW web \in BOOLEAN, NEW datagram \in BOOLEAN, Hop(web, datagram)
    PROVE  PayloadInv'
<1> DEFINE meta == MetaSeen(envelope, defaults, web)
           wp == WrapPayload(origin)
<1>1. /\ OnTheWay /\ carrier = "relay" /\ carrier' = carrier /\ origin' = origin
      /\ reader = [kind |-> ""] /\ reader' = reader /\ reading = "" /\ reading' = reading
      /\ envelope' = [envelope EXCEPT !.meta = meta]
      /\ defaults' \in {NoMeta, PassthroughDefaults}
      /\ web => defaults.set
  BY DEF PayloadInv, Hop, asPassthroughPayload, DefaultsSeen
<1>2. IF Bare THEN BareMeta(meta) ELSE SendersMeta(meta)
  BY <1>1, MetaKept, BareKept, Zenon
<1> HIDE DEF meta
<1>3. ~Bare => meta.set = TRUE
  <2>1. \A perf, sec, type : [perf |-> perf, sec |-> sec, type |-> type, set |-> TRUE].set = TRUE
    BY Zenon
  <2>2. ~Bare => \E perf, sec, type : meta = [perf |-> perf, sec |-> sec, type |-> type, set |-> TRUE]
    BY <1>2, Zenon DEF SendersMeta
  <2> QED BY <2>1, <2>2, Zenon
<1>4. PICK layers, enc, typeName, old :
         /\ envelope = [layers |-> layers, enc |-> enc, typeName |-> typeName, meta |-> old]
         /\ wp.layers = layers /\ wp.enc = enc /\ wp.typeName = typeName
  BY <1>1, Zenon DEF OnTheWay
<1>5. envelope' = [layers |-> layers, enc |-> enc, typeName |-> typeName, meta |-> meta]
  BY <1>1, <1>4, Relabelled
<1>6. envelope'.meta = meta
  BY <1>5, Fields
<1>7. IF Bare THEN BareMeta(EffectiveMeta(envelope', defaults'))
      ELSE EffectiveMeta(envelope', defaults') = meta
  <2>1. CASE Bare
    BY <1>1, <1>2, <1>6, <2>1 DEF EffectiveMeta, BareMeta
  <2>2. CASE ~Bare
    BY <1>3, <1>6, <2>2 DEF EffectiveMeta
  <2> QED BY <2>1, <2>2
<1>8. origin \in Senders /\ wp # Failed
  BY <1>1 DEF OnTheWay
<1>9. OnTheWay'
  <2>1. Bare' = Bare
    BY <1>1 DEF Bare
  <2>2. IF Bare' THEN BareMeta(EffectiveMeta(envelope', defaults'))
        ELSE SendersMeta(EffectiveMeta(envelope, defaults))'
    BY <1>1, <1>2, <1>7, <2>1, Zenon DEF SendersMeta
  <2> QED BY <1>1, <1>4, <1>5, <1>6, <1>8, <2>2, Zenon DEF OnTheWay
<1>10. PayloadSound'
  BY <1>1, Unread DEF PayloadSound, MatchedDelivers, KeyedRefusesPlain
<1>11. carrier' \notin StoreKinds
  BY <1>1, PayloadAssumption
<1> QED BY <1>1, <1>9, <1>10, <1>11 DEF PayloadInv

\* A writer stores its object or its row.
LEMMA Stores ==
    ASSUME PayloadInv, carrier = "", NEW kind \in StoreKinds, NEW c \in StoreConfigs(kind), Write(c)
    PROVE  PayloadInv'
<1>1. c.kind = kind /\ kind # "relay" /\ kind # ""
  BY PayloadAssumption DEF StoreConfigs
<1>2. /\ carrier' = kind /\ origin' = c /\ reading' = "" /\ reader' = [kind |-> ""]
      /\ IF kind = "s3" THEN validateWriterSecurityConfig(c) ELSE resolveWriterEncryption(c)
      /\ envelope' = IF kind = "s3" THEN PutObject(c) ELSE InsertRow(c)
  BY <1>1 DEF Write, PayloadInv
<1>3. InStore'
  BY <1>2 DEF InStore
<1>4. PayloadSound'
  BY <1>2, Unread DEF PayloadSound, MatchedDelivers, KeyedRefusesPlain
<1> QED BY <1>1, <1>2, <1>3, <1>4 DEF PayloadInv

\* A read has an outcome.
LEMMA Outcomes ==
    /\ \A wp, key, target : "" \notin UnwrapPayload(wp, key, target)
    /\ \A layers, format : DecodeStored(layers, format) # ""
<1>1. \A layers : "" \notin JSONOutcomes(layers)
  BY DEF JSONOutcomes
<1>2. \A layers, type, target : "" \notin decodeProtoInto(layers, type, target)
  BY DEF decodeProtoInto
<1>3. \A layers, target : "" \notin GobOutcomes(layers, target)
  BY <1>1 DEF GobOutcomes
<1>4. \A wp, key, target : "" \notin UnwrapPayload(wp, key, target)
  BY <1>1, <1>2, <1>3 DEF UnwrapPayload
<1> QED BY <1>4 DEF DecodeStored

LEMMA PayloadSteps == PayloadInv /\ [PayloadNext]_payloadVars => PayloadInv'
<1> SUFFICES ASSUME PayloadInv, [PayloadNext]_payloadVars PROVE PayloadInv'
  OBVIOUS
<1>1. CASE carrier = "" /\ \E s \in Senders : Submit(s)
  BY <1>1, SetsOut
<1>2. CASE \E web, datagram \in BOOLEAN : Hop(web, datagram)
  BY <1>2, Crosses
<1>3. CASE \E key \in AllKeys, web \in BOOLEAN : Receive(key, web)
  <2>1. PICK key \in AllKeys, web \in BOOLEAN : Receive(key, web)
    BY <1>3
  <2>2. PayloadSound'
    BY <2>1, BareRead, RelayRead
  <2>3. reading' # "" /\ carrier' = "relay"
    BY <2>1, Outcomes DEF Receive
  <2> QED BY <2>2, <2>3 DEF PayloadInv
<1>4. CASE carrier = "" /\ \E kind \in StoreKinds : \E c \in StoreConfigs(kind) : Write(c)
  BY <1>4, Stores
<1>5. CASE carrier \in StoreKinds /\ \E c \in StoreConfigs(carrier) : Fetch(c)
  <2>1. PICK c \in StoreConfigs(carrier) : Fetch(c)
    BY <1>5
  <2>2. PayloadSound'
    BY <1>5, <2>1, StoreRead
  <2>3. reading' # "" /\ carrier' \in StoreKinds /\ carrier' # ""
    BY <1>5, <2>1, Outcomes, PayloadAssumption DEF Fetch
  <2> QED BY <2>2, <2>3 DEF PayloadInv
<1>6. CASE UNCHANGED payloadVars
  <2> USE <1>6 DEF payloadVars
  <2>1. OnTheWay' = OnTheWay /\ InStore' = InStore
    BY DEF OnTheWay, InStore, Bare, SendersMeta
  <2>2. PayloadSound'
    BY DEF PayloadInv, PayloadSound, MatchedDelivers, KeyedRefusesPlain
  <2> QED BY <2>1, <2>2 DEF PayloadInv
<1> QED BY <1>1, <1>2, <1>3, <1>4, <1>5, <1>6 DEF PayloadNext

\* PayloadSound: ends that hold the same key understand each other over every transport,
\* every format, and every number of passthrough relays, but for a WebTransport datagram
\* that was sent without the metadata it needs, which is never read as the item; an end that has a key, or requires
\* one, hands on nothing that was not sealed with it.
THEOREM PayloadsSafe == PayloadSpec => []PayloadSound
<1>1. PayloadInit => PayloadInv
  <2> SUFFICES ASSUME PayloadInit PROVE PayloadInv
    OBVIOUS
  <2>1. carrier = "" /\ reading = "" /\ reader = [kind |-> ""]
    BY DEF PayloadInit
  <2>2. carrier \notin StoreKinds /\ carrier # "relay"
    BY <2>1, PayloadAssumption
  <2>3. PayloadSound
    BY <2>1, Unread DEF PayloadSound, MatchedDelivers, KeyedRefusesPlain
  <2> QED BY <2>1, <2>2, <2>3 DEF PayloadInv
<1>2. PayloadInv => PayloadSound
  BY DEF PayloadInv
<1> QED BY <1>1, <1>2, PayloadSteps, PTL DEF PayloadSpec
=============================================================================
