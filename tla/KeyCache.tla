------------------------------ MODULE KeyCache ------------------------------
(***************************************************************************)
(* pkg/internal/auth/jwt_validator.go: the JWT validator and its cache of   *)
(* the signing keys.  Calls of Validate share the cache; each may fetch the *)
(* key set, once because the cache is empty or old and once more, by force, *)
(* because it lacks the key.  A token that names no key is checked with the *)
(* only key of the set, the cached one included, and is refused when there  *)
(* are several.                                                             *)
(*                                                                          *)
(* The provider is external: it signs with the newest key and goes on       *)
(* serving older ones until it retires them, oldest first.  A key is a      *)
(* number, its kid; 0 is the kid of a token that has none.  Decoding,       *)
(* claims and scopes may refuse a token and change nothing.                 *)
(***************************************************************************)
EXTENDS Naturals, FiniteSets

CONSTANTS
    JwtCalls,     \* calls of Validate
    KeysTTL,      \* JWKS cache time
    MaxKey,       \* keys the provider ever uses, 1..MaxKey
    MaxKeyClock   \* bound on time

ASSUME KeyAssumption == KeysTTL \in Nat \ {0} /\ MaxKey \in Nat \ {0} /\ MaxKeyClock \in Nat

VARIABLES
    keyClock,
    oldest, current,                \* the provider serves the keys oldest..current
    retiredAt,                      \* when it stopped serving each
    keys, expires,                  \* the cache: v.keys and v.expires
    jwtAt, signer, kid,             \* each call: place; its token's key and the kid it names
    forced, asked, fetched,         \* getKeys: force, its now, the set it was given
    chosen,                         \* the key lookupKey returned, 0 for none
    seenOldest, seenCurrent         \* history: oldest and current when Validate began

provider == <<oldest, current, retiredAt>>
bearer == <<signer, kid, seenOldest, seenCurrent>>
keyVars == <<keyClock, provider, keys, expires, jwtAt, bearer, forced, asked, fetched, chosen>>

Served == oldest..current
NotYet == MaxKeyClock + KeysTTL + 1

KeyInit ==
    /\ keyClock = 0 /\ oldest = 1 /\ current = 1
    /\ retiredAt = [k \in 1..MaxKey |-> NotYet]
    /\ keys = {} /\ expires = 0
    /\ jwtAt = [c \in JwtCalls |-> "new"]
    /\ signer = [c \in JwtCalls |-> 1] /\ kid = [c \in JwtCalls |-> 1]
    /\ forced = [c \in JwtCalls |-> FALSE] /\ asked = [c \in JwtCalls |-> 0]
    /\ fetched = [c \in JwtCalls |-> {}] /\ chosen = [c \in JwtCalls |-> 0]
    /\ seenOldest = [c \in JwtCalls |-> 0] /\ seenCurrent = [c \in JwtCalls |-> 0]

JwtTo(c, place) == jwtAt' = [jwtAt EXCEPT ![c] = place]

KeyTick ==
    /\ keyClock < MaxKeyClock
    /\ keyClock' = keyClock + 1
    /\ UNCHANGED <<provider, keys, expires, jwtAt, bearer, forced, asked, fetched, chosen>>

\* The provider begins to sign with a new key.
Rotate ==
    /\ current < MaxKey
    /\ current' = current + 1
    /\ UNCHANGED <<keyClock, oldest, retiredAt, keys, expires, jwtAt, bearer, forced, asked,
                   fetched, chosen>>

Retire ==
    /\ oldest < current
    /\ oldest' = oldest + 1
    /\ retiredAt' = [retiredAt EXCEPT ![oldest] = keyClock]
    /\ UNCHANGED <<keyClock, current, keys, expires, jwtAt, bearer, forced, asked, fetched, chosen>>

\* The header is read; the token was signed with a key chosen so far.
Validate(c) ==
    /\ jwtAt[c] = "new"
    /\ \E k \in 1..current :
         /\ signer' = [signer EXCEPT ![c] = k]
         /\ \E named \in {k, 0} : kid' = [kid EXCEPT ![c] = named]
    /\ seenOldest' = [seenOldest EXCEPT ![c] = oldest]
    /\ seenCurrent' = [seenCurrent EXCEPT ![c] = current]
    /\ JwtTo(c, "keys")
    /\ UNCHANGED <<keyClock, provider, keys, expires, forced, asked, fetched, chosen>>

\* getKeys: the cache if it may be chosen, a request otherwise.
GetKeys(c) ==
    /\ jwtAt[c] = "keys"
    /\ asked' = [asked EXCEPT ![c] = keyClock]
    /\ IF ~forced[c] /\ keys # {} /\ keyClock < expires
       THEN JwtTo(c, "have") /\ fetched' = [fetched EXCEPT ![c] = keys]
       ELSE JwtTo(c, "fetch") /\ UNCHANGED fetched
    /\ UNCHANGED <<keyClock, provider, keys, expires, bearer, forced, chosen>>

\* The provider answers with the keys it serves now, or the request fails.
FetchJWKS(c) ==
    /\ jwtAt[c] = "fetch"
    /\ \/ JwtTo(c, "store") /\ fetched' = [fetched EXCEPT ![c] = Served]
       \/ JwtTo(c, "failed") /\ UNCHANGED fetched
    /\ UNCHANGED <<keyClock, provider, keys, expires, bearer, forced, asked, chosen>>

MutStoreKeys(c) ==
    /\ jwtAt[c] = "store"
    /\ keys' = fetched[c] /\ expires' = keyClock + KeysTTL
    /\ JwtTo(c, "have")
    /\ UNCHANGED <<keyClock, provider, bearer, forced, asked, fetched, chosen>>

\* An answer that was overtaken by a later one replaces it, with its own age.
StoreKeys(c) ==
    /\ jwtAt[c] = "store"
    /\ keys' = fetched[c] /\ expires' = asked[c] + KeysTTL
    /\ JwtTo(c, "have")
    /\ UNCHANGED <<keyClock, provider, bearer, forced, asked, fetched, chosen>>

\* The keys of a set that lookupKey may return: the one that is named, or the
\* only one when none is.
Candidates(c) ==
    IF kid[c] # 0 THEN fetched[c] \cap {kid[c]}
    ELSE {k \in fetched[c] : fetched[c] = {k}}

\* lookupKey: without a candidate the provider is asked once more; then the
\* signature is verified.
LookupKey(c) ==
    /\ jwtAt[c] = "have"
    /\ \/ \E k \in Candidates(c) :
            /\ chosen' = [chosen EXCEPT ![c] = k]
            /\ JwtTo(c, IF k = signer[c] THEN "verified" ELSE "mismatch")
            /\ UNCHANGED forced
       \/ /\ Candidates(c) = {} /\ ~forced[c]
          /\ JwtTo(c, "keys") /\ forced' = [forced EXCEPT ![c] = TRUE]
          /\ UNCHANGED chosen
       \/ /\ Candidates(c) = {} /\ forced[c]
          /\ JwtTo(c, "unknown")
          /\ UNCHANGED <<forced, chosen>>
    /\ UNCHANGED <<keyClock, provider, keys, expires, bearer, asked, fetched>>

JwtStep(c) == Validate(c) \/ GetKeys(c) \/ FetchJWKS(c) \/ StoreKeys(c) \/ LookupKey(c)
KeyNext == KeyTick \/ Rotate \/ Retire \/ \E c \in JwtCalls : JwtStep(c)
KeySpec == KeyInit /\ [][KeyNext]_keyVars

-----------------------------------------------------------------------------
\* A key is served from the beginning of a call up to now.
ServedThroughout(c, k) == k \in seenOldest[c]..seenCurrent[c] /\ k \in Served

\* However old the cache and whatever overtaken answers are stored in it
\* (lookupKey, getKeys):
\*   a token that names its key is not refused while that key is served
\*   throughout the call; one that names none is called unknown only if the
\*   provider did not serve one and the same key alone throughout the call;
\*   the key a signature is verified with was not retired the cache time before:
\*   so a token without a kid, which may meet a stale key and is then refused
\*   without a second look, meets only one that was served that recently.
KeysFresh ==
    \A c \in JwtCalls :
        /\ jwtAt[c] \in {"unknown", "mismatch"} /\ kid[c] # 0 => ~ServedThroughout(c, kid[c])
        /\ jwtAt[c] = "unknown" /\ kid[c] = 0 =>
              ~(seenOldest[c] = current /\ seenCurrent[c] = current /\ oldest = current)
        /\ jwtAt[c] \in {"verified", "mismatch"} => asked[c] < retiredAt[chosen[c]] + KeysTTL
=============================================================================
