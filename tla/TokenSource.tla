----------------------------- MODULE TokenSource -----------------------------
(***************************************************************************)
(* pkg/internal/forwardrelay/token_source.go: refreshingCCSource, the token *)
(* source the forward relays share between their submitters.  The lock is   *)
(* let go while a token is fetched, so calls overlap and a slow answer may  *)
(* replace a newer token.                                                   *)
(*                                                                          *)
(* The token endpoint is external: it starts the life of a token when it    *)
(* answers, the source counts it from when the answer arrives, at most      *)
(* Latency later (the timeout of the HTTP client).                          *)
(***************************************************************************)
EXTENDS Naturals

CONSTANTS
    TokenCalls,    \* calls of AccessToken
    Life,          \* how long tokens live: expires_in, where it is stated
    DefaultLife,   \* what the source counts when expires_in is missing or zero
    Latency,       \* longest time an answer is on its way
    Skew,          \* refresh leeway
    MaxTokenClock  \* bound on time

\* The defaults are a timeout of 10 and a leeway of 20 seconds.  An endpoint that
\* does not state the life of its tokens gives them at least the minute counted.
ASSUME TokenAssumption ==
    /\ Life \in Nat /\ Latency \in Nat /\ Skew \in Nat /\ MaxTokenClock \in Nat
    /\ DefaultLife \in Nat /\ DefaultLife <= Life
    /\ Latency < Life /\ Latency <= Skew

VARIABLES
    tokenClock,
    cachedDies, cachedExp,  \* the cached token: when it really ends, s.exp; 0 for none
    tokAt, tokDies,         \* each call: place; when the token in its hands really ends
    issuedAt, counted,      \* when the endpoint answered; the life counted for the token
    returnedAt              \* when the call returned

tokenVars == <<tokenClock, cachedDies, cachedExp, tokAt, tokDies, issuedAt, counted, returnedAt>>

TokenInit ==
    /\ tokenClock = 0 /\ cachedDies = 0 /\ cachedExp = 0
    /\ tokAt = [c \in TokenCalls |-> "new"] /\ tokDies = [c \in TokenCalls |-> 0]
    /\ issuedAt = [c \in TokenCalls |-> 0] /\ counted = [c \in TokenCalls |-> Life]
    /\ returnedAt = [c \in TokenCalls |-> 0]

TokTo(c, place) == tokAt' = [tokAt EXCEPT ![c] = place]
TokReturns(c, dies) ==
    /\ TokTo(c, "returned")
    /\ tokDies' = [tokDies EXCEPT ![c] = dies]
    /\ returnedAt' = [returnedAt EXCEPT ![c] = tokenClock]

\* No answer is on its way for longer than the timeout.
TokenTick ==
    /\ tokenClock < MaxTokenClock
    /\ \A c \in TokenCalls : tokAt[c] = "answered" => tokenClock < issuedAt[c] + Latency
    /\ tokenClock' = tokenClock + 1
    /\ UNCHANGED <<cachedDies, cachedExp, tokAt, tokDies, issuedAt, counted, returnedAt>>

MutAccessToken(c) ==
    /\ tokAt[c] = "new"
    /\ IF tokenClock < cachedExp
       THEN TokReturns(c, cachedDies)
       ELSE TokTo(c, "ask") /\ UNCHANGED <<tokDies, returnedAt>>
    /\ UNCHANGED <<tokenClock, cachedDies, cachedExp, issuedAt, counted>>

AccessToken(c) ==
    /\ tokAt[c] = "new"
    /\ IF tokenClock + Skew < cachedExp
       THEN TokReturns(c, cachedDies)
       ELSE TokTo(c, "ask") /\ UNCHANGED <<tokDies, returnedAt>>
    /\ UNCHANGED <<tokenClock, cachedDies, cachedExp, issuedAt, counted>>

\* The endpoint issues a token, and states its life or not, or the request fails.
TokenAnswer(c) ==
    /\ tokAt[c] = "ask"
    /\ \/ /\ TokTo(c, "answered")
          /\ issuedAt' = [issuedAt EXCEPT ![c] = tokenClock]
          /\ tokDies' = [tokDies EXCEPT ![c] = tokenClock + Life]
          /\ \E life \in {Life, DefaultLife} : counted' = [counted EXCEPT ![c] = life]
       \/ /\ TokTo(c, "failed")
          /\ UNCHANGED <<issuedAt, counted, tokDies>>
    /\ UNCHANGED <<tokenClock, cachedDies, cachedExp, returnedAt>>

StoreToken(c) ==
    /\ tokAt[c] = "answered"
    /\ cachedDies' = tokDies[c] /\ cachedExp' = tokenClock + counted[c]
    /\ TokReturns(c, tokDies[c])
    /\ UNCHANGED <<tokenClock, issuedAt, counted>>

TokenStep(c) == AccessToken(c) \/ TokenAnswer(c) \/ StoreToken(c)
TokenNext == TokenTick \/ \E c \in TokenCalls : TokenStep(c)
TokenSpec == TokenInit /\ [][TokenNext]_tokenVars

-----------------------------------------------------------------------------
\* A token AccessToken returns has not expired when it is returned, although the
\* source believes it lives longer than it does and a slow answer may replace a
\* newer one: the leeway covers the time the answer was on its way.
TokenLives ==
    \A c \in TokenCalls : tokAt[c] = "returned" => returnedAt[c] < tokDies[c]
=============================================================================
