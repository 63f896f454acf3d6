--------------------------- MODULE Authentication ---------------------------
(***************************************************************************)
(* How the receiving relays and the jacks authenticate a caller: required   *)
(* static headers, then the dynamic validator.  The default validator is    *)
(* installed from the OAuth2 options and hands a JWT to the JWT validator   *)
(* (KeyCache) and any other token to a caching introspection validator,     *)
(* which each of the six packages has a copy of.                            *)
(*                                                                          *)
(* One token is followed; entries of the cache do not affect each other.    *)
(* The identity provider is external: it answers with the state of the      *)
(* token when it is asked, with 429, or not at all, and the answer may take *)
(* any time to arrive.  Time is a counter.  Scopes, credentials and header  *)
(* parsing are left out.                                                    *)
(***************************************************************************)
EXTENDS Integers, FiniteSets

CONSTANTS
    AuthOwners,   \* packages to explore: "grpc", "quic", "websocket", "webtransport",
                  \* "httpJack", "wsJack"
    AuthReqs,     \* requests or connections, once each
    OptionSets,   \* what the OAuth2 options accept: subsets of {"jwt", "introspection"}
    Callers,      \* what requests bring: [headers: they match, token: none, opaque or jwt]
    TTL,          \* introspection cache time
    MaxBackoff,   \* longest backoff; the step starts at 1 and doubles
    MaxClock      \* bound on time

ASSUME AuthAssumption ==
    /\ TTL \in Nat \ {0} /\ MaxBackoff \in Nat \ {0} /\ MaxClock \in Nat
    /\ IsFiniteSet(AuthReqs)
    /\ Callers \subseteq [headers : BOOLEAN, token : {"none", "opaque", "jwt"}]

Jacks == {"httpJack", "wsJack"}
Relays == {"quic", "websocket", "webtransport"}
Never == MaxClock + TTL + 1
NoEntry == [active |-> FALSE, exp |-> 0]
Validators == 0..Cardinality(AuthReqs)      \* 0: none installed

VARIABLES
    owner, authRequired, accepts, enabled,  \* the component and its configuration
    validator,               \* dynamicAuthValidator: the last one installed
    cache, backoffUntil, backoffStep,       \* of each introspection validator
    authClock, revokedAt,    \* time; when the provider revokes the token
    reqAt, statics, token,   \* each request: place, whether its static headers match, token
    myV, began,              \* the validator it calls; when validate began
    answer,                  \* what the provider answered
    verdict,                 \* what the dynamic validator said: "none", "ok", "bad"
    outcome                  \* "none", "accepted", "refused"

confVars == <<owner, authRequired, accepts, enabled>>
cacheVars == <<cache, backoffUntil, backoffStep>>
timeVars == <<authClock, revokedAt>>
authVars == <<confVars, validator, cacheVars, timeVars, reqAt, statics, token, myV, began,
              answer, verdict, outcome>>

AuthInit ==
    /\ owner \in AuthOwners /\ authRequired \in BOOLEAN
    /\ accepts \in OptionSets
    /\ enabled \in IF owner \in Jacks THEN BOOLEAN ELSE {TRUE}
    /\ validator = 0
    /\ cache = [v \in Validators |-> NoEntry]
    /\ backoffUntil = [v \in Validators |-> 0] /\ backoffStep = [v \in Validators |-> 1]
    /\ authClock = 0 /\ revokedAt = Never
    /\ reqAt = [r \in AuthReqs |-> "new"]
    /\ statics = [r \in AuthReqs |-> TRUE] /\ token = [r \in AuthReqs |-> "none"]
    /\ myV = [r \in AuthReqs |-> 0] /\ began = [r \in AuthReqs |-> 0]
    /\ answer = [r \in AuthReqs |-> "none"]
    /\ verdict = [r \in AuthReqs |-> "none"] /\ outcome = [r \in AuthReqs |-> "none"]

ReqTo(r, place) == reqAt' = [reqAt EXCEPT ![r] = place]

AuthTick ==
    /\ authClock < MaxClock
    /\ authClock' = authClock + 1
    /\ UNCHANGED <<confVars, validator, cacheVars, revokedAt, reqAt, statics, token, myV,
                   began, answer, verdict, outcome>>

Revoke ==
    /\ revokedAt = Never
    /\ revokedAt' = authClock
    /\ UNCHANGED <<confVars, validator, cacheVars, authClock, reqAt, statics, token, myV,
                   began, answer, verdict, outcome>>

-----------------------------------------------------------------------------
(* Installing the default validator. *)

HasValidator == accepts # {} /\ enabled

\* The gRPC relay installs it when it builds its server, the jacks when they
\* take their configuration: before any request, and under a lock in the jacks.
\* The other relays look and install in every session or stream, without a lock.
Arrive(r) ==
    /\ reqAt[r] = "new"
    /\ \E c \in Callers :
         /\ statics' = [statics EXCEPT ![r] = c.headers]
         /\ token' = [token EXCEPT ![r] = c.token]
    /\ IF owner \in Relays
       THEN ReqTo(r, IF validator = 0 /\ HasValidator THEN "install" ELSE "policy")
            /\ UNCHANGED validator
       ELSE ReqTo(r, "policy") /\ validator' = IF HasValidator THEN 1 ELSE 0
    /\ UNCHANGED <<confVars, cacheVars, timeVars, myV, began, answer, verdict, outcome>>

Install(r) ==
    /\ reqAt[r] = "install"
    /\ validator' = validator + 1
    /\ ReqTo(r, "policy")
    /\ UNCHANGED <<confVars, cacheVars, timeVars, statics, token, myV, began, answer,
                   verdict, outcome>>

-----------------------------------------------------------------------------
(* The policy: static headers first, then the validator. *)

\* maybePolicyError: without authRequired an error is only logged.
Soften(r) == outcome' = [outcome EXCEPT ![r] = IF authRequired THEN "refused" ELSE "accepted"]

Decide(r, ok) ==
    /\ ReqTo(r, "done")
    /\ IF ok THEN outcome' = [outcome EXCEPT ![r] = "accepted"] ELSE Soften(r)

CallValidator(r) ==
    /\ ReqTo(r, "dispatch")
    /\ myV' = [myV EXCEPT ![r] = validator]

\* The gRPC interceptors go on to the validator after a softened header error.
GrpcPolicy(r) ==
    /\ owner = "grpc" /\ reqAt[r] = "policy"
    /\ \/ ~statics[r] /\ authRequired /\ Decide(r, FALSE) /\ UNCHANGED myV
       \/ (statics[r] \/ ~authRequired) /\ validator = 0 /\ Decide(r, TRUE) /\ UNCHANGED myV
       \/ (statics[r] \/ ~authRequired) /\ validator # 0 /\ CallValidator(r) /\ UNCHANGED outcome
    /\ UNCHANGED <<confVars, validator, cacheVars, timeVars, statics, token, began, answer,
                   verdict>>

\* The others stop at the first error and soften that one.
FirstErrorWins(r) ==
    /\ owner \in Relays \cup Jacks /\ reqAt[r] = "policy"
    /\ \/ ~statics[r] /\ Decide(r, FALSE) /\ UNCHANGED myV
       \/ statics[r] /\ validator = 0 /\ Decide(r, TRUE) /\ UNCHANGED myV
       \/ statics[r] /\ validator # 0 /\ CallValidator(r) /\ UNCHANGED outcome
    /\ UNCHANGED <<confVars, validator, cacheVars, timeVars, statics, token, began, answer,
                   verdict>>

\* A datagram of a WebTransport session is handed to handlePayload with validated =
\* nil, which skips the policy: it is taken as it comes, authRequired or not.
handleDatagram(r) ==
    /\ owner = "webtransport" /\ reqAt[r] = "policy"
    /\ ReqTo(r, "datagram")
    /\ outcome' = [outcome EXCEPT ![r] = "accepted"]
    /\ UNCHANGED <<confVars, validator, cacheVars, timeVars, statics, token, myV, began, answer,
                   verdict>>

RelayPolicy(r) == owner \in Relays /\ FirstErrorWins(r)
HttpJackPolicy(r) == owner = "httpJack" /\ FirstErrorWins(r)
WsJackPolicy(r) == owner = "wsJack" /\ FirstErrorWins(r)

Verdict(r, ok) ==
    /\ verdict' = [verdict EXCEPT ![r] = IF ok THEN "ok" ELSE "bad"]
    /\ Decide(r, ok)

\* A JWT goes to the JWT validator, and so does any token when introspection is
\* not accepted; that validator's verdict is taken as it comes.
Dispatch(r) ==
    /\ reqAt[r] = "dispatch"
    /\ \/ /\ token[r] = "none"
          /\ Verdict(r, FALSE)
       \/ /\ token[r] # "none" /\ "jwt" \in accepts
          /\ token[r] = "jwt" \/ "introspection" \notin accepts
          /\ \E ok \in BOOLEAN : Verdict(r, ok)
       \/ /\ token[r] # "none" /\ "introspection" \in accepts
          /\ token[r] = "jwt" => "jwt" \notin accepts
          /\ ReqTo(r, "begin")
          /\ UNCHANGED <<verdict, outcome>>
    /\ UNCHANGED <<confVars, validator, cacheVars, timeVars, statics, token, myV, began, answer>>

-----------------------------------------------------------------------------
(* validate of the introspection validator. *)

Begin(r) ==
    /\ reqAt[r] = "begin"
    /\ began' = [began EXCEPT ![r] = authClock]
    /\ IF backoffUntil[myV[r]] > authClock
       THEN Verdict(r, FALSE)
       ELSE ReqTo(r, "lookup") /\ UNCHANGED <<verdict, outcome>>
    /\ UNCHANGED <<confVars, validator, cacheVars, timeVars, statics, token, myV, answer>>

Lookup(r) ==
    /\ reqAt[r] = "lookup"
    /\ IF cache[myV[r]].exp > began[r]
       THEN Verdict(r, cache[myV[r]].active)
       ELSE ReqTo(r, "ask") /\ UNCHANGED <<verdict, outcome>>
    /\ UNCHANGED <<confVars, validator, cacheVars, timeVars, statics, token, myV, began, answer>>

\* The provider looks at the token now; the answer is applied later.
Answer(r) ==
    /\ reqAt[r] = "ask"
    /\ \E a \in {"429", "error", "useless", IF authClock >= revokedAt THEN "inactive" ELSE "active"} :
         answer' = [answer EXCEPT ![r] = a]
    /\ ReqTo(r, "apply")
    /\ UNCHANGED <<confVars, validator, cacheVars, timeVars, statics, token, myV, began,
                   verdict, outcome>>

TooManyRequests(r) ==
    /\ reqAt[r] = "apply" /\ answer[r] = "429"
    /\ LET v == myV[r]
           step == IF 2 * backoffStep[v] > MaxBackoff THEN MaxBackoff ELSE 2 * backoffStep[v]
       IN  /\ backoffStep' = [backoffStep EXCEPT ![v] = step]
           /\ backoffUntil' = [backoffUntil EXCEPT ![v] = began[r] + step]
    /\ Verdict(r, FALSE)
    /\ UNCHANGED <<confVars, validator, cache, timeVars, statics, token, myV, began, answer>>

\* Any other answer ends the backoff, also one that began before the 429.
EndBackoff(r) ==
    /\ reqAt[r] = "apply" /\ answer[r] \in {"active", "inactive", "useless"}
    /\ backoffStep' = [backoffStep EXCEPT ![myV[r]] = 1]
    /\ backoffUntil' = [backoffUntil EXCEPT ![myV[r]] = 0]
    /\ ReqTo(r, "store")
    /\ UNCHANGED <<confVars, validator, cache, timeVars, statics, token, myV, began, answer,
                   verdict, outcome>>

\* The request fails; or, the backoff ended, the status or the body is of no use.
AskFails(r) ==
    /\ \/ reqAt[r] = "apply" /\ answer[r] = "error"
       \/ reqAt[r] = "store" /\ answer[r] = "useless"
    /\ Verdict(r, FALSE)
    /\ UNCHANGED <<confVars, validator, cacheVars, timeVars, statics, token, myV, began, answer>>

MutStoreAnswer(r) ==
    /\ reqAt[r] = "store" /\ answer[r] # "useless"
    /\ cache' = [cache EXCEPT ![myV[r]] = [active |-> answer[r] = "active", exp |-> authClock + TTL]]
    /\ Verdict(r, answer[r] = "active")
    /\ UNCHANGED <<confVars, validator, backoffUntil, backoffStep, timeVars, statics, token,
                   myV, began, answer>>

\* The entry lives from the beginning of the call, not from the answer.
StoreAnswer(r) ==
    /\ reqAt[r] = "store" /\ answer[r] # "useless"
    /\ cache' = [cache EXCEPT ![myV[r]] = [active |-> answer[r] = "active", exp |-> began[r] + TTL]]
    /\ Verdict(r, answer[r] = "active")
    /\ UNCHANGED <<confVars, validator, backoffUntil, backoffStep, timeVars, statics, token,
                   myV, began, answer>>

ValidateStep(r) ==
    \/ Begin(r) \/ Lookup(r) \/ Answer(r) \/ TooManyRequests(r) \/ EndBackoff(r)
    \/ AskFails(r) \/ StoreAnswer(r)

\* The copies of validate.
GrpcValidate(r) == owner = "grpc" /\ ValidateStep(r)
QuicValidate(r) == owner = "quic" /\ ValidateStep(r)
WsRelayValidate(r) == owner = "websocket" /\ ValidateStep(r)
WtRelayValidate(r) == owner = "webtransport" /\ ValidateStep(r)
HttpJackValidate(r) == owner = "httpJack" /\ ValidateStep(r)
WsJackValidate(r) == owner = "wsJack" /\ ValidateStep(r)

\* The copies of the default validator.
GrpcDispatch(r) == owner = "grpc" /\ Dispatch(r)
QuicDispatch(r) == owner = "quic" /\ (Install(r) \/ Dispatch(r))
WsRelayDispatch(r) == owner = "websocket" /\ (Install(r) \/ Dispatch(r))
WtRelayDispatch(r) == owner = "webtransport" /\ (Install(r) \/ Dispatch(r))
HttpJackDispatch(r) == owner = "httpJack" /\ Dispatch(r)
WsJackDispatch(r) == owner = "wsJack" /\ Dispatch(r)

-----------------------------------------------------------------------------
AuthStep(r) ==
    \/ Arrive(r) \/ handleDatagram(r)
    \/ GrpcPolicy(r) \/ RelayPolicy(r) \/ HttpJackPolicy(r) \/ WsJackPolicy(r)
    \/ GrpcDispatch(r) \/ QuicDispatch(r) \/ WsRelayDispatch(r) \/ WtRelayDispatch(r)
    \/ HttpJackDispatch(r) \/ WsJackDispatch(r)
    \/ GrpcValidate(r) \/ QuicValidate(r) \/ WsRelayValidate(r) \/ WtRelayValidate(r)
    \/ HttpJackValidate(r) \/ WsJackValidate(r)

AuthNext == AuthTick \/ Revoke \/ \E r \in AuthReqs : AuthStep(r)

AuthSpec == AuthInit /\ [][AuthNext]_authVars

-----------------------------------------------------------------------------
Introspected(r) == verdict[r] = "ok" /\ token[r] = "opaque" /\ "introspection" \in accepts

\* A revoked token is accepted for at most the cache time after the revocation,
\* whatever answers are on their way and in whatever order they are stored, and
\* also when two streams have installed a validator each (validate).
RevocationHonoured ==
    \A r \in AuthReqs : Introspected(r) => began[r] < revokedAt + TTL

\* With authRequired, what comes over a stream or a connection is accepted only with
\* its static headers and, where the options install a validator, with that
\* validator's approval: no order of installing and checking lets one through in
\* between. Only a WebTransport datagram passes unchecked (handleDatagrams).
AcceptedApproved ==
    \A r \in AuthReqs :
        outcome[r] = "accepted" /\ authRequired
            => \/ owner = "webtransport" /\ reqAt[r] = "datagram"
               \/ statics[r] /\ (HasValidator => verdict[r] = "ok")

\* What the relays' authentication promises: no late answer and no order of
\* installing the validator admits a request that a check should have stopped.
AuthSound == RevocationHonoured /\ AcceptedApproved
=============================================================================
