----------------------------- MODULE HTTPServer -----------------------------
(***************************************************************************)
(* jack/httpserver: Serve and the handler it builds.                       *)
(* Serve holds serverMu for as long as it runs and leaves h.server set      *)
(* when it returns, so an adapter serves once.  A cancelled context stops   *)
(* the listener and waits, for a limited time, until the requests in hand   *)
(* are answered; that context is also the parent of every request's.        *)
(*                                                                          *)
(* The server of net/http is external: ListenAndServe may fail at once or   *)
(* later, Shutdown refuses new requests and waits for the ones it has.  A   *)
(* request is judged by the method, the policy (module Authentication) and  *)
(* the decoder, each a choice here.                                         *)
(***************************************************************************)
EXTENDS Naturals, FiniteSets

CONSTANTS HttpServes,    \* calls of Serve
          HttpRequests   \* requests that may arrive

VARIABLES
    httpConf,      \* the configuration has a method, an endpoint and usable TLS
    httpAt,        \* each call: "idle", "lock", "serve", "drain" or "done"
    httpResult,    \* what it returned
    httpMu,        \* the call that holds serverMu, or "free"
    httpServer,    \* h.server is set
    httpFrozen,    \* configFrozen
    listener,      \* "none", "starting", "open", "failed" or "shut"
    httpCancelled, \* calls whose context is cancelled
    request,       \* each request: "out", "handler", "submit" or a status
    inSubmit       \* history: requests handed to submitFunc

httpVars == <<httpConf, httpAt, httpResult, httpMu, httpServer, httpFrozen, listener,
              httpCancelled, request, inSubmit>>

HttpInit ==
    /\ httpConf \in BOOLEAN
    /\ httpAt = [c \in HttpServes |-> "idle"] /\ httpResult = [c \in HttpServes |-> ""]
    /\ httpMu = "free" /\ httpServer = FALSE /\ httpFrozen = FALSE /\ listener = "none"
    /\ httpCancelled = {} /\ request = [r \in HttpRequests |-> "out"] /\ inSubmit = {}

InHandler == {r \in HttpRequests : request[r] \in {"handler", "submit"}}

Finish_(c, result) ==
    /\ httpAt' = [httpAt EXCEPT ![c] = "done"] /\ httpResult' = [httpResult EXCEPT ![c] = result]

----------------------------------------------------------------------------
HttpServe(c) ==
    /\ httpAt[c] = "idle" /\ httpAt' = [httpAt EXCEPT ![c] = "lock"]
    /\ UNCHANGED <<httpConf, httpResult, httpMu, httpServer, httpFrozen, listener,
                   httpCancelled, request, inSubmit>>

\* With the lock: refuse a second server or a bad configuration, or start.
HttpStarts(c) ==
    /\ httpAt[c] = "lock" /\ httpMu = "free"
    /\ \/ (httpServer \/ ~httpConf) /\ Finish_(c, "refused")
          /\ UNCHANGED <<httpMu, httpServer, httpFrozen, listener>>
       \/ ~httpServer /\ httpConf
          /\ httpMu' = c /\ httpServer' = TRUE /\ httpFrozen' = TRUE /\ listener' = "starting"
          /\ httpAt' = [httpAt EXCEPT ![c] = "serve"] /\ UNCHANGED httpResult
    /\ UNCHANGED <<httpConf, httpCancelled, request, inSubmit>>

\* ListenAndServe in its goroutine: the port opens, or an error comes back.
ListenAndServe ==
    /\ \/ listener = "starting" /\ listener' \in {"open", "failed"}
       \/ listener = "open" /\ listener' = "failed"
    /\ UNCHANGED <<httpConf, httpAt, httpResult, httpMu, httpServer, httpFrozen,
                   httpCancelled, request, inSubmit>>

HttpServeFails(c) ==
    /\ httpAt[c] = "serve" /\ listener = "failed"
    /\ Finish_(c, "failed") /\ httpMu' = "free"
    /\ UNCHANGED <<httpConf, httpServer, httpFrozen, listener, httpCancelled, request, inSubmit>>

HttpCancel(c) ==
    /\ httpAt[c] # "idle" /\ httpCancelled' = httpCancelled \cup {c}
    /\ UNCHANGED <<httpConf, httpAt, httpResult, httpMu, httpServer, httpFrozen, listener,
                   request, inSubmit>>

MutHttpShutdown(c) ==
    /\ httpAt[c] = "serve" /\ c \in httpCancelled
    /\ httpAt' = [httpAt EXCEPT ![c] = "drain"]
    /\ UNCHANGED <<httpConf, httpResult, httpMu, httpServer, httpFrozen, listener,
                   httpCancelled, request, inSubmit>>

\* ctx.Done is chosen: Shutdown refuses what comes from now on.
HttpShutdown(c) ==
    /\ httpAt[c] = "serve" /\ c \in httpCancelled
    /\ httpAt' = [httpAt EXCEPT ![c] = "drain"] /\ listener' = "shut"
    /\ UNCHANGED <<httpConf, httpResult, httpMu, httpServer, httpFrozen,
                   httpCancelled, request, inSubmit>>

\* Shutdown returns when no request is left or its time is up.
HttpDrained(c) ==
    /\ httpAt[c] = "drain"
    /\ Finish_(c, IF InHandler = {} THEN "cancelled" ELSE "late") /\ httpMu' = "free"
    /\ UNCHANGED <<httpConf, httpServer, httpFrozen, listener, httpCancelled, request, inSubmit>>

----------------------------------------------------------------------------
(* The handler. *)
Reply(r, status) == request' = [request EXCEPT ![r] = status]

Arrives(r) ==
    /\ request[r] = "out" /\ listener = "open" /\ Reply(r, "handler")
    /\ UNCHANGED <<httpConf, httpAt, httpResult, httpMu, httpServer, httpFrozen, listener,
                   httpCancelled, inSubmit>>

\* Method, policy and decoder in that order; the first failure answers.
Handle(r) ==
    /\ request[r] = "handler"
    /\ \/ Reply(r, "405") /\ UNCHANGED inSubmit
       \/ Reply(r, "401") /\ UNCHANGED inSubmit
       \/ Reply(r, "400") /\ UNCHANGED inSubmit
       \/ Reply(r, "submit") /\ inSubmit' = inSubmit \cup {r}
    /\ UNCHANGED <<httpConf, httpAt, httpResult, httpMu, httpServer, httpFrozen, listener,
                   httpCancelled>>

\* submitFunc answers, fails, or fails with a status of its own.
SubmitAnswers(r) ==
    /\ request[r] = "submit" /\ \E status \in {"200", "500", "custom"} : Reply(r, status)
    /\ UNCHANGED <<httpConf, httpAt, httpResult, httpMu, httpServer, httpFrozen, listener,
                   httpCancelled, inSubmit>>

----------------------------------------------------------------------------
HttpCallStep(c) == HttpStarts(c) \/ HttpServeFails(c) \/ HttpShutdown(c) \/ HttpDrained(c)

HttpNext ==
    \/ \E c \in HttpServes : HttpServe(c) \/ HttpCallStep(c) \/ HttpCancel(c)
    \/ ListenAndServe
    \/ \E r \in HttpRequests : Arrives(r) \/ Handle(r) \/ SubmitAnswers(r)

\* Goroutines run; Shutdown's timer fires.  submitFunc need not answer.
HttpFairness == \A c \in HttpServes : WF_httpVars(HttpCallStep(c))

HttpSpec == HttpInit /\ [][HttpNext]_httpVars /\ HttpFairness

----------------------------------------------------------------------------
(* A Serve that came back from a cancelled context within its time left no *)
(* request behind: none is in the handler or in submitFunc, and none       *)
(* arrives later.                                                          *)
DrainedOnShutdown == (\E c \in HttpServes : httpResult[c] = "cancelled") => InHandler = {}

(* A cancelled Serve that had started serving has not returned. It does in *)
(* the end, even when a request never comes back from submitFunc.          *)
HttpLingers == \E c \in httpCancelled : httpAt[c] \in {"serve", "drain"}
=============================================================================
