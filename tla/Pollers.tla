------------------------------- MODULE Pollers -------------------------------
(***************************************************************************)
(* The polling readers of the adapters: Serve and Fetch of s3client,        *)
(* postgresclient and httpclient.                                           *)
(*   s3        lists the objects after listStartAfter page by page and      *)
(*             reads what a page named, moves listStartAfter to the last    *)
(*             one when all were read, and only then submits; a failed      *)
(*             fetch is tried again at the next tick; one Serve at a time;  *)
(*   postgres  queries all rows at every tick; any error ends Serve;        *)
(*   http      one value per tick, fetched and submitted with retries;      *)
(*             one Serve at a time; a bearer token is put into the headers  *)
(*             when the client is built and refreshed before a request.     *)
(*                                                                          *)
(* The services are external: a call works or fails.  An object, a row or   *)
(* an answer holds one record, its number; reading it may fail as decoding  *)
(* may.  Time for tokens is a counter.                                      *)
(***************************************************************************)
EXTENDS Naturals, Sequences, FiniteSets, FiniteSetsExt

CONSTANTS
    PollKinds,     \* subset of {"s3", "postgres", "http"}
    PollCalls,     \* calls of Serve
    ObjKeys,       \* keys of objects, or rows, that may appear
    PageSize,      \* listPageSize
    MaxPolls,      \* ticks per call
    MaxRetries,    \* maxRetries of httpclient
    TokenLife,     \* expires_in
    MaxPollClock   \* bound on time

ASSUME PollAssumption ==
    /\ PollKinds \subseteq {"s3", "postgres", "http"} /\ ObjKeys \subseteq Nat \ {0}
    /\ IsFiniteSet(ObjKeys) /\ PageSize \in Nat \ {0}
    /\ MaxPolls \in Nat /\ MaxRetries \in Nat /\ TokenLife \in Nat /\ MaxPollClock \in Nat

VARIABLES
    pollKind, oneShot,     \* the adapter; its poll interval is zero
    objects,               \* what the service holds
    late,                  \* history: objects put before a key that was already listed
    startAfter,            \* listStartAfter
    serving,               \* isServing
    pollDone,              \* the context of Serve is cancelled
    pollAt, polls,         \* each call: place, ticks
    page, more,            \* Fetch: keys listed and not yet read; the listing goes on
    lastKey, body,         \* Fetch: last key seen, records collected
    tries,                 \* attempts in this tick
    given, dropped,        \* history: records submitted in order; records lost to a failed submit
    okTicks,               \* history: values httpclient submitted, per call
    pollClock,
    tokenExp, newest,      \* the cached token: its expiry, its number
    headerTok,             \* the token in the headers
    sentTok                \* history: the last request carried the cached token

pollConf == <<pollKind, oneShot>>
tokVars == <<pollClock, tokenExp, newest, headerTok, sentTok>>
listing == <<page, more>>
pollVars == <<pollConf, objects, late, startAfter, serving, pollDone, pollAt, polls, listing,
              lastKey, body, tries, given, dropped, okTicks, tokVars>>

Each(x) == [c \in PollCalls |-> x]

\* WithOAuth2ClientCredentials has fetched the first token and set the header.
PollInit ==
    /\ pollKind \in PollKinds
    /\ oneShot \in IF pollKind = "http" THEN {FALSE} ELSE BOOLEAN
    /\ objects = {} /\ late = {} /\ startAfter = 0
    /\ serving = FALSE /\ pollDone = FALSE
    /\ pollAt = Each("new") /\ polls = Each(0)
    /\ page = Each({}) /\ more = Each(FALSE) /\ lastKey = Each(0) /\ body = Each(<< >>) /\ tries = Each(0)
    /\ given = << >> /\ dropped = {} /\ okTicks = Each(0)
    /\ pollClock = 0 /\ tokenExp = TokenLife /\ newest = 1 /\ headerTok = 1 /\ sentTok = TRUE

At(c, place) == pollAt[c] = place
Go(c, place) == pollAt' = [pollAt EXCEPT ![c] = place]
EndServe(c, place) ==
    /\ Go(c, place)
    /\ serving' = IF pollKind = "postgres" THEN serving ELSE FALSE

-----------------------------------------------------------------------------
(* The services, the clock and the caller. *)

\* The listing has passed k: it has named a greater key, or begins after k.
Passed(k) == k < startAfter \/ \E c \in PollCalls : \E j \in page[c] \cup {lastKey[c]} : k < j

PutObject(k) ==
    /\ pollKind # "http" /\ k \notin objects
    /\ objects' = objects \cup {k}
    /\ late' = IF pollKind = "s3" /\ Passed(k) THEN late \cup {k} ELSE late
    /\ UNCHANGED <<pollConf, listing, startAfter, serving, pollDone, pollAt, polls, lastKey, body,
                   tries, given, dropped, okTicks, tokVars>>

PollTime ==
    /\ pollKind = "http" /\ pollClock < MaxPollClock
    /\ pollClock' = pollClock + 1
    /\ UNCHANGED <<pollConf, listing, objects, late, startAfter, serving, pollDone, pollAt, polls,
                   lastKey, body, tries, given, dropped, okTicks, tokenExp, newest,
                   headerTok, sentTok>>

PollCancel ==
    /\ ~pollDone
    /\ pollDone' = TRUE
    /\ UNCHANGED <<pollConf, listing, objects, late, startAfter, serving, pollAt, polls, lastKey,
                   body, tries, given, dropped, okTicks, tokVars>>

-----------------------------------------------------------------------------
(* Serve. *)

\* postgresclient has no isServing.
PollServe(c) ==
    /\ At(c, "new")
    /\ \/ /\ pollKind # "postgres" /\ serving
          /\ Go(c, "returned") /\ UNCHANGED serving
       \/ /\ ~serving
          /\ Go(c, IF oneShot THEN "fetch" ELSE "select")
          /\ serving' = (pollKind # "postgres")
    /\ UNCHANGED <<pollConf, listing, objects, late, startAfter, pollDone, polls, lastKey, body, tries,
                   given, dropped, okTicks, tokVars>>

\* A tick; MaxPolls bounds how many.
PollTick(c) ==
    /\ At(c, "select") /\ polls[c] < MaxPolls
    /\ polls' = [polls EXCEPT ![c] = @ + 1]
    /\ tries' = [tries EXCEPT ![c] = 0]
    /\ Go(c, IF pollKind = "http" THEN "attempt" ELSE "fetch")
    /\ UNCHANGED <<pollConf, listing, objects, late, startAfter, serving, pollDone, lastKey, body,
                   given, dropped, okTicks, tokVars>>

PollStops(c) ==
    /\ At(c, "select") /\ pollDone
    /\ EndServe(c, "returned")
    /\ UNCHANGED <<pollConf, listing, objects, late, startAfter, pollDone, polls, lastKey, body, tries,
                   given, dropped, okTicks, tokVars>>

-----------------------------------------------------------------------------
(* Fetch of s3client and postgresclient. *)

FetchBegins(c) ==
    /\ At(c, "fetch")
    /\ lastKey' = [lastKey EXCEPT ![c] = IF pollKind = "s3" THEN startAfter ELSE 0]
    /\ body' = [body EXCEPT ![c] = << >>]
    /\ page' = [page EXCEPT ![c] = {}] /\ more' = [more EXCEPT ![c] = TRUE]
    /\ Go(c, "list")
    /\ UNCHANGED <<pollConf, objects, late, startAfter, serving, pollDone, polls, tries,
                   given, dropped, okTicks, tokVars>>

Ahead(c) == {k \in objects : k > lastKey[c]}

\* The first PageSize keys after the last one seen; all rows.
PageOf(c) ==
    IF pollKind = "s3" THEN {k \in Ahead(c) : Cardinality({j \in Ahead(c) : j < k}) < PageSize}
                       ELSE objects

\* ListObjectsV2 answers with the keys of this moment; the query with its rows.
ListPage(c) ==
    /\ At(c, "list") /\ page[c] = {} /\ more[c]
    /\ page' = [page EXCEPT ![c] = PageOf(c)]
    /\ more' = [more EXCEPT ![c] = pollKind = "s3" /\ PageOf(c) # Ahead(c)]
    /\ UNCHANGED <<pollConf, objects, late, startAfter, serving, pollDone, pollAt, polls,
                   lastKey, body, tries, given, dropped, okTicks, tokVars>>

\* The next object of the page, or the next row.
FetchNext(c) ==
    /\ At(c, "list") /\ page[c] # {}
    /\ lastKey' = [lastKey EXCEPT ![c] = Min(page[c])]
    /\ body' = [body EXCEPT ![c] = Append(@, Min(page[c]))]
    /\ page' = [page EXCEPT ![c] = @ \ {Min(page[c])}]
    /\ UNCHANGED <<pollConf, more, objects, late, startAfter, serving, pollDone, pollAt, polls,
                   tries, given, dropped, okTicks, tokVars>>

ListedAll(c) == At(c, "list") /\ page[c] = {} /\ ~more[c]

GivesUp(c) ==
    /\ body' = [body EXCEPT ![c] = << >>] /\ lastKey' = [lastKey EXCEPT ![c] = 0]
    /\ page' = [page EXCEPT ![c] = {}] /\ more' = [more EXCEPT ![c] = FALSE]

MutS3FetchFails(c) ==
    /\ pollKind = "s3" /\ At(c, "list")
    /\ startAfter' = lastKey[c]
    /\ IF oneShot THEN EndServe(c, "failed") ELSE Go(c, "select") /\ UNCHANGED serving
    /\ GivesUp(c) /\ late' = {k \in late : k <= startAfter}
    /\ UNCHANGED <<pollConf, objects, pollDone, polls, tries, given, dropped, okTicks, tokVars>>

\* Listing, getting or decoding fails: everything read so far is given up, and
\* listStartAfter stays, so a polling Serve lists and reads it again.
S3FetchFails(c) ==
    /\ pollKind = "s3" /\ At(c, "list")
    /\ IF oneShot THEN EndServe(c, "failed") ELSE Go(c, "select") /\ UNCHANGED serving
    /\ GivesUp(c) /\ late' = {k \in late : k <= startAfter}
    /\ UNCHANGED <<pollConf, objects, startAfter, pollDone, polls, tries, given, dropped,
                   okTicks, tokVars>>

S3Fetched(c) ==
    /\ pollKind = "s3" /\ ListedAll(c)
    /\ startAfter' = lastKey[c]
    /\ Go(c, "submit")
    /\ UNCHANGED <<pollConf, listing, objects, late, serving, pollDone, polls, lastKey, body, tries,
                   given, dropped, okTicks, tokVars>>

PostgresFetched(c) ==
    /\ pollKind = "postgres" /\ ListedAll(c)
    /\ Go(c, "submit")
    /\ UNCHANGED <<pollConf, listing, objects, late, startAfter, serving, pollDone, polls, lastKey,
                   body, tries, given, dropped, okTicks, tokVars>>

PostgresFetchFails(c) ==
    /\ pollKind = "postgres" /\ At(c, "list")
    /\ EndServe(c, "failed") /\ GivesUp(c)
    /\ UNCHANGED <<pollConf, objects, late, startAfter, pollDone, polls, tries, given,
                   dropped, okTicks, tokVars>>

\* Records are submitted in turn; a failure ends Serve and loses the rest.
SubmitNext(c) ==
    /\ pollKind # "http" /\ At(c, "submit") /\ body[c] # << >>
    /\ \/ /\ given' = Append(given, Head(body[c]))
          /\ body' = [body EXCEPT ![c] = Tail(@)]
          /\ UNCHANGED <<pollAt, serving, dropped>>
       \/ /\ dropped' = dropped \cup {body[c][i] : i \in DOMAIN body[c]}
          /\ body' = [body EXCEPT ![c] = << >>]
          /\ EndServe(c, "failed")
          /\ UNCHANGED given
    /\ UNCHANGED <<pollConf, listing, objects, late, startAfter, pollDone, polls, lastKey, tries,
                   okTicks, tokVars>>

SubmitDone(c) ==
    /\ pollKind # "http" /\ At(c, "submit") /\ body[c] = << >>
    /\ IF oneShot THEN EndServe(c, "returned") ELSE Go(c, "select") /\ UNCHANGED serving
    /\ UNCHANGED <<pollConf, listing, objects, late, startAfter, pollDone, polls, lastKey, body, tries,
                   given, dropped, okTicks, tokVars>>

-----------------------------------------------------------------------------
(* attemptFetchAndSubmit and Fetch of httpclient. *)

\* The attempt failed: sleep and try again, or give up.
Retry(c) ==
    IF tries[c] < MaxRetries
    THEN Go(c, "sleep") /\ UNCHANGED serving
    ELSE EndServe(c, "failed")

AttemptBegins(c) ==
    /\ At(c, "attempt")
    /\ IF pollDone THEN EndServe(c, "failed") ELSE Go(c, "token") /\ UNCHANGED serving
    /\ UNCHANGED <<pollConf, listing, objects, late, startAfter, pollDone, polls, lastKey, body, tries,
                   given, dropped, okTicks, tokVars>>

\* A new token goes into the cache.
EnsureValidToken(c) ==
    /\ At(c, "token")
    /\ \/ /\ pollClock < tokenExp
          /\ Go(c, "request")
          /\ UNCHANGED <<serving, tokenExp, newest>>
       \/ /\ pollClock >= tokenExp
          /\ newest' = newest + 1 /\ tokenExp' = pollClock + TokenLife
          /\ Go(c, "request")
          /\ UNCHANGED serving
       \/ /\ pollClock >= tokenExp
          /\ Retry(c)
          /\ UNCHANGED <<tokenExp, newest>>
    /\ UNCHANGED <<pollConf, listing, objects, late, startAfter, pollDone, polls, lastKey, body, tries,
                   given, dropped, okTicks, pollClock, headerTok, sentTok>>

\* The request carries the headers, whose token is the one of the beginning.
HttpFetch(c) ==
    /\ At(c, "request")
    /\ sentTok' = (headerTok = newest)
    /\ \/ Go(c, "deliver") /\ UNCHANGED serving
       \/ Retry(c)
    /\ UNCHANGED <<pollConf, listing, objects, late, startAfter, pollDone, polls, lastKey, body, tries,
                   given, dropped, okTicks, pollClock, tokenExp, newest, headerTok>>

HttpSubmit(c) ==
    /\ At(c, "deliver")
    /\ \/ /\ Go(c, "select") /\ UNCHANGED serving
          /\ okTicks' = [okTicks EXCEPT ![c] = @ + 1]
       \/ /\ Retry(c)
          /\ UNCHANGED okTicks
    /\ UNCHANGED <<pollConf, listing, objects, late, startAfter, pollDone, polls, lastKey, body, tries,
                   given, dropped, tokVars>>

\* sleepWithContext: to the end, or until the context is done.
Backoff(c) ==
    /\ At(c, "sleep")
    /\ \/ /\ Go(c, "attempt") /\ UNCHANGED serving
          /\ tries' = [tries EXCEPT ![c] = @ + 1]
       \/ /\ pollDone
          /\ EndServe(c, "failed") /\ UNCHANGED tries
    /\ UNCHANGED <<pollConf, listing, objects, late, startAfter, pollDone, polls, lastKey, body,
                   given, dropped, okTicks, tokVars>>

-----------------------------------------------------------------------------
HttpStep(c) ==
    AttemptBegins(c) \/ EnsureValidToken(c) \/ HttpFetch(c) \/ HttpSubmit(c) \/ Backoff(c)

S3Step(c) == S3Fetched(c) \/ S3FetchFails(c)
PostgresStep(c) == PostgresFetched(c) \/ PostgresFetchFails(c)

PollStep(c) ==
    \/ PollTick(c) \/ PollStops(c) \/ FetchBegins(c) \/ ListPage(c) \/ FetchNext(c) \/ SubmitNext(c)
    \/ SubmitDone(c) \/ HttpStep(c) \/ S3Step(c) \/ PostgresStep(c)

PollNext ==
    \/ PollTime \/ PollCancel
    \/ \E k \in ObjKeys : PutObject(k)
    \/ \E c \in PollCalls : PollServe(c) \/ PollStep(c)

\* A Serve that can move does; its submit callback returns.
PollFairness == \A c \in PollCalls : WF_pollVars(PollStep(c))
PollSpec == PollInit /\ [][PollNext]_pollVars /\ PollFairness

-----------------------------------------------------------------------------
InHand == UNION {{body[c][i] : i \in DOMAIN body[c]} : c \in PollCalls}
Given == {given[i] : i \in DOMAIN given}

\* s3client submits an object once at most and in key order, over all polls,
\* restarts and failed fetches.  What it has moved past it submits, except what a
\* failed submit has lost and the objects put before a key that a listing had
\* already named: those are never read (Fetch, Serve).  httpclient waits for the
\* next tick only when the last one was submitted once, whatever was retried
\* (attemptFetchAndSubmit).
PollAccounted ==
    /\ pollKind = "s3" =>
         /\ \A i, j \in DOMAIN given : i < j => given[i] < given[j]
         /\ \A k \in objects \ late : k <= startAfter => k \in Given \cup InHand \cup dropped
    /\ pollKind = "http" =>
         \A c \in PollCalls : pollAt[c] = "select" => okTicks[c] = polls[c]

\* The context is done and a Serve that has begun has not returned; in the end
\* each does.
PollLingers == pollDone /\ \E c \in PollCalls : pollAt[c] \notin {"new", "returned", "failed"}

\* oauth.go says EnsureValidToken refreshes the OAuth token when needed: then a
\* request carries the token that was refreshed for it.
FreshTokenSent == sentTok
=============================================================================
