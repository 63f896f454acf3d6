--------------------------- MODULE WebSocketJack ---------------------------
(***************************************************************************)
(* pkg/internal/jack/websocket: the WebSocket server.  Serve runs one HTTP  *)
(* server under serverMu; each request becomes a connection with a read     *)
(* loop, a write loop and a bounded send queue; Broadcast, called by the    *)
(* fan-out of the output wires and by users, puts a message into the queue  *)
(* of every connection in a snapshot of the table.                          *)
(*                                                                          *)
(* The HTTP server and the WebSocket library are external: a handshake,     *)
(* a read or a write may fail at any time, and cancelling the context or    *)
(* closing a connection ends the read that waits on it.  Messages are       *)
(* numbered per broadcaster; encoding them is left out.                     *)
(***************************************************************************)
EXTENDS Naturals, Sequences, FiniteSets

CONSTANTS
    Peers,         \* the clients that connect, once each
    ServeCalls,    \* calls of Serve
    Limits,        \* maxConnections to explore; 0 is no limit
    SendBuffer,    \* capacity of a send queue
    FanMsgs,       \* messages of the output wire
    UserMsgs       \* messages of a user that calls Broadcast

ASSUME JackAssumption ==
    /\ Limits \subseteq Nat /\ SendBuffer \in Nat \ {0}
    /\ FanMsgs \in Nat /\ UserMsgs \in Nat

Broadcasters == {"fan", "user"}
Msgs(b) == IF b = "fan" THEN FanMsgs ELSE UserMsgs

VARIABLES
    maxConns,    \* cfg.maxConnections
    serveAt,     \* each Serve call
    serverMu,    \* held by a call of Serve: a set of at most one
    serverSet,   \* s.server # nil
    jackDone,    \* the context of Serve is cancelled
    toClose,     \* closeAllConnections: what is left of its snapshot
    connAt,      \* each peer's connection: place
    conns,       \* s.conns
    connClosed,  \* wsConn.closed, the send queue closed with it
    sendQ,       \* wsConn.send
    writer,      \* writeLoop of each connection: place
    broken,      \* the peer, the network or a write error has ended the connection
    left,        \* each broadcaster: what is left of its snapshot
    castNo,      \* each broadcaster: number of its message
    delivered,   \* history: what each peer was sent, <<broadcaster, number>>
    jackPanic    \* a send on, or a second close of, a send queue

serveVars == <<serveAt, serverMu, serverSet, toClose>>
castVars == <<left, castNo>>
queueVars == <<sendQ, writer, delivered>>
jackVars == <<maxConns, serveVars, jackDone, connAt, conns, connClosed, queueVars,
              broken, castVars, jackPanic>>

JackInit ==
    /\ maxConns \in Limits
    /\ serveAt = [k \in ServeCalls |-> "new"] /\ serverMu = {} /\ serverSet = FALSE
    /\ jackDone = FALSE /\ toClose = {}
    /\ connAt = [c \in Peers |-> "new"] /\ conns = {}
    /\ connClosed = [c \in Peers |-> FALSE]
    /\ sendQ = [c \in Peers |-> << >>] /\ writer = [c \in Peers |-> "off"]
    /\ broken = [c \in Peers |-> FALSE]
    /\ left = [b \in Broadcasters |-> {}] /\ castNo = [b \in Broadcasters |-> 0]
    /\ delivered = [c \in Peers |-> << >>]
    /\ jackPanic = FALSE

JackFull == maxConns > 0 /\ Cardinality(conns) >= maxConns
ConnAt(c, place) == ~jackPanic /\ connAt[c] = place
ConnTo(c, place) == connAt' = [connAt EXCEPT ![c] = place]
ServeTo(k, place) == serveAt' = [serveAt EXCEPT ![k] = place]

-----------------------------------------------------------------------------
(* Serve. *)

\* Wrong endpoint, format or TLS configuration: an error, and Serve may be
\* called again.  A second call waits for serverMu and is then refused.
ServeBegins(k) ==
    /\ ~jackPanic /\ serveAt[k] = "new" /\ serverMu = {}
    /\ \/ /\ ServeTo(k, "returned")
          /\ UNCHANGED <<serverMu, serverSet>>
       \/ /\ ~serverSet
          /\ ServeTo(k, "serving")
          /\ serverMu' = {k} /\ serverSet' = TRUE
    /\ UNCHANGED <<maxConns, jackDone, toClose, connAt, conns, connClosed, queueVars,
                   broken, castVars, jackPanic>>

JackCancel ==
    /\ ~jackPanic /\ ~jackDone
    /\ jackDone' = TRUE
    /\ UNCHANGED <<maxConns, serveVars, connAt, conns, connClosed, queueVars, broken,
                   castVars, jackPanic>>

\* ListenAndServe reports an error on errCh.
ListenFails(k) ==
    /\ ~jackPanic /\ serveAt[k] = "serving"
    /\ ServeTo(k, "closing") /\ toClose' = conns
    /\ UNCHANGED <<maxConns, serverMu, serverSet, jackDone, connAt, conns, connClosed,
                   queueVars, broken, castVars, jackPanic>>

ShutDownBegins(k) ==
    /\ ~jackPanic /\ serveAt[k] = "serving" /\ jackDone
    /\ ServeTo(k, "shutdown")
    /\ UNCHANGED <<maxConns, serverMu, serverSet, jackDone, toClose, connAt, conns,
                   connClosed, queueVars, broken, castVars, jackPanic>>

\* Shutdown ends when no handshake is under way, or after 5 seconds; hijacked
\* connections are not waited for.
ShutDownEnds(k) ==
    /\ ~jackPanic /\ serveAt[k] = "shutdown"
    /\ ServeTo(k, "closing") /\ toClose' = conns
    /\ UNCHANGED <<maxConns, serverMu, serverSet, jackDone, connAt, conns, connClosed,
                   queueVars, broken, castVars, jackPanic>>

CloseNext(k, c) ==
    /\ ~jackPanic /\ serveAt[k] = "closing" /\ c \in toClose
    /\ toClose' = toClose \ {c}
    /\ connClosed' = [connClosed EXCEPT ![c] = TRUE]
    /\ UNCHANGED <<maxConns, serveAt, serverMu, serverSet, jackDone, connAt, conns,
                   queueVars, broken, castVars, jackPanic>>

ServeReturns(k) ==
    /\ ~jackPanic /\ serveAt[k] = "closing" /\ toClose = {}
    /\ ServeTo(k, "returned") /\ serverMu' = {}
    /\ UNCHANGED <<maxConns, serverSet, jackDone, toClose, connAt, conns, connClosed,
                   queueVars, broken, castVars, jackPanic>>

-----------------------------------------------------------------------------
(* The handler and its connection. *)

\* The first look at the limit takes connsMu and lets it go again.
Request(c) ==
    /\ ConnAt(c, "new") /\ \E k \in ServeCalls : serveAt[k] = "serving"
    /\ ConnTo(c, IF JackFull THEN "refused" ELSE "checked")
    /\ UNCHANGED <<maxConns, serveVars, jackDone, conns, connClosed, queueVars, broken,
                   castVars, jackPanic>>

\* authorizeRequest, then websocket.Accept.
Handshake(c) ==
    /\ ConnAt(c, "checked")
    /\ \E place \in {"refused", "accepted"} : ConnTo(c, place)
    /\ UNCHANGED <<maxConns, serveVars, jackDone, conns, connClosed, queueVars, broken,
                   castVars, jackPanic>>

\* The limit is looked at again under the lock that registers; runConn starts
\* both loops.
AddConn(c) ==
    /\ ConnAt(c, "accepted")
    /\ \/ /\ JackFull
          /\ ConnTo(c, "refused")
          /\ UNCHANGED <<conns, writer>>
       \/ /\ ~JackFull
          /\ conns' = conns \cup {c}
          /\ ConnTo(c, "reading")
          /\ writer' = [writer EXCEPT ![c] = "running"]
    /\ UNCHANGED <<maxConns, serveVars, jackDone, connClosed, sendQ, delivered, broken,
                   castVars, jackPanic>>

\* The peer closes, the connection fails or stays idle too long.
PeerEnds(c) ==
    /\ ConnAt(c, "reading") /\ ~broken[c]
    /\ broken' = [broken EXCEPT ![c] = TRUE]
    /\ UNCHANGED <<maxConns, serveVars, jackDone, connAt, conns, connClosed, queueVars,
                   castVars, jackPanic>>

\* Messages that do not decode and submits that fail keep the loop going; only
\* an error of Read ends it.
ReadEnds(c) ==
    /\ ConnAt(c, "reading")
    /\ jackDone \/ connClosed[c] \/ broken[c]
    /\ ConnTo(c, "closing")
    /\ UNCHANGED <<maxConns, serveVars, jackDone, conns, connClosed, queueVars, broken,
                   castVars, jackPanic>>

\* wsConn.close under closeOnce; then the deferred cancel of connCtx.
CloseConn(c) ==
    /\ ConnAt(c, "closing")
    /\ connClosed' = [connClosed EXCEPT ![c] = TRUE]
    /\ ConnTo(c, "dropping")
    /\ UNCHANGED <<maxConns, serveVars, jackDone, conns, queueVars, broken, castVars, jackPanic>>

DropConn(c) ==
    /\ ConnAt(c, "dropping")
    /\ conns' = conns \ {c}
    /\ ConnTo(c, "done")
    /\ UNCHANGED <<maxConns, serveVars, jackDone, connClosed, queueVars, broken, castVars,
                   jackPanic>>

\* A write fails by its timeout, on a closed connection or by the network; the
\* library then closes the connection, which ends the read loop.
WriteNext(c) ==
    /\ ~jackPanic /\ writer[c] = "running" /\ sendQ[c] # << >>
    /\ sendQ' = [sendQ EXCEPT ![c] = Tail(@)]
    /\ \/ /\ ~broken[c]
          /\ delivered' = [delivered EXCEPT ![c] = Append(@, Head(sendQ[c]))]
          /\ UNCHANGED <<writer, broken>>
       \/ /\ writer' = [writer EXCEPT ![c] = "done"]
          /\ broken' = [broken EXCEPT ![c] = TRUE]
          /\ UNCHANGED delivered
    /\ UNCHANGED <<maxConns, serveVars, jackDone, connAt, conns, connClosed, castVars, jackPanic>>

WriterEnds(c) ==
    /\ ~jackPanic /\ writer[c] = "running"
    /\ \/ jackDone
       \/ connAt[c] \in {"dropping", "done"}
       \/ connClosed[c] /\ sendQ[c] = << >>
    /\ writer' = [writer EXCEPT ![c] = "done"]
    /\ UNCHANGED <<maxConns, serveVars, jackDone, connAt, conns, connClosed, sendQ,
                   delivered, broken, castVars, jackPanic>>

-----------------------------------------------------------------------------
(* Broadcast. *)

\* The fan-out runs from Serve until the context is done; a user may call
\* Broadcast at any time.  A broadcaster has returned when its snapshot is used up.
BroadcastBegins(b) ==
    /\ ~jackPanic /\ left[b] = {} /\ castNo[b] < Msgs(b)
    /\ b = "fan" => serverSet /\ ~jackDone
    /\ castNo' = [castNo EXCEPT ![b] = @ + 1]
    /\ left' = [left EXCEPT ![b] = conns]
    /\ UNCHANGED <<maxConns, serveVars, jackDone, connAt, conns, connClosed, queueVars,
                   broken, jackPanic>>

MutEnqueue(b, c) ==
    /\ ~jackPanic /\ c \in left[b]
    /\ left' = [left EXCEPT ![b] = @ \ {c}]
    /\ jackPanic' = (jackPanic \/ connClosed[c])
    /\ sendQ' = IF connClosed[c] \/ Len(sendQ[c]) >= SendBuffer
                THEN sendQ
                ELSE [sendQ EXCEPT ![c] = Append(@, <<b, castNo[b]>>)]
    /\ UNCHANGED <<maxConns, serveVars, jackDone, connAt, conns, connClosed, writer,
                   delivered, broken, castNo>>

\* Under the lock of the connection: a closed or full queue drops the message.
Enqueue(b, c) ==
    /\ ~jackPanic /\ c \in left[b]
    /\ left' = [left EXCEPT ![b] = @ \ {c}]
    /\ sendQ' = IF connClosed[c] \/ Len(sendQ[c]) >= SendBuffer
                THEN sendQ
                ELSE [sendQ EXCEPT ![c] = Append(@, <<b, castNo[b]>>)]
    /\ UNCHANGED <<maxConns, serveVars, jackDone, connAt, conns, connClosed, writer,
                   delivered, broken, castNo, jackPanic>>

-----------------------------------------------------------------------------
ConnStep(c) ==
    \/ Handshake(c) \/ AddConn(c) \/ ReadEnds(c) \/ CloseConn(c) \/ DropConn(c)
    \/ WriteNext(c) \/ WriterEnds(c)

ServeStep(k) ==
    \/ ServeBegins(k) \/ ShutDownBegins(k) \/ ShutDownEnds(k) \/ ServeReturns(k)
    \/ ListenFails(k)
    \/ \E c \in Peers : CloseNext(k, c)

CastStep(b) == BroadcastBegins(b) \/ \E c \in Peers : Enqueue(b, c)

JackNext ==
    \/ JackCancel
    \/ \E k \in ServeCalls : ServeStep(k)
    \/ \E c \in Peers : Request(c) \/ PeerEnds(c) \/ ConnStep(c)
    \/ \E b \in Broadcasters : CastStep(b)

\* Goroutines that can move are scheduled; peers, users and cancellation owe nothing.
JackFairness == \A c \in Peers : WF_jackVars(ConnStep(c))
JackSpec == JackInit /\ [][JackNext]_jackVars /\ JackFairness

-----------------------------------------------------------------------------
\* The table never holds more connections than maxConnections, although the
\* handler lets go of the lock between its first look at the limit and
\* addConn.
ConnsBounded == maxConns > 0 => Cardinality(conns) <= maxConns

\* Broadcasts that race with closing connections never send on a closed queue,
\* and a peer gets each broadcaster's messages in order and at most once
\* (enqueue, close, writeLoop).
BroadcastSafe ==
    /\ ~jackPanic
    /\ \A c \in Peers :
         LET got == delivered[c] \o sendQ[c]
         IN  \A i, j \in DOMAIN got : i < j /\ got[i][1] = got[j][1] => got[i][2] < got[j][2]

\* What the connection table and the broadcasts promise together.
JackSafe == ConnsBounded /\ BroadcastSafe

\* A connection is open although the context has ended. Every one is closed and
\* dropped from the table in the end, also one registered after
\* closeAllConnections took its snapshot (runConn, closeAllConnections).
ConnsLinger == jackDone /\ conns # {}
=============================================================================
