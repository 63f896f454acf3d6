--------------------------- MODULE ReceivingRelay ---------------------------
(***************************************************************************)
(* The server side of the relays: pkg/internal/receivingrelay (gRPC),      *)
(* quicrelay, websocketrelay and webtransportrelay. Every stream or        *)
(* connection has a handler that unwraps payloads and puts them into one   *)
(* channel, DataCh; unary gRPC calls and WebTransport datagrams have       *)
(* goroutines that do the same; one fan-out goroutine hands the payloads   *)
(* to the outputs. A handler acknowledges each payload, batches of         *)
(* payloads, or nothing, as the stream's Open asked for.                   *)
(*                                                                         *)
(* The four transports share their structure and differ in what ends a     *)
(* handler, in how a refused payload is reported and in what Stop does to  *)
(* the listener; `transport` says which one a behaviour is of.             *)
(*                                                                         *)
(* A payload is its stream and its position there; unwrapping it works or  *)
(* fails, and its headers are accepted, missing or rejected. What the peer *)
(* sends is arbitrary, except that Open, if sent, comes before payloads,   *)
(* as this repository's clients send it. Messages that are no envelope at  *)
(* all are answered with an error and change nothing. The network is       *)
(* external: sending an acknowledgement works or fails. A panic ends the   *)
(* process: `crashed` names it and nothing moves again.                    *)
(***************************************************************************)
EXTENDS Integers, Sequences, FiniteSets

CONSTANTS
    Transports,     \* the transports to be explored
    Streams,        \* StreamReceive handlers
    Unaries,        \* calls of Receive, or datagrams
    DataBuf,        \* capacity of DataCh
    OpenIntervals,  \* values of AckEveryN that clients ask for
    MaxPayloads     \* exploration bound: payloads on a stream

ASSUME ConstantsAssumption ==
    /\ DataBuf \in Nat \ {0} /\ MaxPayloads \in Nat
    /\ OpenIntervals \subseteq Nat
    /\ Streams \cap Unaries = {}
    /\ Transports \subseteq {"grpc", "quic", "websocket", "webtransport"}

DefaultAckEveryN == 1024
AckModes == {"each", "batch", "none"}

\* The outcomes of validateHeaders: nil, errMissingHeaders, another error.
Headers == {"valid", "missing", "bad"}

\* The two callers of startOutputFanout, and so the goroutines there could be.
Fanouts == {"start", "listen"}

VARIABLES
    transport, authRequired,   \* configuration, fixed at the start
    dataCh, closed,      \* DataCh: queued payloads, closed or not
    cancelled,           \* rr.ctx
    once, fan, carried,  \* outputsOnce; each fan-out goroutine: place, payload in hand
    outputs,             \* history: the payloads handed to the outputs
    isRunning, listening, starting, stopping,   \* Start, Listen and Stop
    at,                  \* each handler and unary goroutine: place
    ackMode, ackEveryN,  \* of each stream
    batchOK, batchErr, batchSeen,
    received, pushed,    \* history of each stream: payloads read, put into DataCh
    ackedOK, ackedErr,   \* history of each stream: payloads its acks have counted
    nacked,              \* history of each stream: payloads refused one by one
    validated,           \* of each stream: its headers have been accepted
    crashed

channel == <<dataCh, closed, cancelled>>
fanState == <<once, fan, carried, outputs>>
control == <<transport, authRequired, isRunning, listening, starting, stopping>>
batch == <<batchOK, batchErr, batchSeen>>
acks == <<batch, ackedOK, ackedErr, nacked>>
streamState == <<ackMode, ackEveryN, acks, received, pushed, validated>>
vars == <<channel, fanState, control, at, streamState, crashed>>

Goroutines == Streams \cup Unaries

\* A gRPC relay checks credentials in an interceptor, before the handler runs.
Init ==
    /\ transport \in Transports /\ authRequired \in BOOLEAN
    /\ dataCh = << >> /\ closed = FALSE /\ cancelled = FALSE
    /\ once = FALSE /\ fan = [f \in Fanouts |-> "off"]
    /\ carried = [f \in Fanouts |-> << >>] /\ outputs = << >>
    /\ isRunning = FALSE /\ listening = FALSE /\ starting = "new" /\ stopping = "idle"
    /\ at = [g \in Goroutines |-> "new"]
    /\ ackMode = [s \in Streams |-> "each"]
    /\ ackEveryN = [s \in Streams |-> 0]
    /\ batchOK = [s \in Streams |-> 0]
    /\ batchErr = [s \in Streams |-> 0]
    /\ batchSeen = [s \in Streams |-> 0]
    /\ received = [s \in Streams |-> 0]
    /\ pushed = [s \in Streams |-> 0]
    /\ ackedOK = [s \in Streams |-> 0]
    /\ ackedErr = [s \in Streams |-> 0]
    /\ nacked = [s \in Streams |-> 0]
    /\ validated = [s \in Streams |-> FALSE]
    /\ crashed = "no"

Alive == crashed = "no"
At(g, place) == Alive /\ at[g] = place
GoTo(g, place) == at' = [at EXCEPT ![g] = place]
Room == Len(dataCh) < DataBuf

Panic(what) ==
    /\ crashed' = what
    /\ UNCHANGED <<channel, fanState, control, at, streamState>>

-----------------------------------------------------------------------------
(* Start, Listen, and the fan-out goroutine they share. *)

MutStartOutputFanout(f) ==
    /\ once' = TRUE
    /\ fan' = [fan EXCEPT ![f] = "range"]
    /\ UNCHANGED <<carried, outputs>>


\* Without outputs the reader of GetDataChannel takes the goroutine's place.
StartOutputFanout(f) ==
    /\ once' = TRUE
    /\ fan' = IF once THEN fan ELSE [fan EXCEPT ![f] = "range"]
    /\ UNCHANGED <<carried, outputs>>

Start ==
    /\ Alive /\ starting = "new"
    /\ StartOutputFanout("start")
    /\ starting' = "listen" /\ isRunning' = TRUE
    /\ UNCHANGED <<channel, transport, authRequired, listening, stopping, at, streamState, crashed>>

\* One turn of the loop in Listen(true, _): bind the address and serve. A bind
\* that fails, because the address is taken, is repeated after a sleep.
Bind ==
    /\ Alive /\ starting = "listen" /\ ~listening
    /\ starting' = "serving" /\ listening' = TRUE
    /\ UNCHANGED <<channel, transport, authRequired, isRunning, stopping, at, streamState, crashed>>

GrpcListen == transport = "grpc" /\ Bind /\ StartOutputFanout("listen")
QuicListen == transport = "quic" /\ Bind /\ StartOutputFanout("listen")
WsListen == transport = "websocket" /\ Bind /\ StartOutputFanout("listen")
WtListen == transport = "webtransport" /\ Bind /\ StartOutputFanout("listen")

Listen == GrpcListen \/ QuicListen \/ WsListen \/ WtListen

ServeReturns ==
    /\ Alive /\ starting = "serving" /\ cancelled
    /\ starting' = "listen"
    /\ UNCHANGED <<channel, fanState, transport, authRequired, isRunning, stopping, at, streamState, crashed>>

\* The accept loop ends with the context and leaves the listener as it is.
QuicAcceptLoop == transport = "quic" /\ ServeReturns /\ UNCHANGED listening

\* A server shuts itself down when the context is cancelled, and Listen, told
\* to listen for ever, starts the next one.
WsServe == transport = "websocket" /\ ServeReturns /\ listening' = FALSE
WtServe == transport = "webtransport" /\ ServeReturns /\ listening' = FALSE

Serve == QuicAcceptLoop \/ WsServe \/ WtServe

FanTake(f) ==
    /\ Alive /\ fan[f] = "range" /\ dataCh # << >>
    /\ carried' = [carried EXCEPT ![f] = <<Head(dataCh)>>]
    /\ dataCh' = Tail(dataCh)
    /\ fan' = [fan EXCEPT ![f] = "submit"]
    /\ UNCHANGED <<closed, cancelled, once, outputs, control, at, streamState, crashed>>

\* Every output is given the payload; errors of Submit are ignored.
FanSubmit(f) ==
    /\ Alive /\ fan[f] = "submit"
    /\ outputs' = outputs \o carried[f]
    /\ carried' = [carried EXCEPT ![f] = << >>]
    /\ fan' = [fan EXCEPT ![f] = "range"]
    /\ UNCHANGED <<channel, once, control, at, streamState, crashed>>

MutFanEnds(f) ==
    /\ Alive /\ fan[f] = "range" /\ cancelled
    /\ fan' = [fan EXCEPT ![f] = "off"]
    /\ UNCHANGED <<channel, once, carried, outputs, control, at, streamState, crashed>>


FanEnds(f) ==
    /\ Alive /\ fan[f] = "range" /\ dataCh = << >> /\ closed
    /\ fan' = [fan EXCEPT ![f] = "off"]
    /\ UNCHANGED <<channel, once, carried, outputs, control, at, streamState, crashed>>

-----------------------------------------------------------------------------
(* Handlers of streams and connections. *)

\* gRPC goes on accepting streams after Stop; the others may accept one more
\* while they are shutting down.
Accept(s, ok) ==
    /\ At(s, "new") /\ listening /\ starting = "serving"
    /\ GoTo(s, "recv")
    /\ validated' = [validated EXCEPT ![s] = ok]
    /\ UNCHANGED <<channel, fanState, control, ackMode, ackEveryN, acks, received, pushed, crashed>>

\* The policy interceptor refuses the stream; if credentials are not required
\* a failed check is only logged.
GrpcRefuse(s) ==
    /\ At(s, "new") /\ listening /\ authRequired
    /\ GoTo(s, "refused")
    /\ UNCHANGED <<channel, fanState, control, streamState, crashed>>

OpenMode(s, mode, n) ==
    /\ At(s, "recv") /\ received[s] = 0 /\ ackEveryN[s] = 0
    /\ ackMode' = [ackMode EXCEPT ![s] = mode]
    /\ ackEveryN' = [ackEveryN EXCEPT ![s] =
                        IF mode # "batch" THEN 0 ELSE IF n = 0 THEN DefaultAckEveryN ELSE n]
    /\ UNCHANGED <<channel, fanState, control, acks, received, pushed, crashed>>

\* The open acknowledgement is sent; the handler returns if that fails.
AckOpen(s, mode) ==
    \/ GoTo(s, "recv")
    \/ mode # "none" /\ GoTo(s, "failed")

Open(s, mode, n) ==
    OpenMode(s, mode, n) /\ AckOpen(s, mode) /\ UNCHANGED validated

\* Open of the other transports, whose headers come with it: missing ones may
\* follow with the first payload, rejected ones end the stream or, if
\* credentials are not required, leave it as it was.
OpenWithHeaders(s, mode, n, h) ==
    /\ OpenMode(s, mode, n)
    /\ validated' = IF h = "bad" THEN validated ELSE [validated EXCEPT ![s] = (h = "valid")]
    /\ IF h = "bad" /\ authRequired THEN GoTo(s, "refused") ELSE AckOpen(s, mode)

MutFlushBatch(s, ok, err, seen) ==
    IF ackMode[s] # "batch" \/ ok = 0
    THEN /\ batchOK' = [batchOK EXCEPT ![s] = ok]
         /\ batchErr' = [batchErr EXCEPT ![s] = err]
         /\ batchSeen' = [batchSeen EXCEPT ![s] = seen]
         /\ UNCHANGED <<ackedOK, ackedErr>>
    ELSE /\ ackedOK' = [ackedOK EXCEPT ![s] = @ + ok]
         /\ ackedErr' = [ackedErr EXCEPT ![s] = @ + err]
         /\ batchOK' = [batchOK EXCEPT ![s] = 0]
         /\ batchErr' = [batchErr EXCEPT ![s] = 0]
         /\ batchSeen' = [batchSeen EXCEPT ![s] = 0]

\* flushBatch: the counters are reset whether or not the ack could be sent.
FlushBatch(s, ok, err, seen) ==
    IF ackMode[s] # "batch" \/ (ok = 0 /\ err = 0)
    THEN /\ batchOK' = [batchOK EXCEPT ![s] = ok]
         /\ batchErr' = [batchErr EXCEPT ![s] = err]
         /\ batchSeen' = [batchSeen EXCEPT ![s] = seen]
         /\ UNCHANGED <<ackedOK, ackedErr>>
    ELSE /\ ackedOK' = [ackedOK EXCEPT ![s] = @ + ok]
         /\ ackedErr' = [ackedErr EXCEPT ![s] = @ + err]
         /\ batchOK' = [batchOK EXCEPT ![s] = 0]
         /\ batchErr' = [batchErr EXCEPT ![s] = 0]
         /\ batchSeen' = [batchSeen EXCEPT ![s] = 0]

\* One more payload in the batch, ok and err being one and zero or zero and
\* one; every AckEveryN-th flushes it.
CountInBatch(s, ok, err) ==
    IF ackEveryN[s] > 0 /\ (batchSeen[s] + 1) % ackEveryN[s] = 0
    THEN FlushBatch(s, batchOK[s] + ok, batchErr[s] + err, batchSeen[s] + 1)
    ELSE /\ batchOK' = [batchOK EXCEPT ![s] = @ + ok]
         /\ batchErr' = [batchErr EXCEPT ![s] = @ + err]
         /\ batchSeen' = [batchSeen EXCEPT ![s] = @ + 1]
         /\ UNCHANGED <<ackedOK, ackedErr>>

\* The switch on ackMode, gRPC and QUIC. The handler returns if an ack of its
\* own cannot be sent, except that QUIC ignores the error of a negative one.
Acknowledge(s, ok, err) ==
    \/ /\ ackMode[s] = "each"
       /\ ackedOK' = [ackedOK EXCEPT ![s] = @ + ok]
       /\ nacked' = [nacked EXCEPT ![s] = @ + err]
       /\ \/ GoTo(s, "recv")
          \/ ~(transport = "quic" /\ err = 1) /\ GoTo(s, "failed")
       /\ UNCHANGED <<batch, ackedErr>>
    \/ /\ ackMode[s] = "batch"
       /\ CountInBatch(s, ok, err)
       /\ GoTo(s, "recv")
       /\ UNCHANGED nacked
    \/ /\ ackMode[s] = "none"
       /\ GoTo(s, "recv")
       /\ UNCHANGED acks

\* handlePayload of WebSocket and WebTransport after a success. The counters
\* run in every mode; errors of sending are ignored.
AcknowledgeOK(s) ==
    /\ IF ackMode[s] = "batch"
       THEN CountInBatch(s, 1, 0)
       ELSE /\ batchOK' = [batchOK EXCEPT ![s] = @ + 1]
            /\ batchSeen' = [batchSeen EXCEPT ![s] = @ + 1]
            /\ ackedOK' = [ackedOK EXCEPT ![s] = IF ackMode[s] = "each" THEN @ + 1 ELSE @]
            /\ UNCHANGED <<batchErr, ackedErr>>
    /\ GoTo(s, "recv")
    /\ UNCHANGED nacked

\* ... and after a failure: it is reported at once, in every mode, and counted
\* for the next batch ack, but does not bring that ack nearer.
AcknowledgeError(s) ==
    /\ nacked' = [nacked EXCEPT ![s] = @ + 1]
    /\ batchErr' = [batchErr EXCEPT ![s] = @ + 1]
    /\ GoTo(s, "recv")
    /\ UNCHANGED <<batchOK, batchSeen, ackedOK, ackedErr>>

\* A payload may be looked at once the headers of its stream, or its own, have
\* been accepted, or if credentials are not required.
Admitted(s, h) == validated[s] \/ h = "valid" \/ ~authRequired

ReadPayload(s, h) ==
    /\ At(s, "recv") /\ received[s] < MaxPayloads
    /\ received' = [received EXCEPT ![s] = @ + 1]
    /\ validated' = [validated EXCEPT ![s] = @ \/ h = "valid"]
    /\ UNCHANGED <<channel, fanState, control, ackMode, ackEveryN, pushed, crashed>>

RecvPayload(s, h) ==
    /\ ReadPayload(s, h) /\ Admitted(s, h)
    /\ GoTo(s, "push")
    /\ UNCHANGED acks

\* rr.DataCh <- data, with no way out but room or a panic.
Push(s) ==
    /\ At(s, "push") /\ ~closed /\ Room
    /\ dataCh' = Append(dataCh, <<s, received[s]>>)
    /\ pushed' = [pushed EXCEPT ![s] = @ + 1]
    /\ GoTo(s, "ack")
    /\ UNCHANGED <<closed, cancelled, fanState, control, ackMode, ackEveryN, acks, received, validated, crashed>>

PushPanics(s) ==
    /\ At(s, "push") /\ closed
    /\ Panic("send on closed channel")

\* The payload cannot be unwrapped.
UnwrapFails(s, h) ==
    /\ ReadPayload(s, h) /\ Admitted(s, h)
    /\ IF transport \in {"grpc", "quic"} THEN Acknowledge(s, 0, 1) ELSE AcknowledgeError(s)

Ack(s) ==
    /\ At(s, "ack")
    /\ IF transport \in {"grpc", "quic"} THEN Acknowledge(s, 1, 0) ELSE AcknowledgeOK(s)
    /\ UNCHANGED <<channel, fanState, control, ackMode, ackEveryN, received, pushed, validated, crashed>>

\* A payload without credentials is refused. QUIC gives the stream up.
RefusePayload(s, h) ==
    /\ ReadPayload(s, h) /\ ~Admitted(s, h)
    /\ nacked' = [nacked EXCEPT ![s] = @ + 1]
    /\ GoTo(s, IF transport = "quic" THEN "refused" ELSE "recv")
    /\ UNCHANGED <<batch, ackedOK, ackedErr>>

\* The stream ends: with EOF, a Close envelope or a done context, and in the
\* other transports than gRPC with any error of reading.
StreamEnds(s) ==
    /\ At(s, "recv")
    /\ FlushBatch(s, batchOK[s], batchErr[s], batchSeen[s])
    /\ GoTo(s, "ended")
    /\ UNCHANGED <<channel, fanState, control, ackMode, ackEveryN, nacked, received, pushed, validated, crashed>>

\* Any other error of Recv: the handler returns it, the batch is not flushed.
RecvFails(s) ==
    /\ At(s, "recv")
    /\ GoTo(s, "failed")
    /\ UNCHANGED <<channel, fanState, control, streamState, crashed>>

GrpcStreamReceive(s) ==
    /\ transport = "grpc"
    /\ \/ Accept(s, TRUE) \/ GrpcRefuse(s)
       \/ \E mode \in AckModes, n \in OpenIntervals : Open(s, mode, n)
       \/ RecvPayload(s, "valid") \/ UnwrapFails(s, "valid")
       \/ StreamEnds(s) \/ RecvFails(s)

\* What the three other handlers do with an Open and with a payload.
Opened(s) == \E mode \in AckModes, n \in OpenIntervals, h \in Headers : OpenWithHeaders(s, mode, n, h)
Payload(s) == \E h \in Headers : RecvPayload(s, h) \/ UnwrapFails(s, h) \/ RefusePayload(s, h)

QuicHandleStream(s) ==
    transport = "quic" /\ (Accept(s, FALSE) \/ Opened(s) \/ StreamEnds(s))
QuicHandlePayload(s) == transport = "quic" /\ Payload(s)
WsHandleConn(s) ==
    transport = "websocket" /\ (Accept(s, FALSE) \/ Opened(s) \/ StreamEnds(s))
WsHandlePayload(s) == transport = "websocket" /\ Payload(s)
WtHandleStream(s) ==
    transport = "webtransport" /\ (Accept(s, FALSE) \/ Opened(s) \/ StreamEnds(s))
WtHandlePayload(s) == transport = "webtransport" /\ Payload(s)

-----------------------------------------------------------------------------
(* Receive: the caller is told "Received" at once, the goroutine follows. A  *)
(* datagram is treated alike, by a goroutine that looks at no context.       *)

BeginReceive(u) ==
    /\ At(u, "new") /\ listening /\ starting = "serving"
    /\ GoTo(u, "push")
    /\ UNCHANGED <<channel, fanState, control, streamState, crashed>>

GrpcReceive(u) == transport = "grpc" /\ BeginReceive(u)
WtHandleDatagrams(u) == transport = "webtransport" /\ BeginReceive(u)

UnaryUnwrapFails(u) ==
    /\ At(u, "push")
    /\ GoTo(u, "ended")
    /\ UNCHANGED <<channel, fanState, control, streamState, crashed>>

UnaryPush(u) ==
    /\ At(u, "push") /\ ~closed /\ Room
    /\ dataCh' = Append(dataCh, <<u, 1>>)
    /\ GoTo(u, "ended")
    /\ UNCHANGED <<closed, cancelled, fanState, control, streamState, crashed>>

\* A select whose send case is on a closed channel may choose it.
UnaryPanics(u) ==
    /\ At(u, "push") /\ closed
    /\ Panic("send on closed channel")

UnaryCancelled(u) ==
    /\ At(u, "push") /\ cancelled /\ transport = "grpc"
    /\ GoTo(u, "ended")
    /\ UNCHANGED <<channel, fanState, control, streamState, crashed>>

-----------------------------------------------------------------------------
(* Stop. *)

Stop ==
    /\ Alive /\ stopping = "idle"
    /\ cancelled' = TRUE
    /\ stopping' = IF transport = "grpc" THEN "close" ELSE "shutdown"
    /\ UNCHANGED <<dataCh, closed, fanState, transport, authRequired, isRunning, listening, starting, at, streamState, crashed>>

\* shutdownListener, shutdownServer. The gRPC server and its streams go on.
ShutDown ==
    /\ Alive /\ stopping = "shutdown"
    /\ listening' = FALSE
    /\ stopping' = "close"
    /\ UNCHANGED <<channel, fanState, transport, authRequired, isRunning, starting, at, streamState, crashed>>

QuicShutdownListener == transport = "quic" /\ ShutDown
WsShutdownServer == transport = "websocket" /\ ShutDown
WtShutdownServer == transport = "webtransport" /\ ShutDown

CloseDataCh ==
    /\ Alive /\ stopping = "close"
    /\ IF closed
       THEN crashed' = "close of closed channel" /\ UNCHANGED <<closed, isRunning, stopping>>
       ELSE /\ closed' = TRUE
            /\ isRunning' = FALSE
            /\ stopping' = "idle"
            /\ UNCHANGED crashed
    /\ UNCHANGED <<dataCh, cancelled, fanState, transport, authRequired, listening, starting, at, streamState>>

-----------------------------------------------------------------------------
HandlerStep(s) == Push(s) \/ PushPanics(s) \/ Ack(s)
UnaryStep(u) == UnaryUnwrapFails(u) \/ UnaryPush(u) \/ UnaryPanics(u) \/ UnaryCancelled(u)
FanStep(f) == FanTake(f) \/ FanSubmit(f) \/ FanEnds(f)

Peer(s) ==
    \/ GrpcStreamReceive(s)
    \/ QuicHandleStream(s) \/ QuicHandlePayload(s)
    \/ WsHandleConn(s) \/ WsHandlePayload(s)
    \/ WtHandleStream(s) \/ WtHandlePayload(s)

StopStep == QuicShutdownListener \/ WsShutdownServer \/ WtShutdownServer \/ CloseDataCh

Next ==
    \/ Start \/ Listen \/ Serve \/ Stop \/ StopStep
    \/ \E f \in Fanouts : FanStep(f)
    \/ \E s \in Streams : Peer(s) \/ HandlerStep(s)
    \/ \E u \in Unaries : GrpcReceive(u) \/ WtHandleDatagrams(u) \/ UnaryStep(u)

Spec == Init /\ [][Next]_vars

(***************************************************************************)
(* A goroutine that can run does, and an output's Submit returns. The peer *)
(* and the users of Start, Stop and Receive owe nothing.                   *)
(***************************************************************************)
Fairness ==
    /\ \A f \in Fanouts : WF_vars(FanStep(f))
    /\ \A s \in Streams : WF_vars(HandlerStep(s))
    /\ \A u \in Unaries : WF_vars(UnaryStep(u))

FairSpec == Spec /\ Fairness

-----------------------------------------------------------------------------
Payloads == Goroutines \X (1..MaxPayloads + 1)

TypeOK ==
    /\ dataCh \in Seq(Payloads) /\ Len(dataCh) <= DataBuf
    /\ closed \in BOOLEAN /\ cancelled \in BOOLEAN /\ (closed => cancelled)
    /\ once \in BOOLEAN /\ fan \in [Fanouts -> {"off", "range", "submit"}]
    /\ \A f \in Fanouts : Len(carried[f]) = IF fan[f] = "submit" THEN 1 ELSE 0
    /\ transport \in Transports /\ authRequired \in BOOLEAN
    /\ isRunning \in BOOLEAN /\ listening \in BOOLEAN
    /\ starting \in {"new", "listen", "serving"} /\ stopping \in {"idle", "shutdown", "close"}
    /\ at \in [Goroutines -> {"new", "recv", "push", "ack", "ended", "failed", "refused"}]
    /\ ackMode \in [Streams -> AckModes] /\ ackEveryN \in [Streams -> Nat]
    /\ validated \in [Streams -> BOOLEAN]
    /\ \A x \in {batchOK, batchErr, batchSeen, ackedOK, ackedErr, nacked, received, pushed} :
            x \in [Streams -> 0..MaxPayloads]
    /\ crashed \in {"no", "send on closed channel", "close of closed channel"}

\* What a handler has read and not yet reported.
Held(s, place) == IF at[s] = place THEN 1 ELSE 0

\* WebSocket and WebTransport report every refused payload by itself.
NacksEach == transport \in {"websocket", "webtransport"}

\* Whatever the mixture of good, bad and refused payloads, every payload is
\* reported once and on the right side: as OK only when it is in DataCh, as an
\* error only when it is not, by an acknowledgement or by the batch in
\* progress; and a handler that ends regularly or for want of credentials
\* leaves no batch unreported (flushBatch, handlePayload).
AcksExact ==
    \A s \in Streams :
        /\ ackMode[s] = "each" => ackedOK[s] + Held(s, "ack") = pushed[s]
        /\ ackMode[s] = "batch" => ackedOK[s] + batchOK[s] + Held(s, "ack") = pushed[s]
        /\ NacksEach =>
             /\ nacked[s] + pushed[s] + Held(s, "push") = received[s]
             /\ ~authRequired => ackedErr[s] + batchErr[s] = nacked[s]
        /\ ~NacksEach /\ ackMode[s] # "none" =>
             nacked[s] + ackedErr[s] + batchErr[s] + pushed[s] + Held(s, "push") = received[s]
        /\ ackMode[s] = "batch" /\ at[s] \in {"ended", "refused"} => batchOK[s] = 0 /\ batchErr[s] = 0

\* In batch mode the peer is never left with AckEveryN or more payloads whose
\* success it has not been told of, although failures count towards the batch
\* with gRPC and QUIC and not with the others (batchSeen).
BatchBounded ==
    \A s \in Streams : ackMode[s] = "batch" =>
        /\ batchSeen[s] < ackEveryN[s]
        /\ batchSeen[s] = batchOK[s] + (IF NacksEach THEN 0 ELSE batchErr[s])

\* What the peer is told, of every payload and in time (flushBatch, handlePayload).
AcksSound == TypeOK /\ AcksExact /\ BatchBounded

\* The payloads that have been in DataCh, in the order in which the outputs get them.
Given == outputs \o carried["start"] \o carried["listen"] \o dataCh

\* What a stream put into DataCh is on its way to the outputs or there, each
\* payload once, none missing, in the order of the stream, although Start and
\* Listen both start the fan-out goroutine.
FanoutOrdered ==
    \A s \in Streams :
        LET places == {i \in DOMAIN Given : Given[i][1] = s} IN
        /\ Cardinality(places) = pushed[s]
        /\ \A i, j \in places : i < j => Given[i][2] < Given[j][2]

\* What is in DataCh reaches the outputs, also when Stop closes the channel,
\* unless a panic ends the process.
ChannelDrains == (starting # "new" /\ dataCh # << >>) ~> (dataCh = << >> \/ ~Alive)
=============================================================================
