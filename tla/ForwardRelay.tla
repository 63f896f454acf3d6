---------------------------- MODULE ForwardRelay ----------------------------
(***************************************************************************)
(* The forward relays: pkg/internal/forwardrelay (gRPC), quicrelay,         *)
(* websocketrelay and webtransportrelay. A relay sends every submitted     *)
(* item, as a numbered envelope, to each of its targets over one session   *)
(* per target. Submit is called by the goroutines that read the relay's    *)
(* inputs (Readers) and by other components (Outsiders, whose context is   *)
(* their own). A session is opened by the first Submit that needs it,      *)
(* shared by all, replaced when it has died, and closed by Stop.           *)
(*                                                                         *)
(* The four packages hold the same session map and the same close; what    *)
(* differs is kept: whose context a reader watches and dials with, what    *)
(* Submit does when the send buffer is full or a session cannot be opened, *)
(* datagrams, and that a WebSocket write fails once the relay's context is *)
(* done. `transport` is the package, `policy` the setting of dropOnFull    *)
(* and useDatagrams; both are chosen in Init.                              *)
(*                                                                         *)
(* Of an envelope only its kind is kept; credentials and dialling are      *)
(* abstracted to "the session opens or it does not". The network is        *)
(* external: a send succeeds or fails, and fails for a reason the relay    *)
(* does not control (the peer, the network, the context of the opener).    *)
(* A panic ends the process: `crashed` names it and nothing moves again.   *)
(***************************************************************************)
EXTENDS Integers, Sequences, FiniteSets

CONSTANTS
    Readers, Outsiders,   \* goroutines that call Submit
    Stoppers,             \* calls of Stop
    Targets,              \* the addresses, a sequence
    MaxSessions,          \* exploration bound: sessions that can be opened
    SendBuf,              \* streamSendBuf, the capacity of sendCh
    MaxSeq,               \* exploration bound: items submitted
    Variants,             \* the transports and policies to explore, as pairs
    None                  \* no session: a nil pointer

ASSUME ConstantsAssumption ==
    /\ Targets \in Seq(STRING) /\ Targets # << >>
    /\ SendBuf \in Nat \ {0} /\ MaxSeq \in Nat
    /\ Variants \subseteq ({<<"grpc", "block">>} \cup ({"quic"} \X {"block", "drop"})
                              \cup ({"websocket", "webtransport"} \X {"error", "drop"})
                              \cup {<<"webtransport", "datagram">>})
    /\ MaxSessions \in Nat /\ None \notin 1..MaxSessions
    /\ Readers \cap Outsiders = {} /\ (Readers \cup Outsiders) \cap Stoppers = {}

\* Sessions are numbered in the order they are opened.
Sessions == 1..MaxSessions

Callers == Readers \cup Outsiders
Processes == Callers \cup Stoppers
Addresses == {Targets[i] : i \in DOMAIN Targets}

Envelopes == {"payload", "close"}

VARIABLES
    isNil, streams,      \* fr.streams: nil or not, and the session of each address
    seq,                 \* fr.seq
    isRunning, ctxDone,  \* the flag, and whether fr.ctx is cancelled
    transport, policy,   \* which relay, and what it does with a full buffer
    startDone,           \* whether the context given to Start is cancelled
    loop, target,        \* of each session: its send loop, its address
    sendCh, closed,      \* of each session: queued envelopes, closed or not
    pc, held, todo,      \* each process: place, session in hand, sessions to deal with next
    nth,                 \* each caller: the index of its target
    crashed              \* the panic that ended the process

settings == <<transport, policy, startDone>>
relayState == <<isNil, streams, seq, isRunning, ctxDone, settings>>
sessionState == <<loop, target, sendCh, closed>>
processState == <<pc, held, todo, nth>>
vars == <<relayState, sessionState, processState, crashed>>

Panics == {"send on closed channel", "close of closed channel", "assignment to nil map"}

Init ==
    /\ isNil = TRUE /\ streams = [a \in Addresses |-> None]
    /\ seq = 0 /\ isRunning = FALSE /\ ctxDone = FALSE
    /\ \E v \in Variants : transport = v[1] /\ policy = v[2]
    /\ startDone = FALSE
    /\ loop = [s \in Sessions |-> "unborn"]
    /\ target = [s \in Sessions |-> Targets[1]]
    /\ sendCh = [s \in Sessions |-> << >>]
    /\ closed = [s \in Sessions |-> FALSE]
    /\ pc = [p \in Processes |-> IF p \in Readers THEN "off" ELSE "idle"]
    /\ held = [p \in Processes |-> None]
    /\ todo = [p \in Processes |-> {}]
    /\ nth = [c \in Callers |-> 1]
    /\ crashed = "no"

Alive == crashed = "no"
At(p, place) == Alive /\ pc[p] = place
GoTo(p, place) == pc' = [pc EXCEPT ![p] = place]
Address(c) == Targets[nth[c]]

Room(s) == Len(sendCh[s]) < SendBuf

Panic(what) ==
    /\ crashed' = what
    /\ UNCHANGED <<relayState, sessionState, processState>>

-----------------------------------------------------------------------------
(* Start: one reader for each input. *)

Start ==
    /\ Alive /\ \A r \in Readers : pc[r] = "off"
    /\ isRunning' = TRUE
    /\ pc' = [p \in Processes |-> IF p \in Readers THEN "idle" ELSE pc[p]]
    /\ UNCHANGED <<settings, isNil, streams, seq, ctxDone, sessionState, held, todo, nth, crashed>>

\* The readers of gRPC and QUIC watch the context of the relay, the others that of
\* Start, which Stop does not cancel.
ReaderCtxDone == IF transport \in {"grpc", "quic"} THEN ctxDone ELSE startDone

\* (A reader whose input is closed ends as well: it is one that reads no more.)
ReaderExits(r) ==
    /\ At(r, "idle") /\ ReaderCtxDone
    /\ GoTo(r, "gone")
    /\ UNCHANGED <<relayState, sessionState, held, todo, nth, crashed>>

\* The user's business: only the readers of WebSocket and WebTransport look at it.
StartCtxCancelled ==
    /\ Alive /\ transport \in {"websocket", "webtransport"} /\ isRunning /\ ~startDone
    /\ startDone' = TRUE
    /\ UNCHANGED <<isNil, streams, seq, isRunning, ctxDone, transport, policy, sessionState,
                   processState, crashed>>

-----------------------------------------------------------------------------
(* Submit and getOrCreateStreamSession. *)

\* An item that cannot be wrapped is refused here and changes nothing.
Submit(c) ==
    /\ At(c, "idle") /\ seq < MaxSeq
    /\ seq' = seq + 1
    /\ GoTo(c, "ensure")
    /\ UNCHANGED <<settings, isNil, streams, isRunning, ctxDone, sessionState, held, todo, nth, crashed>>

\* The next target, or the return of Submit after the last one.
NextTarget(c) ==
    /\ held' = [held EXCEPT ![c] = None]
    /\ IF nth[c] < Len(Targets)
       THEN GoTo(c, "ensure") /\ nth' = [nth EXCEPT ![c] = nth[c] + 1]
       ELSE GoTo(c, "idle") /\ nth' = [nth EXCEPT ![c] = 1]

EnsureStreamsInit(c) ==
    /\ At(c, "ensure")
    /\ isNil' = FALSE
    /\ GoTo(c, "lookup")
    /\ UNCHANGED <<settings, streams, seq, isRunning, ctxDone, sessionState, held, todo, nth, crashed>>

\* Reading a nil map yields no session.
Lookup(c) ==
    /\ At(c, "lookup")
    /\ held' = [held EXCEPT ![c] = streams[Address(c)]]
    /\ GoTo(c, IF streams[Address(c)] = None THEN "open" ELSE "check")
    /\ UNCHANGED <<relayState, sessionState, todo, nth, crashed>>

CheckDone(c) ==
    /\ At(c, "check")
    /\ GoTo(c, IF loop[held[c]] = "done" THEN "purge" ELSE "enqueue")
    /\ UNCHANGED <<relayState, sessionState, held, todo, nth, crashed>>

\* A dead session is removed if it is still the registered one.
Purge(c) ==
    /\ At(c, "purge")
    /\ streams' = [streams EXCEPT ![Address(c)] = IF @ = held[c] THEN None ELSE @]
    /\ held' = [held EXCEPT ![c] = None]
    /\ GoTo(c, "open")
    /\ UNCHANGED <<settings, isNil, seq, isRunning, ctxDone, sessionState, todo, nth, crashed>>

\* The dial and the first send use the caller's context: for a reader that is the
\* relay's (gRPC), none (QUIC), or that of Start.
CanDial(c) == c \in Readers => transport = "quic" \/ ~ReaderCtxDone

OpenStreamSession(c, s) ==
    /\ At(c, "open")
    /\ loop[s] = "unborn" /\ \A t \in 1..(s - 1) : loop[t] # "unborn"
    /\ CanDial(c)
    /\ loop' = [loop EXCEPT ![s] = "running"]
    /\ target' = [target EXCEPT ![s] = Address(c)]
    /\ held' = [held EXCEPT ![c] = s]
    /\ GoTo(c, "register")
    /\ UNCHANGED <<relayState, sendCh, closed, todo, nth, crashed>>

Skip(c) == NextTarget(c) /\ UNCHANGED <<relayState, sessionState, todo, crashed>>

\* Submit returns an error: the targets behind this one are not tried.
Abandon(c) ==
    /\ GoTo(c, "idle")
    /\ held' = [held EXCEPT ![c] = None]
    /\ nth' = [nth EXCEPT ![c] = 1]
    /\ UNCHANGED <<relayState, sessionState, todo, crashed>>

\* When a session cannot be opened gRPC and QUIC go on with the next target.
OpenFails(c) ==
    /\ At(c, "open")
    /\ IF transport \in {"grpc", "quic"} THEN Skip(c) ELSE Abandon(c)

MutRegisterOverwrites(c) ==
    /\ At(c, "register") /\ ~isNil
    /\ streams' = [streams EXCEPT ![Address(c)] = held[c]]
    /\ GoTo(c, "enqueue")
    /\ UNCHANGED <<settings, isNil, seq, isRunning, ctxDone, sessionState, held, todo, nth, crashed>>

\* The session is registered unless another caller was faster; then the new
\* one is closed and the other one used.
Register(c) ==
    /\ At(c, "register")
    /\ IF streams[Address(c)] # None
       THEN /\ todo' = [todo EXCEPT ![c] = {streams[Address(c)]}]
            /\ GoTo(c, "close")
            /\ UNCHANGED <<streams, crashed>>
       ELSE IF isNil
       THEN crashed' = "assignment to nil map" /\ UNCHANGED <<streams, todo, pc>>
       ELSE /\ streams' = [streams EXCEPT ![Address(c)] = held[c]]
            /\ GoTo(c, "enqueue")
            /\ UNCHANGED <<todo, crashed>>
    /\ UNCHANGED <<settings, isNil, seq, isRunning, ctxDone, sessionState, held, nth>>

\* The select of Submit. A send on a closed channel panics.
Enqueue(c) ==
    /\ At(c, "enqueue") /\ policy # "datagram" /\ ~closed[held[c]] /\ Room(held[c])
    /\ sendCh' = [sendCh EXCEPT ![held[c]] = Append(@, "payload")]
    /\ NextTarget(c)
    /\ UNCHANGED <<relayState, loop, target, closed, todo, crashed>>

EnqueuePanics(c) ==
    /\ At(c, "enqueue") /\ policy # "datagram" /\ closed[held[c]]
    /\ Panic("send on closed channel")

\* With a full buffer: drop the item for this target, or return an error.
BufferFull(c) ==
    /\ At(c, "enqueue") /\ ~closed[held[c]] /\ ~Room(held[c])
    /\ \/ policy = "drop" /\ Skip(c)
       \/ policy = "error" /\ Abandon(c)

\* A datagram passes by the buffer and the send loop.
SendDatagram(c) == At(c, "enqueue") /\ policy = "datagram" /\ (Skip(c) \/ Abandon(c))

\* fr.ctx is done, or the context of an outside caller is, which may happen at any
\* time. Only a blocking select has these cases.
RelayCancelled(c) == At(c, "enqueue") /\ policy = "block" /\ ctxDone /\ Abandon(c)
CallerCancelled(c) ==
    At(c, "enqueue") /\ policy = "block" /\ c \in Outsiders /\ Abandon(c)


-----------------------------------------------------------------------------
(* streamSendLoop. *)

\* A WebSocket write is given the relay's context and fails when it is done.
SendOK(s) ==
    /\ Alive /\ loop[s] = "running" /\ sendCh[s] # << >>
    /\ transport = "websocket" => ~ctxDone
    /\ sendCh' = [sendCh EXCEPT ![s] = Tail(@)]
    /\ UNCHANGED <<relayState, loop, target, closed, processState, crashed>>

\* The envelope is lost, and what is queued behind it stays in a channel
\* that nobody reads any more.
SendFails(s) ==
    /\ Alive /\ loop[s] = "running" /\ sendCh[s] # << >>
    /\ sendCh' = [sendCh EXCEPT ![s] = Tail(@)]
    /\ loop' = [loop EXCEPT ![s] = "done"]
    /\ UNCHANGED <<relayState, target, closed, processState, crashed>>

MutSendLoopEnds(s) ==
    Alive /\ loop[s] = "running" /\ sendCh[s] = << >> /\ closed[s] /\ UNCHANGED vars


SendLoopEnds(s) ==
    /\ Alive /\ loop[s] = "running" /\ sendCh[s] = << >> /\ closed[s]
    /\ loop' = [loop EXCEPT ![s] = "done"]
    /\ UNCHANGED <<relayState, target, sendCh, closed, processState, crashed>>

-----------------------------------------------------------------------------
(* streamSession.close, by Stop and by the caller that lost a race. *)

\* Where close returns to: the session the caller uses instead, or the next
\* session of closeAllStreams.
AfterClose(p) ==
    IF p \in Callers
    THEN \E s \in todo[p] :
            /\ held' = [held EXCEPT ![p] = s]
            /\ todo' = [todo EXCEPT ![p] = {}]
            /\ GoTo(p, "enqueue")
    ELSE /\ held' = [held EXCEPT ![p] = None]
         /\ GoTo(p, "each")
         /\ UNCHANGED todo

\* The StreamClose envelope is left out when the channel is full.
Close(p) ==
    /\ At(p, "close")
    /\ IF loop[held[p]] = "done"
       THEN AfterClose(p) /\ UNCHANGED sendCh
       ELSE /\ sendCh' = IF Room(held[p])
                         THEN [sendCh EXCEPT ![held[p]] = Append(@, "close")]
                         ELSE sendCh
            /\ GoTo(p, "closeChan")
            /\ UNCHANGED <<held, todo>>
    /\ UNCHANGED <<relayState, loop, target, closed, nth, crashed>>

CloseChan(p) ==
    /\ At(p, "closeChan")
    /\ IF closed[held[p]]
       THEN crashed' = "close of closed channel" /\ UNCHANGED <<closed, pc>>
       ELSE /\ closed' = [closed EXCEPT ![held[p]] = TRUE]
            /\ GoTo(p, "closeWait")
            /\ UNCHANGED crashed
    /\ UNCHANGED <<relayState, loop, target, sendCh, held, todo, nth>>

CloseWait(p) ==
    /\ At(p, "closeWait") /\ loop[held[p]] = "done"
    /\ AfterClose(p)
    /\ UNCHANGED <<relayState, sessionState, nth, crashed>>

-----------------------------------------------------------------------------
(* Stop and closeAllStreams. *)

Stop(p) ==
    /\ At(p, "idle")
    /\ ctxDone' = TRUE
    /\ GoTo(p, "take")
    /\ UNCHANGED <<settings, isNil, streams, seq, isRunning, sessionState, held, todo, nth, crashed>>

TakeStreams(p) ==
    /\ At(p, "take")
    /\ todo' = [todo EXCEPT ![p] = {streams[a] : a \in Addresses} \ {None}]
    /\ isNil' = TRUE
    /\ streams' = [a \in Addresses |-> None]
    /\ GoTo(p, "each")
    /\ UNCHANGED <<settings, seq, isRunning, ctxDone, sessionState, held, nth, crashed>>

\* A map is ranged over in any order.
CloseNext(p, s) ==
    /\ At(p, "each") /\ s \in todo[p]
    /\ held' = [held EXCEPT ![p] = s]
    /\ todo' = [todo EXCEPT ![p] = @ \ {s}]
    /\ GoTo(p, "close")
    /\ UNCHANGED <<relayState, sessionState, nth, crashed>>

StopReturns(p) ==
    /\ At(p, "each") /\ todo[p] = {}
    /\ isRunning' = FALSE
    /\ GoTo(p, "gone")
    /\ UNCHANGED <<settings, isNil, streams, seq, ctxDone, sessionState, held, todo, nth, crashed>>

-----------------------------------------------------------------------------
(* The four packages. Each has its own copy of the code above. *)

GetOrCreate(c) ==
    EnsureStreamsInit(c) \/ Lookup(c) \/ CheckDone(c) \/ Purge(c) \/ Register(c)
Open(c) == OpenFails(c) \/ \E s \in Sessions : OpenStreamSession(c, s)
Deliver(c) ==
    \/ Enqueue(c) \/ EnqueuePanics(c) \/ BufferFull(c) \/ SendDatagram(c)
    \/ RelayCancelled(c)
SendLoop(s) == SendOK(s) \/ SendFails(s) \/ SendLoopEnds(s)
CloseStep(p) == Close(p) \/ CloseChan(p) \/ CloseWait(p)
StopStep(p) == TakeStreams(p) \/ StopReturns(p) \/ \E s \in Sessions : CloseNext(p, s)

GrpcSubmit(c) == transport = "grpc" /\ (Submit(c) \/ CallerCancelled(c))
GrpcSubmitStep(c) == transport = "grpc" /\ (GetOrCreate(c) \/ Open(c) \/ Deliver(c))
GrpcSendLoop(s) == transport = "grpc" /\ SendLoop(s)

QuicStart == transport = "quic" /\ Start
QuicReadFromInput(r) == transport = "quic" /\ ReaderExits(r)
QuicSubmit(c) == transport = "quic" /\ (Submit(c) \/ CallerCancelled(c))
QuicDeliver(c) == transport = "quic" /\ Deliver(c)
QuicGetOrCreateStreamSession(c) == transport = "quic" /\ GetOrCreate(c)
QuicOpenStreamSession(c) == transport = "quic" /\ Open(c)
QuicStreamSendLoop(s) == transport = "quic" /\ SendLoop(s)
QuicSessionClose(p) == transport = "quic" /\ CloseStep(p)
QuicStop(p) == transport = "quic" /\ Stop(p)
QuicCloseAllStreams(p) == transport = "quic" /\ StopStep(p)

WsStart == transport = "websocket" /\ Start
WsReader(r) == transport = "websocket" /\ ReaderExits(r)
WsSubmit(c) == transport = "websocket" /\ Submit(c)
WsDeliver(c) == transport = "websocket" /\ Deliver(c)
WsGetOrCreateSession(c) == transport = "websocket" /\ GetOrCreate(c)
WsOpenSession(c) == transport = "websocket" /\ Open(c)
WsSessionSendLoop(s) == transport = "websocket" /\ SendLoop(s)
WsSessionClose(p) == transport = "websocket" /\ CloseStep(p)
WsStop(p) == transport = "websocket" /\ Stop(p)
WsCloseAllStreams(p) == transport = "websocket" /\ StopStep(p)

WtStart == transport = "webtransport" /\ Start
WtReader(r) == transport = "webtransport" /\ ReaderExits(r)
WtSubmit(c) == transport = "webtransport" /\ Submit(c)
WtDeliver(c) == transport = "webtransport" /\ Deliver(c)
WtGetOrCreateSession(c) == transport = "webtransport" /\ GetOrCreate(c)
WtOpenSession(c) == transport = "webtransport" /\ Open(c)
WtSessionSendLoop(s) == transport = "webtransport" /\ SendLoop(s)
WtSessionClose(p) == transport = "webtransport" /\ CloseStep(p)
WtStop(p) == transport = "webtransport" /\ Stop(p)
WtCloseAllSessions(p) == transport = "webtransport" /\ StopStep(p)

GrpcStart == transport = "grpc" /\ Start
GrpcReadFromInput(r) == transport = "grpc" /\ ReaderExits(r)
GrpcClose(p) == transport = "grpc" /\ CloseStep(p)
GrpcStop(p) == transport = "grpc" /\ Stop(p)
GrpcCloseAllStreams(p) == transport = "grpc" /\ StopStep(p)

AnyReader(r) ==
    GrpcReadFromInput(r) \/ QuicReadFromInput(r) \/ WsReader(r) \/ WtReader(r)
AnySubmit(c) == GrpcSubmit(c) \/ QuicSubmit(c) \/ WsSubmit(c) \/ WtSubmit(c)
AnySubmitStep(c) ==
    \/ GrpcSubmitStep(c)
    \/ QuicGetOrCreateStreamSession(c) \/ QuicOpenStreamSession(c) \/ QuicDeliver(c)
    \/ WsGetOrCreateSession(c) \/ WsOpenSession(c) \/ WsDeliver(c)
    \/ WtGetOrCreateSession(c) \/ WtOpenSession(c) \/ WtDeliver(c)
AnySendLoop(s) ==
    \/ GrpcSendLoop(s) \/ QuicStreamSendLoop(s)
    \/ WsSessionSendLoop(s) \/ WtSessionSendLoop(s)
AnyClose(p) == GrpcClose(p) \/ QuicSessionClose(p) \/ WsSessionClose(p) \/ WtSessionClose(p)
AnyCloseAll(p) ==
    \/ GrpcCloseAllStreams(p) \/ QuicCloseAllStreams(p)
    \/ WsCloseAllStreams(p) \/ WtCloseAllSessions(p)

Next ==
    \/ GrpcStart \/ QuicStart \/ WsStart \/ WtStart \/ StartCtxCancelled
    \/ \E r \in Readers : AnyReader(r)
    \/ \E c \in Callers : AnySubmit(c) \/ AnySubmitStep(c)
    \/ \E p \in Processes : AnyClose(p)
    \/ \E p \in Stoppers : GrpcStop(p) \/ QuicStop(p) \/ WsStop(p) \/ WtStop(p)
                             \/ AnyCloseAll(p)
    \/ \E s \in Sessions : AnySendLoop(s)

Spec == Init /\ [][Next]_vars

(***************************************************************************)
(* A goroutine that can run does. A Send returns, with or without an       *)
(* error: that is the network's part. Nobody has to call Submit, Start or Stop,   *)
(* and no caller's context has to be cancelled.                            *)
(***************************************************************************)
Fairness ==
    /\ \A c \in Callers : WF_vars(GetOrCreate(c) \/ Open(c) \/ Deliver(c) \/ CloseStep(c)
                                  \/ (c \in Readers /\ ReaderExits(c)))
    /\ \A p \in Stoppers : WF_vars(StopStep(p) \/ CloseStep(p))
    /\ \A s \in Sessions : WF_vars(SendLoop(s))

FairSpec == Spec /\ Fairness

-----------------------------------------------------------------------------
CallerPlaces == {"off", "idle", "ensure", "lookup", "check", "purge", "open",
                 "register", "enqueue", "close", "closeChan", "closeWait", "gone"}
StopperPlaces == {"idle", "take", "each", "close", "closeChan", "closeWait", "gone"}

\* The places at which a process has a session in hand.
InHand == {"check", "purge", "register", "enqueue", "close", "closeChan", "closeWait"}
Closing == {"close", "closeChan", "closeWait"}

\* Every variable has its type, an unallocated map holds nothing, a process
\* has a session in hand exactly where the code holds one.
TypeOK ==
    /\ isNil \in BOOLEAN /\ isRunning \in BOOLEAN /\ ctxDone \in BOOLEAN
    /\ <<transport, policy>> \in Variants /\ startDone \in BOOLEAN
    /\ streams \in [Addresses -> Sessions \cup {None}]
    /\ isNil => \A a \in Addresses : streams[a] = None
    /\ seq \in 0..MaxSeq
    /\ loop \in [Sessions -> {"unborn", "running", "done"}]
    /\ target \in [Sessions -> Addresses]
    /\ sendCh \in [Sessions -> Seq(Envelopes)]
    /\ \A s \in Sessions : Len(sendCh[s]) <= SendBuf
    /\ closed \in [Sessions -> BOOLEAN]
    /\ \A p \in Processes : pc[p] \in IF p \in Callers THEN CallerPlaces ELSE StopperPlaces
    /\ held \in [Processes -> Sessions \cup {None}]
    /\ \A p \in Processes : (held[p] # None) <=> (pc[p] \in InHand)
    /\ todo \in [Processes -> SUBSET Sessions]
    /\ nth \in [Callers -> DOMAIN Targets]
    /\ crashed \in Panics \cup {"no"}

\* A session somebody will close: the registered one of its target, the one
\* an opener has yet to register, one that is being closed, one that Stop took.
Accounted(s) ==
    \/ streams[target[s]] = s
    \/ \E p \in Processes : held[p] = s /\ pc[p] \in {"register"} \cup Closing
    \/ \E p \in Stoppers : s \in todo[p]

\* No session is orphaned: a send loop that still runs belongs to a session
\* that is registered or in the hands of the goroutine that registers or
\* closes it. Two callers that open a session for the same target at once
\* (getOrCreateStreamSession) and a Stop that empties the map meanwhile do not
\* leave a connection nobody will ever close.
NoOrphanSession ==
    Alive => \A s \in Sessions : loop[s] = "running" => Accounted(s)

\* However many Stops overlap with callers that lose the race for a session,
\* close never closes a sendCh that is closed: a session is taken out of the
\* map together with the duty to close it.
ClosedOnce == crashed # "close of closed channel"

\* The relay panics only if Stop is called: opening, losing the race, closing
\* the spare session and replacing a dead one never close a channel another
\* Submit may send on, and never meet a nil map.
PanicOnlyByStop == crashed # "no" => ctxDone

\* What Submit, getOrCreateStreamSession and Stop, in any number and order, keep
\* of the sessions: none is orphaned, none closed twice, no panic without Stop.
SessionsSound == TypeOK /\ NoOrphanSession /\ ClosedOnce /\ PanicOnlyByStop

\* Once Stop has been called, every call comes back: the loop of each session that is
\* closed drains its channel and ends, so that Stop returns; and neither a full channel
\* nor a session whose send loop has died keeps a caller in Submit. A panic ends the
\* process instead.
CallsReturn ==
    ctxDone ~> (\A p \in Processes : pc[p] \in {"off", "idle", "gone"}) \/ ~Alive
=============================================================================
