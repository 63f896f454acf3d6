----------------------------- MODULE MCAdapters -----------------------------
(* Instances of the adapters and jacks, which connect wires to the world     *)
(* outside: the batching writers, the parquet writer, the pollers, the       *)
(* WebSocket client and the servers.  A behaviour exercises one of them; the *)
(* others rest in their initial state.                                       *)
EXTENDS BatchWriter, ParquetWriter, Pollers, WebSocketClient, WebSocketJack, HTTPServer

CONSTANTS p1, p2, k1, k2, q1, q2

VARIABLE part

AllKinds == {"kafka", "kafkaRaw", "s3", "postgres"}
OneHeavy == {Record(1, 2)}
TwoCalls == {k1, k2}
OneCall == {k1}
TwoPeers == {p1, p2}
TwoRequests == {q1, q2}

AdapterVars == <<part, writerVars, pqVars, pollVars, wsVars, jackVars, httpVars>>

AdaptersInit ==
    /\ part \in {"writer", "parquet", "poller", "client", "jack", "http"}
    /\ WriterInit /\ (part # "writer" => kind = "s3" /\ ~direct)
    /\ ParquetInit /\ (part # "parquet" => ~pqBusy)
    /\ PollInit /\ (part # "poller" => pollKind = "s3" /\ ~oneShot)
    /\ WsInit /\ (part # "client" => wsCall = "serve")
    /\ JackInit
    /\ HttpInit /\ (part # "http" => httpConf)

AdaptersNext ==
    /\ UNCHANGED part
    /\ \/ part = "writer" /\ WriterNext
          /\ UNCHANGED <<pqVars, pollVars, wsVars, jackVars, httpVars>>
       \/ part = "parquet" /\ ParquetNext
          /\ UNCHANGED <<writerVars, pollVars, wsVars, jackVars, httpVars>>
       \/ part = "poller" /\ PollNext
          /\ UNCHANGED <<writerVars, pqVars, wsVars, jackVars, httpVars>>
       \/ part = "client" /\ WsNext
          /\ UNCHANGED <<writerVars, pqVars, pollVars, jackVars, httpVars>>
       \/ part = "jack" /\ JackNext
          /\ UNCHANGED <<writerVars, pqVars, pollVars, wsVars, httpVars>>
       \/ part = "http" /\ HttpNext
          /\ UNCHANGED <<writerVars, pqVars, pollVars, wsVars, jackVars>>

\* Each component's own fairness, while it is the one that moves.
AdaptersFairness ==
    /\ \A c \in Calls : /\ WF_writerVars(part = "writer" /\ LoopStep(c))
                        /\ WF_writerVars(part = "writer" /\ Tick(c))
                        /\ \A i \in Inputs : WF_writerVars(part = "writer" /\ FanStep(c, i))
    /\ WF_pqVars(part = "parquet" /\ RollerTick) /\ WF_pqVars(part = "parquet" /\ RollerEnds)
    /\ WF_pqVars(part = "parquet" /\ RollerFlush) /\ WF_pqVars(part = "parquet" /\ RawStep)
    /\ \A c \in PollCalls : WF_pollVars(part = "poller" /\ PollStep(c))
    /\ WF_wsVars(part = "client" /\ ReadLoopStep) /\ WF_wsVars(part = "client" /\ WriteLoopStep)
    /\ WF_wsVars(part = "client" /\ CallStep)
    /\ \A c \in Peers : WF_jackVars(part = "jack" /\ ConnStep(c))
    /\ \A c \in HttpServes : WF_httpVars(part = "http" /\ HttpCallStep(c))

AdaptersSpec == AdaptersInit /\ [][AdaptersNext]_AdapterVars /\ AdaptersFairness

\* Nothing stays in an adapter for ever: a writer's batch and a parquet file are
\* flushed, and once its context is done a Serve of the pollers, the WebSocket
\* client or the HTTP jack returns and the WebSocket jack drops its connections.
AdaptersSettle ==
    []<>~(BatchWaits \/ ParquetWaits \/ PollLingers \/ ServeLingers \/ HttpLingers \/ ConnsLinger)
=============================================================================
