------------------------ MODULE ReceivingRelayProofs ------------------------
(***************************************************************************)
(* Proofs about the receiving relays, for any number of streams, unary     *)
(* calls and payloads, any buffer, any AckEveryN and every transport: what *)
(* a peer is told of its payloads, and the order in which the outputs get  *)
(* them.                                                                   *)
(***************************************************************************)
EXTENDS ReceivingRelay, FiniteSetTheorems, TLAPS

-----------------------------------------------------------------------------
(* The inductive invariant. *)

Places == {"new", "recv", "push", "ack", "ended", "failed", "refused"}

RelayTyped ==
    /\ closed \in BOOLEAN /\ cancelled \in BOOLEAN /\ (closed => cancelled)
    /\ transport \in Transports /\ authRequired \in BOOLEAN
    /\ isRunning \in BOOLEAN /\ listening \in BOOLEAN
    /\ starting \in {"new", "listen", "serving"} /\ stopping \in {"idle", "shutdown", "close"}
    /\ stopping # "idle" => cancelled
    /\ crashed \in {"no", "send on closed channel", "close of closed channel"}
AtTyped == at \in [Goroutines -> Places]
CountersTyped ==
    /\ batchOK \in [Streams -> Nat] /\ batchErr \in [Streams -> Nat] /\ batchSeen \in [Streams -> Nat]
    /\ ackedOK \in [Streams -> Nat] /\ ackedErr \in [Streams -> Nat] /\ nacked \in [Streams -> Nat]
    /\ received \in [Streams -> Nat] /\ pushed \in [Streams -> Nat]
    /\ ackMode \in [Streams -> AckModes] /\ ackEveryN \in [Streams -> Nat]
ValidTyped == validated \in [Streams -> BOOLEAN]

\* Nothing has been counted before the first payload.
Untouched(s) ==
    /\ received[s] = 0 =>
         /\ batchOK[s] = 0 /\ batchErr[s] = 0 /\ batchSeen[s] = 0 /\ ackedOK[s] = 0 /\ ackedErr[s] = 0
         /\ nacked[s] = 0 /\ pushed[s] = 0 /\ at[s] \notin {"push", "ack"}
    /\ at[s] = "new" => received[s] = 0

\* No counter runs ahead of the payloads read, in whatever mode.
Bounded(s) ==
    /\ received[s] <= MaxPayloads
    /\ pushed[s] + nacked[s] + Held(s, "push") + (IF NacksEach THEN 0 ELSE ackedErr[s] + batchErr[s])
         <= received[s]
    /\ NacksEach => ackedErr[s] + batchErr[s] <= nacked[s]
    /\ ackedOK[s] + Held(s, "ack") <= pushed[s] /\ batchOK[s] + Held(s, "ack") <= pushed[s]
    /\ batchSeen[s] + Held(s, "push") + Held(s, "ack") <= received[s]

\* Where credentials are required, nothing is admitted, and so no batch begun, before they
\* have been accepted.
NothingAdmitted(s) ==
    authRequired /\ ~validated[s] => batchOK[s] = 0 /\ batchErr[s] = 0 /\ at[s] \notin {"push", "ack"}

\* AcksExact and BatchBounded, of one stream.
Exact(s) ==
    /\ ackMode[s] = "each" => ackedOK[s] + Held(s, "ack") = pushed[s]
    /\ ackMode[s] = "batch" => ackedOK[s] + batchOK[s] + Held(s, "ack") = pushed[s]
    /\ NacksEach =>
         /\ nacked[s] + pushed[s] + Held(s, "push") = received[s]
         /\ ~authRequired => ackedErr[s] + batchErr[s] = nacked[s]
    /\ ~NacksEach /\ ackMode[s] # "none" =>
         nacked[s] + ackedErr[s] + batchErr[s] + pushed[s] + Held(s, "push") = received[s]
    /\ ackMode[s] = "batch" /\ at[s] \in {"ended", "refused"} => batchOK[s] = 0 /\ batchErr[s] = 0
Batched(s) ==
    ackMode[s] = "batch" =>
        /\ batchSeen[s] < ackEveryN[s]
        /\ batchSeen[s] = batchOK[s] + (IF NacksEach THEN 0 ELSE batchErr[s])

StreamInv(s) == Untouched(s) /\ Bounded(s) /\ NothingAdmitted(s) /\ Exact(s) /\ Batched(s)

\* At most one fan-out goroutine is ever alive, and it holds a payload only to submit it.
FanInv ==
    /\ once \in BOOLEAN /\ fan \in [Fanouts -> {"off", "range", "submit"}]
    /\ carried \in [Fanouts -> Seq(Payloads)]
    /\ \A f \in Fanouts : IF fan[f] = "submit" THEN Len(carried[f]) = 1 ELSE carried[f] = << >>
    /\ fan["start"] = "off" \/ fan["listen"] = "off"
    /\ ~once => fan["start"] = "off" /\ fan["listen"] = "off"
ChannelInv ==
    dataCh \in Seq(Payloads) /\ Len(dataCh) <= DataBuf /\ outputs \in Seq(Payloads)

\* What has been put into DataCh was read before, and its positions are below that of the
\* payload its handler is about to put there.
Ordered(given) ==
    \A s \in Streams :
        /\ IsFiniteSet({i \in DOMAIN given : given[i][1] = s})
        /\ Cardinality({i \in DOMAIN given : given[i][1] = s}) = pushed[s]
        /\ \A i \in DOMAIN given : given[i][1] = s =>
             given[i][2] <= received[s] /\ (at[s] = "push" => given[i][2] < received[s])
        /\ \A i, j \in DOMAIN given : i < j /\ given[i][1] = s /\ given[j][1] = s => given[i][2] < given[j][2]

RelayInv ==
    /\ RelayTyped /\ AtTyped /\ CountersTyped /\ ValidTyped /\ FanInv /\ ChannelInv
    /\ \A s \in Streams : StreamInv(s)
    /\ Ordered(Given)

-----------------------------------------------------------------------------
(* Handlers. *)

\* What a stream's own invariant is about stays as it is.
Still(s) ==
    /\ at'[s] = at[s] /\ ackMode'[s] = ackMode[s] /\ ackEveryN'[s] = ackEveryN[s]
    /\ batchOK'[s] = batchOK[s] /\ batchErr'[s] = batchErr[s] /\ batchSeen'[s] = batchSeen[s]
    /\ ackedOK'[s] = ackedOK[s] /\ ackedErr'[s] = ackedErr[s] /\ nacked'[s] = nacked[s]
    /\ received'[s] = received[s] /\ pushed'[s] = pushed[s] /\ validated'[s] = validated[s]

LEMMA StillKeeps ==
    ASSUME NEW s \in Streams, StreamInv(s), Still(s), transport' = transport, authRequired' = authRequired
    PROVE  StreamInv(s)'
<1>1. /\ Held(s, "push")' = Held(s, "push") /\ Held(s, "ack")' = Held(s, "ack") /\ NacksEach' = NacksEach
  BY DEF Still, Held, NacksEach
<1>2. Untouched(s)' /\ Bounded(s)'
  BY <1>1 DEF StreamInv, Still, Untouched, Bounded
<1>3. NothingAdmitted(s)'
  BY DEF StreamInv, Still, NothingAdmitted
<1>4. Exact(s)' /\ Batched(s)'
  BY <1>1 DEF StreamInv, Still, Exact, Batched
<1> QED BY <1>2, <1>3, <1>4 DEF StreamInv

LEMMA ModSelf == ASSUME NEW n \in Nat \ {0} PROVE n % n = 0
  OBVIOUS

\* Counting one more payload in the batch.
LEMMA CountFacts ==
    ASSUME CountersTyped, NEW s \in Streams, NEW ok \in {0, 1}, NEW err \in {0, 1}, ok + err = 1,
           ackMode[s] = "batch", batchSeen[s] < ackEveryN[s], CountInBatch(s, ok, err)
    PROVE  /\ batchOK' \in [Streams -> Nat] /\ batchErr' \in [Streams -> Nat] /\ batchSeen' \in [Streams -> Nat]
           /\ ackedOK' \in [Streams -> Nat] /\ ackedErr' \in [Streams -> Nat]
           /\ \A t \in Streams : t # s =>
                /\ batchOK'[t] = batchOK[t] /\ batchErr'[t] = batchErr[t] /\ batchSeen'[t] = batchSeen[t]
                /\ ackedOK'[t] = ackedOK[t] /\ ackedErr'[t] = ackedErr[t]
           /\ \/ /\ batchOK'[s] = 0 /\ batchErr'[s] = 0 /\ batchSeen'[s] = 0
                 /\ ackedOK'[s] = ackedOK[s] + batchOK[s] + ok /\ ackedErr'[s] = ackedErr[s] + batchErr[s] + err
              \/ /\ batchOK'[s] = batchOK[s] + ok /\ batchErr'[s] = batchErr[s] + err
                 /\ batchSeen'[s] = batchSeen[s] + 1 /\ batchSeen[s] + 1 < ackEveryN[s]
                 /\ ackedOK'[s] = ackedOK[s] /\ ackedErr'[s] = ackedErr[s]
<1>1. CASE ackEveryN[s] > 0 /\ (batchSeen[s] + 1) % ackEveryN[s] = 0
  <2>1. /\ ackedOK' = [ackedOK EXCEPT ![s] = @ + (batchOK[s] + ok)]
        /\ ackedErr' = [ackedErr EXCEPT ![s] = @ + (batchErr[s] + err)]
        /\ batchOK' = [batchOK EXCEPT ![s] = 0] /\ batchErr' = [batchErr EXCEPT ![s] = 0]
        /\ batchSeen' = [batchSeen EXCEPT ![s] = 0]
    <3>1. ~(batchOK[s] + ok = 0 /\ batchErr[s] + err = 0)
      BY DEF CountersTyped
    <3> QED BY <1>1, <3>1 DEF CountInBatch, FlushBatch
  <2> QED BY <2>1 DEF CountersTyped
<1>2. CASE ~(ackEveryN[s] > 0 /\ (batchSeen[s] + 1) % ackEveryN[s] = 0)
  <2>1. /\ batchOK' = [batchOK EXCEPT ![s] = @ + ok] /\ batchErr' = [batchErr EXCEPT ![s] = @ + err]
        /\ batchSeen' = [batchSeen EXCEPT ![s] = @ + 1] /\ UNCHANGED <<ackedOK, ackedErr>>
    BY <1>2 DEF CountInBatch
  <2>2. batchSeen[s] + 1 < ackEveryN[s]
    <3>1. ackEveryN[s] \in Nat \ {0} /\ batchSeen[s] \in Nat
      BY DEF CountersTyped
    <3>2. batchSeen[s] + 1 # ackEveryN[s]
      BY <1>2, <3>1, ModSelf
    <3> QED BY <3>1, <3>2
  <2> QED BY <2>1, <2>2 DEF CountersTyped
<1> QED BY <1>1, <1>2

\* A step of the handler of stream s that leaves the channel and the outputs alone.
LEMMA HandlerKeeps ==
    ASSUME RelayInv, NEW s \in Streams, UNCHANGED <<channel, fanState, control, crashed, pushed>>,
           AtTyped', CountersTyped', ValidTyped', StreamInv(s)', \A t \in Streams : t # s => Still(t),
           received'[s] >= received[s], at'[s] = "push" => received'[s] > received[s]
    PROVE  RelayInv'
<1> USE DEF channel, fanState, control
<1>1. RelayTyped'
  BY DEF RelayInv, RelayTyped
<1>2. FanInv'
  BY DEF RelayInv, FanInv
<1>3. ChannelInv'
  BY DEF RelayInv, ChannelInv
<1>4. \A t \in Streams : StreamInv(t)'
  <2> SUFFICES ASSUME NEW t \in Streams, t # s PROVE StreamInv(t)'
    OBVIOUS
  <2>1. StreamInv(t) /\ Still(t) /\ transport' = transport /\ authRequired' = authRequired
    BY DEF RelayInv
  <2> QED BY <2>1, StillKeeps
<1>5. Given' = Given
  BY DEF Given
<1>6. \A t \in Streams : received'[t] >= received[t] /\ (at'[t] = "push" /\ at[t] # "push" => received'[t] > received[t])
                           /\ received[t] \in Nat /\ received'[t] \in Nat
  <2>1. CountersTyped
    BY DEF RelayInv
  <2> SUFFICES ASSUME NEW t \in Streams
               PROVE  received'[t] >= received[t] /\ (at'[t] = "push" /\ at[t] # "push" => received'[t] > received[t])
                      /\ received[t] \in Nat /\ received'[t] \in Nat
    OBVIOUS
  <2>2. received[t] \in Nat /\ received'[t] \in Nat
    BY <2>1 DEF CountersTyped
  <2>3. CASE t = s
    BY <2>2, <2>3
  <2>4. CASE t # s
    BY <2>2, <2>4 DEF Still
  <2> QED BY <2>3, <2>4
<1>7. \A i \in DOMAIN Given : Given[i][2] \in Nat
  <2>1. Given \in Seq(Payloads)
    BY DEF RelayInv, Given, ChannelInv, FanInv, Fanouts
  <2>2. \A p \in Payloads : p[2] \in Nat
    BY ConstantsAssumption DEF Payloads
  <2> QED BY <2>1, <2>2
<1>8. Ordered(Given)'
  <2>1. Ordered(Given) /\ pushed' = pushed
    BY DEF RelayInv
  <2>2. ASSUME NEW t \in Streams, NEW i \in DOMAIN Given, Given[i][1] = t
        PROVE  Given[i][2] <= received'[t] /\ (at'[t] = "push" => Given[i][2] < received'[t])
    <3>1. Given[i][2] <= received[t] /\ (at[t] = "push" => Given[i][2] < received[t])
      BY <2>1, <2>2 DEF Ordered
    <3>2. /\ Given[i][2] \in Nat /\ received[t] \in Nat /\ received'[t] \in Nat /\ received'[t] >= received[t]
          /\ at'[t] = "push" /\ at[t] # "push" => received'[t] > received[t]
      BY <1>6, <1>7
    <3> QED BY <3>1, <3>2
  <2> QED BY <1>5, <2>1, <2>2 DEF Ordered
<1> QED BY <1>1, <1>2, <1>3, <1>4, <1>8 DEF RelayInv

LEMMA PlaceMoves ==
    ASSUME AtTyped, NEW g \in Goroutines, NEW p \in Places, GoTo(g, p)
    PROVE  AtTyped' /\ at'[g] = p /\ \A t \in Goroutines : t # g => at'[t] = at[t]
  BY DEF AtTyped, GoTo

LEMMA ValidMoves ==
    ASSUME ValidTyped, NEW s \in Streams, NEW b \in BOOLEAN, validated' = [validated EXCEPT ![s] = b]
    PROVE  ValidTyped' /\ validated'[s] = b /\ \A t \in Streams : t # s => validated'[t] = validated[t]
  BY DEF ValidTyped

\* A stream on which nothing has been received.
LEMMA NothingYet ==
    ASSUME NEW s \in Streams, CountersTyped', received'[s] = 0, batchOK'[s] = 0, batchErr'[s] = 0, batchSeen'[s] = 0,
           ackedOK'[s] = 0, ackedErr'[s] = 0, nacked'[s] = 0, pushed'[s] = 0, at'[s] \notin {"push", "ack"},
           ackMode'[s] = "batch" => ackEveryN'[s] > 0
    PROVE  StreamInv(s)'
<1>1. Held(s, "push")' = 0 /\ Held(s, "ack")' = 0
  BY DEF Held
<1>2. Untouched(s)' /\ Bounded(s)' /\ NothingAdmitted(s)'
  BY <1>1, ConstantsAssumption DEF Untouched, Bounded, NothingAdmitted
<1>3. Exact(s)' /\ Batched(s)'
  BY <1>1 DEF Exact, Batched
<1> QED BY <1>2, <1>3 DEF StreamInv

\* A handler's place of its own, and a stream no payload of which has been read.
LEMMA OpeningKeeps ==
    ASSUME RelayInv, NEW s \in Streams,
           \/ \E ok \in BOOLEAN : Accept(s, ok)
           \/ GrpcRefuse(s)
           \/ \E mode \in AckModes, n \in OpenIntervals : Open(s, mode, n)
           \/ \E mode \in AckModes, n \in OpenIntervals, h \in Headers : OpenWithHeaders(s, mode, n, h)
    PROVE  RelayInv'
<1> USE DEF acks, batch
<1>1. /\ AtTyped /\ CountersTyped /\ ValidTyped /\ Untouched(s) /\ Batched(s) /\ s \in Goroutines
      /\ \A t \in Streams : t \in Goroutines
  BY DEF RelayInv, StreamInv, Goroutines
<1>2. ASSUME NEW ok \in BOOLEAN, Accept(s, ok) PROVE RelayInv'
  <2>1. /\ UNCHANGED <<channel, fanState, control, ackMode, ackEveryN, acks, received, pushed, crashed>>
        /\ GoTo(s, "recv") /\ at[s] = "new" /\ validated' = [validated EXCEPT ![s] = ok]
    BY <1>2 DEF Accept, At
  <2>2. AtTyped' /\ at'[s] = "recv" /\ \A t \in Goroutines : t # s => at'[t] = at[t]
    BY <1>1, <2>1, PlaceMoves DEF Places
  <2>3. ValidTyped' /\ \A t \in Streams : t # s => validated'[t] = validated[t]
    BY <1>1, <2>1, ValidMoves
  <2>4. CountersTyped' /\ received'[s] = 0 /\ received[s] = 0
    BY <1>1, <2>1 DEF CountersTyped, Untouched
  <2>5. StreamInv(s)'
    <3>1. ackMode[s] = "batch" => ackEveryN[s] > 0
      BY <1>1 DEF Batched, CountersTyped
    <3> QED BY <1>1, <2>1, <2>2, <2>4, <3>1, NothingYet DEF Untouched
  <2>6. \A t \in Streams : t # s => Still(t)
    BY <1>1, <2>1, <2>2, <2>3 DEF Still
  <2> QED BY <2>1, <2>2, <2>3, <2>4, <2>5, <2>6, HandlerKeeps
<1>3. ASSUME GrpcRefuse(s) PROVE RelayInv'
  <2>1. /\ UNCHANGED <<channel, fanState, control, ackMode, ackEveryN, acks, received, pushed, validated, crashed>>
        /\ GoTo(s, "refused") /\ at[s] = "new"
    BY <1>3 DEF GrpcRefuse, At, streamState
  <2>2. AtTyped' /\ at'[s] = "refused" /\ \A t \in Goroutines : t # s => at'[t] = at[t]
    BY <1>1, <2>1, PlaceMoves DEF Places
  <2>3. ValidTyped'
    BY <1>1, <2>1 DEF ValidTyped
  <2>4. CountersTyped' /\ received'[s] = 0 /\ received[s] = 0
    BY <1>1, <2>1 DEF CountersTyped, Untouched
  <2>5. StreamInv(s)'
    <3>1. ackMode[s] = "batch" => ackEveryN[s] > 0
      BY <1>1 DEF Batched, CountersTyped
    <3> QED BY <1>1, <2>1, <2>2, <2>4, <3>1, NothingYet DEF Untouched
  <2>6. \A t \in Streams : t # s => Still(t)
    BY <1>1, <2>1, <2>2 DEF Still
  <2> QED BY <2>1, <2>2, <2>3, <2>4, <2>5, <2>6, HandlerKeeps
<1>4. ASSUME NEW mode \in AckModes, NEW n \in OpenIntervals, NEW p \in {"recv", "failed", "refused"},
             OpenMode(s, mode, n), GoTo(s, p), ValidTyped', \A t \in Streams : t # s => validated'[t] = validated[t]
      PROVE  RelayInv'
  <2> DEFINE every == IF mode # "batch" THEN 0 ELSE IF n = 0 THEN DefaultAckEveryN ELSE n
  <2>1. /\ UNCHANGED <<channel, fanState, control, acks, received, pushed, crashed>>
        /\ at[s] = "recv" /\ received[s] = 0
        /\ ackMode' = [ackMode EXCEPT ![s] = mode] /\ ackEveryN' = [ackEveryN EXCEPT ![s] = every]
    BY <1>4 DEF OpenMode, At
  <2>2. every \in Nat /\ (mode = "batch" => every > 0)
    BY ConstantsAssumption DEF DefaultAckEveryN
  <2> HIDE DEF every
  <2>3. AtTyped' /\ at'[s] = p /\ \A t \in Goroutines : t # s => at'[t] = at[t]
    BY <1>1, <1>4, PlaceMoves DEF Places
  <2>4. /\ ackMode' \in [Streams -> AckModes] /\ ackEveryN' \in [Streams -> Nat]
        /\ ackMode'[s] = mode /\ ackEveryN'[s] = every
        /\ \A t \in Streams : t # s => ackMode'[t] = ackMode[t] /\ ackEveryN'[t] = ackEveryN[t]
    BY <1>1, <2>1, <2>2 DEF CountersTyped
  <2>5. CountersTyped' /\ received'[s] = 0
    BY <1>1, <2>1, <2>4 DEF CountersTyped
  <2>6. StreamInv(s)'
    BY <1>1, <2>1, <2>2, <2>3, <2>4, <2>5, NothingYet DEF Untouched
  <2>7. \A t \in Streams : t # s => Still(t)
    BY <1>1, <1>4, <2>1, <2>3, <2>4 DEF Still
  <2> QED BY <1>4, <2>1, <2>3, <2>5, <2>6, <2>7, HandlerKeeps
<1>5. ASSUME NEW mode \in AckModes, NEW n \in OpenIntervals, Open(s, mode, n) PROVE RelayInv'
  <2>1. ValidTyped' /\ \A t \in Streams : t # s => validated'[t] = validated[t]
    BY <1>1, <1>5 DEF Open, ValidTyped
  <2> QED BY <1>4, <1>5, <2>1 DEF Open, AckOpen
<1>6. ASSUME NEW mode \in AckModes, NEW n \in OpenIntervals, NEW h \in Headers, OpenWithHeaders(s, mode, n, h)
      PROVE  RelayInv'
  <2>1. ValidTyped' /\ \A t \in Streams : t # s => validated'[t] = validated[t]
    <3>1. CASE h = "bad"
      BY <1>1, <1>6, <3>1 DEF OpenWithHeaders, ValidTyped
    <3>2. CASE h # "bad"
      <4>1. validated' = [validated EXCEPT ![s] = (h = "valid")] /\ (h = "valid") \in BOOLEAN
        BY <1>6, <3>2 DEF OpenWithHeaders
      <4> QED BY <1>1, <4>1, ValidMoves
    <3> QED BY <3>1, <3>2
  <2>2. OpenMode(s, mode, n) /\ \E p \in {"recv", "failed", "refused"} : GoTo(s, p)
    BY <1>6 DEF OpenWithHeaders, AckOpen
  <2> QED BY <1>4, <2>1, <2>2
<1> QED BY <1>2, <1>3, <1>5, <1>6

\* What a handler knows when it has read a payload.
LEMMA ReadFacts ==
    ASSUME RelayInv, NEW s \in Streams, NEW h \in Headers, ReadPayload(s, h)
    PROVE  /\ UNCHANGED <<channel, fanState, control, ackMode, ackEveryN, pushed, crashed>>
           /\ at[s] = "recv" /\ received[s] < MaxPayloads
           /\ received' \in [Streams -> Nat] /\ received'[s] = received[s] + 1
           /\ \A t \in Streams : t # s => received'[t] = received[t] /\ validated'[t] = validated[t]
           /\ ValidTyped' /\ (validated'[s] <=> validated[s] \/ h = "valid")
<1>1. CountersTyped /\ ValidTyped
  BY DEF RelayInv
<1>2. /\ UNCHANGED <<channel, fanState, control, ackMode, ackEveryN, pushed, crashed>>
      /\ at[s] = "recv" /\ received[s] < MaxPayloads /\ received' = [received EXCEPT ![s] = @ + 1]
      /\ validated' = [validated EXCEPT ![s] = validated[s] \/ h = "valid"]
  BY DEF ReadPayload, At
<1>3. /\ received' \in [Streams -> Nat] /\ received'[s] = received[s] + 1
      /\ \A t \in Streams : t # s => received'[t] = received[t]
  BY <1>1, <1>2 DEF CountersTyped
<1>4. (validated[s] \/ h = "valid") \in BOOLEAN
  OBVIOUS
<1>5. ValidTyped' /\ validated'[s] = (validated[s] \/ h = "valid") /\ \A t \in Streams : t # s => validated'[t] = validated[t]
  <2> DEFINE b == validated[s] \/ h = "valid"
  <2>1. b \in BOOLEAN /\ validated' = [validated EXCEPT ![s] = b]
    BY <1>2
  <2>2. ValidTyped' /\ validated'[s] = b /\ \A t \in Streams : t # s => validated'[t] = validated[t]
    <3> HIDE DEF b
    <3> QED BY <1>1, <2>1, ValidMoves
  <2> QED BY <2>2
<1> QED BY <1>2, <1>3, <1>5

LEMMA RecvKeeps ==
    ASSUME RelayInv, NEW s \in Streams, NEW h \in Headers, RecvPayload(s, h)
    PROVE  RelayInv'
<1> USE DEF acks, batch
<1>1. /\ AtTyped /\ CountersTyped /\ StreamInv(s) /\ s \in Goroutines /\ \A t \in Streams : t \in Goroutines
  BY DEF RelayInv, Goroutines
<1>2. /\ UNCHANGED <<channel, fanState, control, ackMode, ackEveryN, pushed, crashed>>
      /\ at[s] = "recv" /\ received[s] < MaxPayloads
      /\ received' \in [Streams -> Nat] /\ received'[s] = received[s] + 1
      /\ \A t \in Streams : t # s => received'[t] = received[t] /\ validated'[t] = validated[t]
      /\ ValidTyped' /\ (validated'[s] <=> validated[s] \/ h = "valid")
  BY ReadFacts DEF RecvPayload
<1>3. Admitted(s, h) /\ UNCHANGED acks /\ GoTo(s, "push")
  BY DEF RecvPayload
<1>4. AtTyped' /\ at'[s] = "push" /\ \A t \in Goroutines : t # s => at'[t] = at[t]
  BY <1>1, <1>3, PlaceMoves DEF Places
<1>5. CountersTyped'
  BY <1>1, <1>2, <1>3 DEF CountersTyped
<1>6. Held(s, "push") = 0 /\ Held(s, "ack") = 0 /\ Held(s, "push")' = 1 /\ Held(s, "ack")' = 0 /\ NacksEach' = NacksEach
  BY <1>2, <1>4 DEF Held, NacksEach, control
<1>7. Untouched(s)' /\ Bounded(s)'
  BY <1>1, <1>2, <1>3, <1>4, <1>5, <1>6, ConstantsAssumption DEF StreamInv, Untouched, Bounded, CountersTyped
<1>8. NothingAdmitted(s)'
  BY <1>2, <1>3 DEF NothingAdmitted, Admitted, control
<1>9. Exact(s)' /\ Batched(s)'
  BY <1>1, <1>2, <1>3, <1>4, <1>5, <1>6 DEF StreamInv, Exact, Batched, CountersTyped, control
<1>10. \A t \in Streams : t # s => Still(t)
  BY <1>1, <1>2, <1>3, <1>4 DEF Still
<1>11. received'[s] >= received[s] /\ received'[s] > received[s]
  BY <1>1, <1>2 DEF CountersTyped
<1> QED BY <1>2, <1>4, <1>5, <1>7, <1>8, <1>9, <1>10, <1>11, HandlerKeeps DEF StreamInv

\* The counters of the other streams.
OthersKept(s) ==
    \A t \in Streams : t # s =>
        /\ batchOK'[t] = batchOK[t] /\ batchErr'[t] = batchErr[t] /\ batchSeen'[t] = batchSeen[t]
        /\ ackedOK'[t] = ackedOK[t] /\ ackedErr'[t] = ackedErr[t] /\ nacked'[t] = nacked[t]
AcksTyped ==
    /\ batchOK \in [Streams -> Nat] /\ batchErr \in [Streams -> Nat] /\ batchSeen \in [Streams -> Nat]
    /\ ackedOK \in [Streams -> Nat] /\ ackedErr \in [Streams -> Nat] /\ nacked \in [Streams -> Nat]

\* The three ways to report a payload, by mode: at once, with its batch or not at all.
ReportedEach(s, ok, err) ==
    /\ ackMode[s] = "each" /\ ackedOK'[s] = ackedOK[s] + ok /\ nacked'[s] = nacked[s] + err
    /\ batchOK'[s] = batchOK[s] /\ batchErr'[s] = batchErr[s] /\ batchSeen'[s] = batchSeen[s]
    /\ ackedErr'[s] = ackedErr[s]
ReportedBatch(s, ok, err) ==
    /\ ackMode[s] = "batch" /\ nacked'[s] = nacked[s]
    /\ \/ /\ batchOK'[s] = 0 /\ batchErr'[s] = 0 /\ batchSeen'[s] = 0
          /\ ackedOK'[s] = ackedOK[s] + batchOK[s] + ok /\ ackedErr'[s] = ackedErr[s] + batchErr[s] + err
       \/ /\ batchOK'[s] = batchOK[s] + ok /\ batchErr'[s] = batchErr[s] + err
          /\ batchSeen'[s] = batchSeen[s] + 1 /\ batchSeen[s] + 1 < ackEveryN[s]
          /\ ackedOK'[s] = ackedOK[s] /\ ackedErr'[s] = ackedErr[s]
ReportedNone(s) ==
    /\ ackMode[s] = "none" /\ nacked'[s] = nacked[s]
    /\ batchOK'[s] = batchOK[s] /\ batchErr'[s] = batchErr[s] /\ batchSeen'[s] = batchSeen[s]
    /\ ackedOK'[s] = ackedOK[s] /\ ackedErr'[s] = ackedErr[s]

LEMMA AckFacts ==
    ASSUME CountersTyped, NEW s \in Streams, Batched(s), NEW ok \in {0, 1}, NEW err \in {0, 1}, ok + err = 1,
           Acknowledge(s, ok, err)
    PROVE  /\ AcksTyped' /\ OthersKept(s) /\ (GoTo(s, "recv") \/ GoTo(s, "failed"))
           /\ ReportedEach(s, ok, err) \/ ReportedBatch(s, ok, err) \/ ReportedNone(s)
<1> USE DEF batch, acks, AcksTyped, OthersKept
<1>1. CASE ackMode[s] = "each"
  <2>1. /\ ackedOK' = [ackedOK EXCEPT ![s] = @ + ok] /\ nacked' = [nacked EXCEPT ![s] = @ + err]
        /\ GoTo(s, "recv") \/ GoTo(s, "failed")
        /\ UNCHANGED <<batchOK, batchErr, batchSeen, ackedErr>>
    BY <1>1 DEF Acknowledge
  <2> QED BY <1>1, <2>1 DEF CountersTyped, ReportedEach
<1>2. CASE ackMode[s] = "batch"
  <2>1. CountInBatch(s, ok, err) /\ GoTo(s, "recv") /\ nacked' = nacked /\ batchSeen[s] < ackEveryN[s]
    BY <1>2 DEF Acknowledge, Batched
  <2>2. /\ batchOK' \in [Streams -> Nat] /\ batchErr' \in [Streams -> Nat] /\ batchSeen' \in [Streams -> Nat]
        /\ ackedOK' \in [Streams -> Nat] /\ ackedErr' \in [Streams -> Nat]
        /\ \A t \in Streams : t # s =>
             /\ batchOK'[t] = batchOK[t] /\ batchErr'[t] = batchErr[t] /\ batchSeen'[t] = batchSeen[t]
             /\ ackedOK'[t] = ackedOK[t] /\ ackedErr'[t] = ackedErr[t]
        /\ ReportedBatch(s, ok, err)
    BY <1>2, <2>1, CountFacts DEF ReportedBatch
  <2> QED BY <2>1, <2>2 DEF CountersTyped
<1>3. CASE ackMode[s] = "none"
  <2>1. UNCHANGED <<batchOK, batchErr, batchSeen, ackedOK, ackedErr, nacked>> /\ GoTo(s, "recv")
    BY <1>3 DEF Acknowledge
  <2> QED BY <1>3, <2>1 DEF CountersTyped, ReportedNone
<1> QED BY <1>1, <1>2, <1>3 DEF CountersTyped, AckModes

\* A payload that cannot be unwrapped, of a gRPC or QUIC stream.
LEMMA UnwrapFails1 ==
    ASSUME RelayInv, NEW s \in Streams, NEW h \in Headers, UnwrapFails(s, h), transport \in {"grpc", "quic"}
    PROVE  RelayInv'
<1>1. /\ AtTyped /\ CountersTyped /\ StreamInv(s) /\ s \in Goroutines /\ \A t \in Streams : t \in Goroutines
  BY DEF RelayInv, Goroutines
<1>2. /\ UNCHANGED <<channel, fanState, control, ackMode, ackEveryN, pushed, crashed>>
      /\ at[s] = "recv" /\ received[s] < MaxPayloads
      /\ received' \in [Streams -> Nat] /\ received'[s] = received[s] + 1
      /\ \A t \in Streams : t # s => received'[t] = received[t] /\ validated'[t] = validated[t]
      /\ ValidTyped' /\ (validated'[s] <=> validated[s] \/ h = "valid")
  BY ReadFacts DEF UnwrapFails
<1>3. /\ AcksTyped' /\ OthersKept(s) /\ (GoTo(s, "recv") \/ GoTo(s, "failed"))
      /\ ReportedEach(s, 0, 1) \/ ReportedBatch(s, 0, 1) \/ ReportedNone(s)
  <2>1. Acknowledge(s, 0, 1) /\ Batched(s)
    BY <1>1 DEF UnwrapFails, StreamInv
  <2> QED BY <1>1, <2>1, AckFacts
<1>4. AtTyped' /\ at'[s] \in {"recv", "failed"} /\ \A t \in Goroutines : t # s => at'[t] = at[t]
  BY <1>1, <1>3, PlaceMoves DEF Places
<1>5. CountersTyped'
  BY <1>1, <1>2, <1>3 DEF CountersTyped, AcksTyped
<1>6. Held(s, "push") = 0 /\ Held(s, "ack") = 0 /\ Held(s, "push")' = 0 /\ Held(s, "ack")' = 0 /\ ~NacksEach' /\ ~NacksEach
  BY <1>2, <1>4 DEF Held, NacksEach, control
<1>7. NothingAdmitted(s)'
  BY <1>2 DEF NothingAdmitted, Admitted, UnwrapFails, control
<1>8. Untouched(s)' /\ Bounded(s)' /\ Exact(s)' /\ Batched(s)'
  <2> USE <1>1, <1>2, <1>4, <1>5, <1>6, ConstantsAssumption DEF StreamInv, Untouched, Bounded, Exact, Batched, CountersTyped
  <2>1. CASE ReportedEach(s, 0, 1)
    BY <2>1 DEF ReportedEach
  <2>2. CASE ReportedBatch(s, 0, 1)
    <3>1. Untouched(s)'
      <4> HIDE DEF Exact, Batched
      <4> QED BY <2>2 DEF ReportedBatch
    <3>4. Bounded(s)'
      <4> HIDE DEF Untouched, Batched
      <4> QED BY <2>2 DEF ReportedBatch
    <3>2. Exact(s)'
      <4> HIDE DEF Untouched, Bounded
      <4> QED BY <2>2 DEF ReportedBatch
    <3>3. Batched(s)'
      <4> HIDE DEF Untouched, Bounded, Exact
      <4> QED BY <2>2 DEF ReportedBatch
    <3> QED BY <3>1, <3>2, <3>3, <3>4
  <2>3. CASE ReportedNone(s)
    BY <2>3 DEF ReportedNone
  <2> QED BY <1>3, <2>1, <2>2, <2>3
<1>9. \A t \in Streams : t # s => Still(t)
  BY <1>1, <1>2, <1>3, <1>4 DEF Still, OthersKept
<1>10. received'[s] >= received[s] /\ at'[s] # "push"
  BY <1>1, <1>2, <1>4 DEF CountersTyped
<1> QED BY <1>2, <1>4, <1>5, <1>7, <1>8, <1>9, <1>10, HandlerKeeps DEF StreamInv

\* The acknowledgement of a payload in DataCh, of a gRPC or QUIC stream.
LEMMA Ack1 ==
    ASSUME RelayInv, NEW s \in Streams, Ack(s), transport \in {"grpc", "quic"}
    PROVE  RelayInv'
<1>1. /\ AtTyped /\ CountersTyped /\ ValidTyped /\ StreamInv(s) /\ s \in Goroutines /\ \A t \in Streams : t \in Goroutines
  BY DEF RelayInv, Goroutines
<1>2. /\ UNCHANGED <<channel, fanState, control, ackMode, ackEveryN, received, pushed, validated, crashed>>
      /\ at[s] = "ack"
  BY DEF Ack, At
<1>3. /\ AcksTyped' /\ OthersKept(s) /\ (GoTo(s, "recv") \/ GoTo(s, "failed"))
      /\ ReportedEach(s, 1, 0) \/ ReportedBatch(s, 1, 0) \/ ReportedNone(s)
  <2>1. Acknowledge(s, 1, 0) /\ Batched(s)
    BY <1>1 DEF Ack, StreamInv
  <2> QED BY <1>1, <2>1, AckFacts
<1>4. AtTyped' /\ at'[s] \in {"recv", "failed"} /\ \A t \in Goroutines : t # s => at'[t] = at[t]
  BY <1>1, <1>3, PlaceMoves DEF Places
<1>5. CountersTyped' /\ ValidTyped'
  BY <1>1, <1>2, <1>3 DEF CountersTyped, AcksTyped, ValidTyped
<1>6. Held(s, "push") = 0 /\ Held(s, "ack") = 1 /\ Held(s, "push")' = 0 /\ Held(s, "ack")' = 0 /\ ~NacksEach' /\ ~NacksEach
  BY <1>2, <1>4 DEF Held, NacksEach, control
<1>7. NothingAdmitted(s)'
  BY <1>1, <1>2 DEF NothingAdmitted, StreamInv, control
<1>8. Untouched(s)' /\ Bounded(s)' /\ Exact(s)' /\ Batched(s)'
  <2> USE <1>1, <1>2, <1>4, <1>5, <1>6, ConstantsAssumption DEF StreamInv, Untouched, Bounded, Exact, Batched, CountersTyped
  <2>1. CASE ReportedEach(s, 1, 0)
    BY <2>1 DEF ReportedEach
  <2>2. CASE ReportedBatch(s, 1, 0)
    <3>1. Untouched(s)'
      <4> HIDE DEF Exact, Batched
      <4> QED BY <2>2 DEF ReportedBatch
    <3>4. Bounded(s)'
      <4> HIDE DEF Untouched, Batched
      <4> QED BY <2>2 DEF ReportedBatch
    <3>2. Exact(s)'
      <4> HIDE DEF Untouched, Bounded
      <4> QED BY <2>2 DEF ReportedBatch
    <3>3. Batched(s)'
      <4> HIDE DEF Untouched, Bounded, Exact
      <4> QED BY <2>2 DEF ReportedBatch
    <3> QED BY <3>1, <3>2, <3>3, <3>4
  <2>3. CASE ReportedNone(s)
    BY <2>3 DEF ReportedNone
  <2> QED BY <1>3, <2>1, <2>2, <2>3
<1>9. \A t \in Streams : t # s => Still(t)
  BY <1>1, <1>2, <1>3, <1>4 DEF Still, OthersKept
<1>10. received'[s] >= received[s] /\ at'[s] # "push"
  BY <1>1, <1>2, <1>4 DEF CountersTyped
<1> QED BY <1>2, <1>4, <1>5, <1>7, <1>8, <1>9, <1>10, HandlerKeeps DEF StreamInv

\* A payload that cannot be unwrapped, of a WebSocket or WebTransport stream.
LEMMA UnwrapFails2 ==
    ASSUME RelayInv, NEW s \in Streams, NEW h \in Headers, UnwrapFails(s, h), transport \notin {"grpc", "quic"}
    PROVE  RelayInv'
<1>1. /\ AtTyped /\ CountersTyped /\ StreamInv(s) /\ s \in Goroutines /\ \A t \in Streams : t \in Goroutines
      /\ RelayTyped
  BY DEF RelayInv, Goroutines
<1>2. /\ UNCHANGED <<channel, fanState, control, ackMode, ackEveryN, pushed, crashed>>
      /\ at[s] = "recv" /\ received[s] < MaxPayloads
      /\ received' \in [Streams -> Nat] /\ received'[s] = received[s] + 1
      /\ \A t \in Streams : t # s => received'[t] = received[t] /\ validated'[t] = validated[t]
      /\ ValidTyped' /\ (validated'[s] <=> validated[s] \/ h = "valid")
  BY ReadFacts DEF UnwrapFails
<1>3. /\ nacked' = [nacked EXCEPT ![s] = @ + 1] /\ batchErr' = [batchErr EXCEPT ![s] = @ + 1] /\ GoTo(s, "recv")
      /\ UNCHANGED <<batchOK, batchSeen, ackedOK, ackedErr>>
  BY DEF UnwrapFails, AcknowledgeError
<1>4. AtTyped' /\ at'[s] = "recv" /\ \A t \in Goroutines : t # s => at'[t] = at[t]
  BY <1>1, <1>3, PlaceMoves DEF Places
<1>5. /\ nacked' \in [Streams -> Nat] /\ batchErr' \in [Streams -> Nat]
      /\ nacked'[s] = nacked[s] + 1 /\ batchErr'[s] = batchErr[s] + 1
      /\ \A t \in Streams : t # s => nacked'[t] = nacked[t] /\ batchErr'[t] = batchErr[t]
  BY <1>1, <1>3 DEF CountersTyped
<1>6. CountersTyped'
  BY <1>1, <1>2, <1>3, <1>5 DEF CountersTyped
<1>7. Held(s, "push") = 0 /\ Held(s, "ack") = 0 /\ Held(s, "push")' = 0 /\ Held(s, "ack")' = 0 /\ NacksEach' /\ NacksEach
  BY <1>1, <1>2, <1>4, ConstantsAssumption DEF Held, NacksEach, control, RelayTyped
<1>8. NothingAdmitted(s)'
  BY <1>2 DEF NothingAdmitted, Admitted, UnwrapFails, control
<1>9. Untouched(s)' /\ Bounded(s)'
  BY <1>1, <1>2, <1>3, <1>4, <1>5, <1>6, <1>7, ConstantsAssumption DEF StreamInv, Untouched, Bounded, CountersTyped
<1>10. Exact(s)' /\ Batched(s)'
  BY <1>1, <1>2, <1>3, <1>4, <1>5, <1>6, <1>7 DEF StreamInv, Exact, Batched, CountersTyped, control
<1>11. \A t \in Streams : t # s => Still(t)
  BY <1>1, <1>2, <1>3, <1>4, <1>5 DEF Still
<1>12. received'[s] >= received[s] /\ at'[s] # "push"
  BY <1>1, <1>2, <1>4 DEF CountersTyped
<1> QED BY <1>2, <1>4, <1>6, <1>8, <1>9, <1>10, <1>11, <1>12, HandlerKeeps DEF StreamInv

\* The acknowledgement of a payload in DataCh, of a WebSocket or WebTransport stream.
LEMMA Ack2 ==
    ASSUME RelayInv, NEW s \in Streams, Ack(s), transport \notin {"grpc", "quic"}
    PROVE  RelayInv'
<1>1. /\ AtTyped /\ CountersTyped /\ ValidTyped /\ StreamInv(s) /\ s \in Goroutines /\ \A t \in Streams : t \in Goroutines
      /\ RelayTyped
  BY DEF RelayInv, Goroutines
<1>2. /\ UNCHANGED <<channel, fanState, control, ackMode, ackEveryN, received, pushed, validated, crashed>>
      /\ at[s] = "ack" /\ AcknowledgeOK(s)
  BY DEF Ack, At
<1>3. GoTo(s, "recv") /\ nacked' = nacked
  BY <1>2 DEF AcknowledgeOK
<1>4. AtTyped' /\ at'[s] = "recv" /\ \A t \in Goroutines : t # s => at'[t] = at[t]
  BY <1>1, <1>3, PlaceMoves DEF Places
<1>5. Held(s, "push") = 0 /\ Held(s, "ack") = 1 /\ Held(s, "push")' = 0 /\ Held(s, "ack")' = 0 /\ NacksEach' /\ NacksEach
  BY <1>1, <1>2, <1>4, ConstantsAssumption DEF Held, NacksEach, control, RelayTyped
<1>6. NothingAdmitted(s)'
  BY <1>1, <1>2 DEF NothingAdmitted, StreamInv, control
<1>7. received'[s] >= received[s] /\ at'[s] # "push" /\ ValidTyped'
  BY <1>1, <1>2, <1>4 DEF CountersTyped, ValidTyped
<1>8. CASE ackMode[s] = "batch"
  <2>1. CountInBatch(s, 1, 0) /\ batchSeen[s] < ackEveryN[s]
    BY <1>1, <1>2, <1>8 DEF AcknowledgeOK, StreamInv, Batched
  <2>2. /\ batchOK' \in [Streams -> Nat] /\ batchErr' \in [Streams -> Nat] /\ batchSeen' \in [Streams -> Nat]
        /\ ackedOK' \in [Streams -> Nat] /\ ackedErr' \in [Streams -> Nat]
        /\ \A t \in Streams : t # s =>
             /\ batchOK'[t] = batchOK[t] /\ batchErr'[t] = batchErr[t] /\ batchSeen'[t] = batchSeen[t]
             /\ ackedOK'[t] = ackedOK[t] /\ ackedErr'[t] = ackedErr[t]
        /\ ReportedBatch(s, 1, 0)
    BY <1>1, <1>3, <1>8, <2>1, CountFacts DEF ReportedBatch
  <2>3. CountersTyped'
    BY <1>1, <1>2, <1>3, <2>2 DEF CountersTyped
  <2>4. Untouched(s)'
    BY <1>1, <1>2, <1>4 DEF StreamInv, Untouched
  <2>5. Bounded(s)'
    BY <1>1, <1>2, <1>3, <1>5, <1>8, <2>2, <2>3, ConstantsAssumption DEF StreamInv, Bounded, Exact, CountersTyped, ReportedBatch
  <2>6. Exact(s)'
    BY <1>1, <1>2, <1>3, <1>4, <1>5, <1>8, <2>2, <2>3 DEF StreamInv, Exact, CountersTyped, ReportedBatch, control
  <2>7. Batched(s)'
    BY <1>1, <1>2, <1>5, <1>8, <2>2, <2>3 DEF StreamInv, Batched, CountersTyped, ReportedBatch
  <2>8. \A t \in Streams : t # s => Still(t)
    BY <1>1, <1>2, <1>3, <1>4, <2>2 DEF Still
  <2> QED BY <1>2, <1>4, <1>6, <1>7, <2>3, <2>4, <2>5, <2>6, <2>7, <2>8, HandlerKeeps DEF StreamInv
<1>9. CASE ackMode[s] # "batch"
  <2>1. /\ batchOK' = [batchOK EXCEPT ![s] = @ + 1] /\ batchSeen' = [batchSeen EXCEPT ![s] = @ + 1]
        /\ ackedOK' = [ackedOK EXCEPT ![s] = IF ackMode[s] = "each" THEN @ + 1 ELSE @]
        /\ UNCHANGED <<batchErr, ackedErr>>
    BY <1>2, <1>9 DEF AcknowledgeOK
  <2>2. /\ batchOK' \in [Streams -> Nat] /\ batchSeen' \in [Streams -> Nat] /\ ackedOK' \in [Streams -> Nat]
        /\ batchOK'[s] = batchOK[s] + 1 /\ batchSeen'[s] = batchSeen[s] + 1
        /\ ackedOK'[s] = IF ackMode[s] = "each" THEN ackedOK[s] + 1 ELSE ackedOK[s]
        /\ \A t \in Streams : t # s =>
             batchOK'[t] = batchOK[t] /\ batchSeen'[t] = batchSeen[t] /\ ackedOK'[t] = ackedOK[t]
    BY <1>1, <2>1 DEF CountersTyped
  <2>3. CountersTyped'
    BY <1>1, <1>2, <1>3, <2>1, <2>2 DEF CountersTyped
  <2>4. Untouched(s)'
    BY <1>1, <1>2, <1>4 DEF StreamInv, Untouched
  <2>5. Bounded(s)'
    BY <1>1, <1>2, <1>3, <1>5, <1>9, <2>1, <2>2, <2>3, ConstantsAssumption DEF StreamInv, Bounded, CountersTyped
  <2>6. Exact(s)' /\ Batched(s)'
    BY <1>1, <1>2, <1>3, <1>4, <1>5, <1>9, <2>1, <2>2, <2>3 DEF StreamInv, Exact, Batched, CountersTyped, control
  <2>8. \A t \in Streams : t # s => Still(t)
    BY <1>1, <1>2, <1>3, <1>4, <2>1, <2>2 DEF Still
  <2> QED BY <1>2, <1>4, <1>6, <1>7, <2>3, <2>4, <2>5, <2>6, <2>8, HandlerKeeps DEF StreamInv
<1> QED BY <1>8, <1>9

LEMMA RefuseKeeps ==
    ASSUME RelayInv, NEW s \in Streams, NEW h \in Headers, RefusePayload(s, h)
    PROVE  RelayInv'
<1> USE DEF batch
<1>1. /\ AtTyped /\ CountersTyped /\ StreamInv(s) /\ s \in Goroutines /\ \A t \in Streams : t \in Goroutines
  BY DEF RelayInv, Goroutines
<1>2. /\ UNCHANGED <<channel, fanState, control, ackMode, ackEveryN, pushed, crashed>>
      /\ at[s] = "recv" /\ received[s] < MaxPayloads
      /\ received' \in [Streams -> Nat] /\ received'[s] = received[s] + 1
      /\ \A t \in Streams : t # s => received'[t] = received[t] /\ validated'[t] = validated[t]
      /\ ValidTyped' /\ (validated'[s] <=> validated[s] \/ h = "valid")
  BY ReadFacts DEF RefusePayload
<1>3. /\ nacked' = [nacked EXCEPT ![s] = @ + 1] /\ GoTo(s, IF transport = "quic" THEN "refused" ELSE "recv")
      /\ UNCHANGED <<batchOK, batchErr, batchSeen, ackedOK, ackedErr>> /\ authRequired /\ ~validated[s]
  BY DEF RefusePayload, Admitted
<1>4. AtTyped' /\ at'[s] \in {"recv", "refused"} /\ \A t \in Goroutines : t # s => at'[t] = at[t]
  BY <1>1, <1>3, PlaceMoves DEF Places
<1>5. nacked' \in [Streams -> Nat] /\ nacked'[s] = nacked[s] + 1 /\ \A t \in Streams : t # s => nacked'[t] = nacked[t]
  BY <1>1, <1>3 DEF CountersTyped
<1>6. CountersTyped'
  BY <1>1, <1>2, <1>3, <1>5 DEF CountersTyped
<1>7. Held(s, "push") = 0 /\ Held(s, "ack") = 0 /\ Held(s, "push")' = 0 /\ Held(s, "ack")' = 0 /\ NacksEach' = NacksEach
  BY <1>2, <1>4 DEF Held, NacksEach, control
<1>8. batchOK[s] = 0 /\ batchErr[s] = 0
  BY <1>1, <1>3 DEF StreamInv, NothingAdmitted
<1>9. NothingAdmitted(s)'
  BY <1>3, <1>4, <1>8 DEF NothingAdmitted
<1>10. Untouched(s)' /\ Bounded(s)'
  BY <1>1, <1>2, <1>3, <1>4, <1>5, <1>6, <1>7, ConstantsAssumption DEF StreamInv, Untouched, Bounded, CountersTyped
<1>11. Exact(s)' /\ Batched(s)'
  <2>1. authRequired'
    BY <1>2, <1>3 DEF control
  <2> QED BY <1>1, <1>2, <1>3, <1>4, <1>5, <1>6, <1>7, <1>8, <2>1 DEF StreamInv, Exact, Batched, CountersTyped
<1>12. \A t \in Streams : t # s => Still(t)
  BY <1>1, <1>2, <1>3, <1>4, <1>5 DEF Still
<1>13. received'[s] >= received[s] /\ at'[s] # "push"
  BY <1>1, <1>2, <1>4 DEF CountersTyped
<1> QED BY <1>2, <1>4, <1>6, <1>9, <1>10, <1>11, <1>12, <1>13, HandlerKeeps DEF StreamInv

\* The end of a handler: its batch is flushed, unless Recv has failed.
LEMMA EndKeeps ==
    ASSUME RelayInv, NEW s \in Streams, StreamEnds(s) \/ RecvFails(s)
    PROVE  RelayInv'
<1> USE DEF acks, batch, streamState
<1>1. /\ AtTyped /\ CountersTyped /\ ValidTyped /\ StreamInv(s) /\ s \in Goroutines /\ \A t \in Streams : t \in Goroutines
  BY DEF RelayInv, Goroutines
<1>2. /\ UNCHANGED <<channel, fanState, control, ackMode, ackEveryN, nacked, received, pushed, validated, crashed>>
      /\ at[s] = "recv" /\ (GoTo(s, "ended") \/ GoTo(s, "failed"))
  BY DEF StreamEnds, RecvFails, At
<1>4. AtTyped' /\ at'[s] \in {"ended", "failed"} /\ \A t \in Goroutines : t # s => at'[t] = at[t]
  BY <1>1, <1>2, PlaceMoves DEF Places
<1>5. Held(s, "push") = 0 /\ Held(s, "ack") = 0 /\ Held(s, "push")' = 0 /\ Held(s, "ack")' = 0 /\ NacksEach' = NacksEach
  BY <1>2, <1>4 DEF Held, NacksEach, control
<1>7. received'[s] >= received[s] /\ at'[s] # "push" /\ ValidTyped'
  BY <1>1, <1>2, <1>4 DEF CountersTyped, ValidTyped
<1>8. CASE /\ ackMode[s] = "batch"
           /\ ackedOK' = [ackedOK EXCEPT ![s] = @ + batchOK[s]] /\ ackedErr' = [ackedErr EXCEPT ![s] = @ + batchErr[s]]
           /\ batchOK' = [batchOK EXCEPT ![s] = 0] /\ batchErr' = [batchErr EXCEPT ![s] = 0]
           /\ batchSeen' = [batchSeen EXCEPT ![s] = 0]
  <2>1. /\ batchOK' \in [Streams -> Nat] /\ batchErr' \in [Streams -> Nat] /\ batchSeen' \in [Streams -> Nat]
        /\ ackedOK' \in [Streams -> Nat] /\ ackedErr' \in [Streams -> Nat]
        /\ \A t \in Streams : t # s =>
             /\ batchOK'[t] = batchOK[t] /\ batchErr'[t] = batchErr[t] /\ batchSeen'[t] = batchSeen[t]
             /\ ackedOK'[t] = ackedOK[t] /\ ackedErr'[t] = ackedErr[t]
        /\ batchOK'[s] = 0 /\ batchErr'[s] = 0 /\ batchSeen'[s] = 0
        /\ ackedOK'[s] = ackedOK[s] + batchOK[s] /\ ackedErr'[s] = ackedErr[s] + batchErr[s]
    BY <1>1, <1>8 DEF CountersTyped
  <2>2. CountersTyped'
    BY <1>1, <1>2, <2>1 DEF CountersTyped
  <2>3. Untouched(s)'
    BY <1>1, <1>2, <1>4, <2>1 DEF StreamInv, Untouched
  <2>4. Bounded(s)'
    BY <1>1, <1>2, <1>5, <1>8, <2>1, <2>2, ConstantsAssumption DEF StreamInv, Bounded, Exact, CountersTyped
  <2>5. NothingAdmitted(s)'
    BY <1>2, <1>4, <2>1 DEF NothingAdmitted
  <2>6. Exact(s)'
    BY <1>1, <1>2, <1>4, <1>5, <1>8, <2>1, <2>2 DEF StreamInv, Exact, CountersTyped, control
  <2>7. Batched(s)'
    BY <1>1, <1>2, <1>5, <1>8, <2>1, <2>2 DEF StreamInv, Batched, CountersTyped
  <2>8. \A t \in Streams : t # s => Still(t)
    BY <1>1, <1>2, <1>4, <2>1 DEF Still
  <2> QED BY <1>2, <1>4, <1>7, <2>2, <2>3, <2>4, <2>5, <2>6, <2>7, <2>8, HandlerKeeps DEF StreamInv
<1>9. CASE /\ UNCHANGED <<batchOK, batchErr, batchSeen, ackedOK, ackedErr>>
           /\ at'[s] = "failed" \/ ackMode[s] # "batch" \/ (batchOK[s] = 0 /\ batchErr[s] = 0)
  <2>2. CountersTyped'
    BY <1>1, <1>2, <1>9 DEF CountersTyped
  <2>3. Untouched(s)' /\ Bounded(s)'
    BY <1>1, <1>2, <1>4, <1>5, <1>9 DEF StreamInv, Untouched, Bounded
  <2>5. NothingAdmitted(s)'
    BY <1>1, <1>2, <1>4, <1>9 DEF NothingAdmitted, StreamInv, control
  <2>6. Exact(s)' /\ Batched(s)'
    BY <1>1, <1>2, <1>4, <1>5, <1>9 DEF StreamInv, Exact, Batched, control
  <2>8. \A t \in Streams : t # s => Still(t)
    BY <1>1, <1>2, <1>4, <1>9 DEF Still
  <2> QED BY <1>2, <1>4, <1>7, <2>2, <2>3, <2>5, <2>6, <2>8, HandlerKeeps DEF StreamInv
<1>10. CASE RecvFails(s)
  <2>1. at'[s] = "failed"
    BY <1>1, <1>10, PlaceMoves DEF RecvFails, Places
  <2> QED BY <1>9, <1>10, <2>1 DEF RecvFails
<1>11. CASE StreamEnds(s)
  <2>1. CASE ackMode[s] # "batch" \/ (batchOK[s] = 0 /\ batchErr[s] = 0)
    <3>1. /\ batchOK' = [batchOK EXCEPT ![s] = batchOK[s]] /\ batchErr' = [batchErr EXCEPT ![s] = batchErr[s]]
          /\ batchSeen' = [batchSeen EXCEPT ![s] = batchSeen[s]] /\ UNCHANGED <<ackedOK, ackedErr>>
      BY <1>11, <2>1 DEF StreamEnds, FlushBatch
    <3>2. UNCHANGED <<batchOK, batchErr, batchSeen>>
      BY <1>1, <3>1 DEF CountersTyped
    <3> QED BY <1>9, <2>1, <3>1, <3>2
  <2>2. CASE ~(ackMode[s] # "batch" \/ (batchOK[s] = 0 /\ batchErr[s] = 0))
    BY <1>8, <1>11, <2>2 DEF StreamEnds, FlushBatch
  <2> QED BY <2>1, <2>2
<1> QED BY <1>10, <1>11

LEMMA PeerKeeps == ASSUME RelayInv, NEW s \in Streams, Peer(s) PROVE RelayInv'
<1>1. ASSUME NEW h \in Headers, UnwrapFails(s, h) PROVE RelayInv'
  BY <1>1, UnwrapFails1, UnwrapFails2
<1>2. ASSUME Payload(s) PROVE RelayInv'
  BY <1>1, <1>2, RecvKeeps, RefuseKeeps DEF Payload
<1>3. ASSUME Opened(s) PROVE RelayInv'
  BY <1>3, OpeningKeeps DEF Opened
<1>4. ASSUME GrpcStreamReceive(s) PROVE RelayInv'
  BY <1>1, <1>4, OpeningKeeps, RecvKeeps, EndKeeps DEF GrpcStreamReceive, Headers
<1>5. ASSUME Accept(s, FALSE) PROVE RelayInv'
  BY <1>5, OpeningKeeps
<1> QED
  BY <1>2, <1>3, <1>4, <1>5, EndKeeps
     DEF Peer, QuicHandleStream, QuicHandlePayload, WsHandleConn, WsHandlePayload, WtHandleStream, WtHandlePayload

-----------------------------------------------------------------------------
(* The channel and the fan-out. *)

\* The places of a stream's payloads when one more payload is given.
PlacesOf(given, s) == {i \in DOMAIN given : given[i][1] = s}

LEMMA AppendPlaces ==
    ASSUME NEW given \in Seq(Payloads), NEW x \in Payloads, NEW s
    PROVE  /\ PlacesOf(Append(given, x), s) = IF x[1] = s THEN PlacesOf(given, s) \cup {Len(given) + 1} ELSE PlacesOf(given, s)
           /\ Len(given) + 1 \notin PlacesOf(given, s)
<1>1. /\ DOMAIN given = 1..Len(given) /\ Len(given) \in Nat
      /\ DOMAIN Append(given, x) = 1..(Len(given) + 1)
      /\ Append(given, x)[Len(given) + 1] = x
      /\ \A i \in 1..Len(given) : Append(given, x)[i] = given[i]
  OBVIOUS
<1>2. \A i : i \in 1..(Len(given) + 1) <=> i \in 1..Len(given) \/ i = Len(given) + 1
  BY <1>1
<1>3. Len(given) + 1 \notin 1..Len(given)
  BY <1>1
<1> DEFINE longer == Append(given, x)
           n == Len(given) + 1
           dom == 1..Len(given)
<1>4. DOMAIN longer = dom \cup {n} /\ longer[n] = x /\ (\A i \in dom : longer[i] = given[i]) /\ n \notin dom /\ DOMAIN given = dom
  BY <1>1, <1>2, <1>3
<1> HIDE DEF longer, n, dom
<1>5. /\ PlacesOf(longer, s) = IF x[1] = s THEN PlacesOf(given, s) \cup {n} ELSE PlacesOf(given, s)
      /\ n \notin PlacesOf(given, s)
  BY <1>4 DEF PlacesOf
<1> QED BY <1>5 DEF longer, n

LEMMA GivenTyped == ASSUME RelayInv PROVE Given \in Seq(Payloads) /\ \A i \in DOMAIN Given : Given[i] \in Payloads /\ Given[i][2] \in Nat
<1>1. Given \in Seq(Payloads)
  BY DEF RelayInv, Given, ChannelInv, FanInv, Fanouts
<1>2. \A p \in Payloads : p[2] \in Nat
  BY ConstantsAssumption DEF Payloads
<1> QED BY <1>1, <1>2

\* Something is put into DataCh.
LEMMA GivenGrows ==
    ASSUME RelayInv, NEW x \in Payloads, dataCh' = Append(dataCh, x), UNCHANGED <<outputs, carried>>
    PROVE  Given' = Append(Given, x)
<1> DEFINE front == outputs \o carried["start"] \o carried["listen"]
<1>1. front \in Seq(Payloads) /\ dataCh \in Seq(Payloads)
  BY DEF RelayInv, ChannelInv, FanInv, Fanouts
<1>2. Given = front \o dataCh /\ Given' = front \o Append(dataCh, x)
  BY DEF Given
<1> HIDE DEF front
<1>3. front \o Append(dataCh, x) = Append(front \o dataCh, x)
  BY <1>1
<1> QED BY <1>2, <1>3

LEMMA PushKeeps == ASSUME RelayInv, NEW s \in Streams, Push(s) PROVE RelayInv'
<1> USE DEF acks, batch, fanState, control
<1> DEFINE x == <<s, received[s]>>
<1>1. /\ AtTyped /\ CountersTyped /\ ValidTyped /\ StreamInv(s) /\ s \in Goroutines /\ \A t \in Streams : t \in Goroutines
  BY DEF RelayInv, Goroutines
<1>2. /\ UNCHANGED <<closed, cancelled, fanState, control, ackMode, ackEveryN, acks, received, validated, crashed>>
      /\ at[s] = "push" /\ GoTo(s, "ack") /\ dataCh' = Append(dataCh, x) /\ Len(dataCh) < DataBuf
      /\ pushed' = [pushed EXCEPT ![s] = @ + 1]
  BY DEF Push, At, Room
<1>3. received[s] \in Nat /\ received[s] # 0 /\ received[s] <= MaxPayloads
  BY <1>1, <1>2 DEF CountersTyped, StreamInv, Untouched, Bounded
<1>4. x \in Payloads
  BY <1>1, <1>3, ConstantsAssumption DEF Payloads
<1>5. AtTyped' /\ at'[s] = "ack" /\ \A t \in Goroutines : t # s => at'[t] = at[t]
  BY <1>1, <1>2, PlaceMoves DEF Places
<1>6. pushed' \in [Streams -> Nat] /\ pushed'[s] = pushed[s] + 1 /\ \A t \in Streams : t # s => pushed'[t] = pushed[t]
  BY <1>1, <1>2 DEF CountersTyped
<1>7. CountersTyped' /\ ValidTyped'
  BY <1>1, <1>2, <1>6 DEF CountersTyped, ValidTyped
<1>8. RelayTyped' /\ FanInv'
  BY ZenonT(40), <1>2 DEF RelayInv, RelayTyped, FanInv
<1>9. ChannelInv'
  <2>1. dataCh \in Seq(Payloads) /\ outputs \in Seq(Payloads)
    BY DEF RelayInv, ChannelInv
  <2>2. Append(dataCh, x) \in Seq(Payloads) /\ Len(Append(dataCh, x)) = Len(dataCh) + 1 /\ Len(dataCh) \in Nat
    BY <1>4, <2>1
  <2> QED BY <1>2, <2>1, <2>2, ConstantsAssumption DEF ChannelInv
<1>10. Held(s, "push") = 1 /\ Held(s, "ack") = 0 /\ Held(s, "push")' = 0 /\ Held(s, "ack")' = 1 /\ NacksEach' = NacksEach
  BY <1>2, <1>5 DEF Held, NacksEach
<1>17. /\ UNCHANGED <<batchOK, batchErr, batchSeen, ackedOK, ackedErr, nacked, received, ackMode, ackEveryN>>
       /\ authRequired' = authRequired
  BY <1>2
<1>11. Untouched(s)'
  BY <1>3, <1>5, <1>17 DEF Untouched
<1>18. Bounded(s)'
  BY <1>1, <1>3, <1>6, <1>10, <1>17 DEF StreamInv, Bounded, CountersTyped
<1>12. NothingAdmitted(s)'
  BY <1>1, <1>2 DEF NothingAdmitted, StreamInv
<1>13. Exact(s)'
  BY <1>1, <1>5, <1>6, <1>10, <1>17 DEF StreamInv, Exact, CountersTyped
<1>19. Batched(s)'
  BY <1>1, <1>10, <1>17 DEF StreamInv, Batched
<1>14. \A t \in Streams : StreamInv(t)'
  <2> SUFFICES ASSUME NEW t \in Streams, t # s PROVE StreamInv(t)'
    BY <1>11, <1>12, <1>13, <1>18, <1>19 DEF StreamInv
  <2>1. StreamInv(t) /\ Still(t) /\ transport' = transport /\ authRequired' = authRequired
    BY <1>1, <1>2, <1>5, <1>6 DEF RelayInv, Still
  <2> QED BY <2>1, StillKeeps
<1>15. Given' = Append(Given, x) /\ Given \in Seq(Payloads) /\ \A i \in DOMAIN Given : Given[i][2] \in Nat
  BY <1>2, <1>4, GivenGrows, GivenTyped
<1>16. Ordered(Given)'
  <2> SUFFICES ASSUME NEW t \in Streams
               PROVE  /\ IsFiniteSet(PlacesOf(Given', t)) /\ Cardinality(PlacesOf(Given', t)) = pushed'[t]
                      /\ \A i \in PlacesOf(Given', t) :
                           Given'[i][2] <= received'[t] /\ (at'[t] = "push" => Given'[i][2] < received'[t])
                      /\ \A i, j \in PlacesOf(Given', t) : i < j => Given'[i][2] < Given'[j][2]
    BY DEF Ordered, PlacesOf
  <2>1. /\ IsFiniteSet(PlacesOf(Given, t)) /\ Cardinality(PlacesOf(Given, t)) = pushed[t]
        /\ \A i \in PlacesOf(Given, t) :
             Given[i][2] <= received[t] /\ (at[t] = "push" => Given[i][2] < received[t])
        /\ \A i, j \in PlacesOf(Given, t) : i < j => Given[i][2] < Given[j][2]
    BY DEF RelayInv, Ordered, PlacesOf
  <2>2. /\ PlacesOf(Given', t) = IF x[1] = t THEN PlacesOf(Given, t) \cup {Len(Given) + 1} ELSE PlacesOf(Given, t)
        /\ Len(Given) + 1 \notin PlacesOf(Given, t)
    BY <1>4, <1>15, AppendPlaces
  <2>3. \A i \in PlacesOf(Given, t) : i \in Nat /\ i < Len(Given) + 1 /\ Given'[i] = Given[i] /\ Given[i][2] \in Nat
    BY <1>15, <1>4 DEF PlacesOf
  <2>4. Given'[Len(Given) + 1] = x /\ Len(Given) \in Nat /\ x[1] = s /\ x[2] = received[s]
    BY <1>15, <1>4
  <2> HIDE DEF x
  <2>5. CASE t = s
    <3>1. PlacesOf(Given', t) = PlacesOf(Given, t) \cup {Len(Given) + 1}
      BY <2>2, <2>4, <2>5
    <3>2. IsFiniteSet(PlacesOf(Given', t)) /\ Cardinality(PlacesOf(Given', t)) = pushed'[t]
      BY <1>6, <2>1, <2>2, <2>5, <3>1, FS_AddElement
    <3>3. received'[t] = received[s] /\ at'[t] = "ack" /\ at[t] = "push"
      BY <1>2, <1>5, <2>5
    <3>4. \A i \in PlacesOf(Given', t) : Given'[i][2] <= received'[t]
      BY <1>3, <2>1, <2>3, <2>4, <2>5, <3>1, <3>3
    <3>5. ASSUME NEW i \in PlacesOf(Given', t), NEW j \in PlacesOf(Given', t), i < j PROVE Given'[i][2] < Given'[j][2]
      <4>1. i \in PlacesOf(Given, t)
        BY <3>1, <3>5, <2>3, <2>4
      <4>2. CASE j \in PlacesOf(Given, t)
        BY <2>1, <2>3, <3>5, <4>1, <4>2
      <4>3. CASE j = Len(Given) + 1
        BY <2>1, <2>3, <2>4, <2>5, <3>3, <4>1, <4>3
      <4> QED BY <3>1, <4>2, <4>3
    <3> QED BY <3>2, <3>3, <3>4, <3>5
  <2>6. CASE t # s
    <3>1. PlacesOf(Given', t) = PlacesOf(Given, t) /\ received'[t] = received[t] /\ at'[t] = at[t] /\ pushed'[t] = pushed[t]
      BY <1>1, <1>2, <1>5, <1>6, <2>2, <2>4, <2>6
    <3> QED BY <2>1, <2>3, <3>1
  <2> QED BY <2>5, <2>6
<1> QED BY <1>5, <1>7, <1>8, <1>9, <1>14, <1>16 DEF RelayInv

\* A step that is none of a stream's.
LEMMA ElsewhereKeeps ==
    ASSUME RelayInv, UNCHANGED <<streamState, transport, authRequired>>, \A t \in Streams : at'[t] = at[t],
           RelayTyped', AtTyped', FanInv', ChannelInv',
           Given' = Given \/ \E x \in Payloads : x[1] \notin Streams /\ Given' = Append(Given, x)
    PROVE  RelayInv'
<1> USE DEF streamState, acks, batch
<1>1. CountersTyped' /\ ValidTyped'
  BY DEF RelayInv, CountersTyped, ValidTyped
<1>2. \A t \in Streams : StreamInv(t)'
  <2> SUFFICES ASSUME NEW t \in Streams PROVE StreamInv(t)'
    OBVIOUS
  <2>1. StreamInv(t) /\ Still(t) /\ transport' = transport /\ authRequired' = authRequired
    BY DEF RelayInv, Still
  <2> QED BY <2>1, StillKeeps
<1>3. Ordered(Given)'
  <2> SUFFICES ASSUME NEW t \in Streams
               PROVE  /\ IsFiniteSet(PlacesOf(Given', t)) /\ Cardinality(PlacesOf(Given', t)) = pushed'[t]
                      /\ \A i \in PlacesOf(Given', t) :
                           Given'[i][2] <= received'[t] /\ (at'[t] = "push" => Given'[i][2] < received'[t])
                      /\ \A i, j \in PlacesOf(Given', t) : i < j => Given'[i][2] < Given'[j][2]
    BY DEF Ordered, PlacesOf
  <2>1. /\ IsFiniteSet(PlacesOf(Given, t)) /\ Cardinality(PlacesOf(Given, t)) = pushed[t]
        /\ \A i \in PlacesOf(Given, t) :
             Given[i][2] <= received[t] /\ (at[t] = "push" => Given[i][2] < received[t])
        /\ \A i, j \in PlacesOf(Given, t) : i < j => Given[i][2] < Given[j][2]
    BY DEF RelayInv, Ordered, PlacesOf
  <2>2. PlacesOf(Given', t) = PlacesOf(Given, t) /\ \A i \in PlacesOf(Given, t) : Given'[i] = Given[i]
    <3>1. CASE Given' = Given
      BY <3>1
    <3>2. ASSUME NEW x \in Payloads, x[1] \notin Streams, Given' = Append(Given, x)
          PROVE  PlacesOf(Given', t) = PlacesOf(Given, t) /\ \A i \in PlacesOf(Given, t) : Given'[i] = Given[i]
      <4>1. Given \in Seq(Payloads)
        BY GivenTyped
      <4>2. PlacesOf(Given', t) = PlacesOf(Given, t)
        BY <3>2, <4>1, AppendPlaces
      <4>3. \A i \in DOMAIN Given : Append(Given, x)[i] = Given[i]
        BY <3>2, <4>1
      <4> QED BY <3>2, <4>2, <4>3 DEF PlacesOf
    <3> QED BY <3>1, <3>2
  <2>3. received'[t] = received[t] /\ at'[t] = at[t] /\ pushed'[t] = pushed[t]
    OBVIOUS
  <2> QED BY <2>1, <2>2, <2>3
<1> QED BY <1>1, <1>2, <1>3 DEF RelayInv

\* The fan-out passes on what DataCh holds.
LEMMA FanMoves ==
    ASSUME NEW o \in Seq(Payloads), NEW d \in Seq(Payloads), d # << >>
    PROVE  /\ o \o <<Head(d)>> \o << >> \o Tail(d) = o \o << >> \o << >> \o d
           /\ o \o << >> \o <<Head(d)>> \o Tail(d) = o \o << >> \o << >> \o d
  OBVIOUS

LEMMA FanSubmits ==
    ASSUME NEW o \in Seq(Payloads), NEW c \in Seq(Payloads), NEW d \in Seq(Payloads)
    PROVE  /\ (o \o c) \o << >> \o << >> \o d = o \o c \o << >> \o d
           /\ (o \o c) \o << >> \o << >> \o d = o \o << >> \o c \o d
  OBVIOUS

LEMMA FanKeeps == ASSUME RelayInv, NEW f \in Fanouts, FanStep(f) PROVE RelayInv'
<1> USE DEF channel, control
<1>1. RelayTyped /\ AtTyped /\ FanInv /\ ChannelInv
  BY DEF RelayInv
<1>2. /\ \A g \in Fanouts : fan[g] # "submit" => carried[g] = << >>
      /\ carried["start"] \in Seq(Payloads) /\ carried["listen"] \in Seq(Payloads)
      /\ dataCh \in Seq(Payloads) /\ outputs \in Seq(Payloads)
  BY <1>1 DEF FanInv, ChannelInv, Fanouts
<1>3. CASE FanTake(f)
  <2>1. /\ fan[f] = "range" /\ dataCh # << >> /\ carried' = [carried EXCEPT ![f] = <<Head(dataCh)>>]
        /\ dataCh' = Tail(dataCh) /\ fan' = [fan EXCEPT ![f] = "submit"]
        /\ UNCHANGED <<closed, cancelled, once, outputs, control, at, streamState, crashed>>
    BY <1>3 DEF FanTake
  <2>2. RelayTyped' /\ AtTyped'
    BY <1>1, <2>1 DEF RelayTyped, AtTyped
  <2>3. Head(dataCh) \in Payloads /\ Tail(dataCh) \in Seq(Payloads) /\ Len(Tail(dataCh)) <= DataBuf
    BY <1>1, <1>2, <2>1, ConstantsAssumption DEF ChannelInv
  <2>4. ChannelInv'
    BY <1>2, <2>1, <2>3 DEF ChannelInv
  <2>5. FanInv'
    <3>1. <<Head(dataCh)>> \in Seq(Payloads) /\ Len(<<Head(dataCh)>>) = 1
      BY <2>3
    <3> DEFINE one == <<Head(dataCh)>>
    <3>2. one \in Seq(Payloads) /\ Len(one) = 1 /\ carried' = [carried EXCEPT ![f] = one]
      BY <2>1, <3>1
    <3> HIDE DEF one
    <3> QED BY <1>1, <2>1, <3>2 DEF FanInv, Fanouts
  <2>6. Given' = Given
    <3>1. CASE f = "start"
      <4>1. carried["start"] = << >> /\ carried["listen"] = << >> /\ carried'["start"] = <<Head(dataCh)>> /\ carried'["listen"] = << >>
        BY <1>1, <1>2, <2>1, <3>1 DEF FanInv, Fanouts
      <4> QED BY <1>2, <2>1, <4>1, FanMoves DEF Given
    <3>2. CASE f = "listen"
      <4>1. carried["start"] = << >> /\ carried["listen"] = << >> /\ carried'["listen"] = <<Head(dataCh)>> /\ carried'["start"] = << >>
        BY <1>1, <1>2, <2>1, <3>2 DEF FanInv, Fanouts
      <4> QED BY <1>2, <2>1, <4>1, FanMoves DEF Given
    <3> QED BY <3>1, <3>2 DEF Fanouts
  <2> QED BY <2>1, <2>2, <2>4, <2>5, <2>6, ElsewhereKeeps
<1>4. CASE FanSubmit(f)
  <2>1. /\ fan[f] = "submit" /\ carried' = [carried EXCEPT ![f] = << >>]
        /\ outputs' = outputs \o carried[f] /\ fan' = [fan EXCEPT ![f] = "range"]
        /\ UNCHANGED <<dataCh, closed, cancelled, once, control, at, streamState, crashed>>
    BY <1>4 DEF FanSubmit
  <2>2. RelayTyped' /\ AtTyped'
    BY <1>1, <2>1 DEF RelayTyped, AtTyped
  <2>4. ChannelInv'
    <3>1. carried[f] \in Seq(Payloads)
      BY <1>2 DEF Fanouts
    <3> QED BY <1>1, <1>2, <2>1, <3>1 DEF ChannelInv
  <2>5. FanInv'
    <3>1. << >> \in Seq(Payloads)
      OBVIOUS
    <3> QED BY <1>1, <2>1, <3>1 DEF FanInv, Fanouts
  <2>6. Given' = Given
    <3>1. CASE f = "start"
      <4>1. carried["listen"] = << >> /\ carried'["start"] = << >> /\ carried'["listen"] = << >>
        BY <1>1, <1>2, <2>1, <3>1 DEF FanInv, Fanouts
      <4>2. Given' = (outputs \o carried["start"]) \o << >> \o << >> \o dataCh
        BY <2>1, <3>1, <4>1 DEF Given
      <4>3. Given = outputs \o carried["start"] \o << >> \o dataCh
        BY <4>1 DEF Given
      <4> QED BY <1>2, <4>2, <4>3, FanSubmits
    <3>2. CASE f = "listen"
      <4>1. carried["start"] = << >> /\ carried'["listen"] = << >> /\ carried'["start"] = << >>
        BY <1>1, <1>2, <2>1, <3>2 DEF FanInv, Fanouts
      <4>2. Given' = (outputs \o carried["listen"]) \o << >> \o << >> \o dataCh
        BY <2>1, <3>2, <4>1 DEF Given
      <4>3. Given = outputs \o << >> \o carried["listen"] \o dataCh
        BY <4>1 DEF Given
      <4> QED BY <1>2, <4>2, <4>3, FanSubmits
    <3> QED BY <3>1, <3>2 DEF Fanouts
  <2> QED BY <2>1, <2>2, <2>4, <2>5, <2>6, ElsewhereKeeps
<1>5. CASE FanEnds(f)
  <2>1. /\ fan[f] = "range" /\ fan' = [fan EXCEPT ![f] = "off"]
        /\ UNCHANGED <<dataCh, closed, cancelled, once, carried, outputs, control, at, streamState, crashed>>
    BY <1>5 DEF FanEnds
  <2>2. RelayTyped' /\ AtTyped' /\ ChannelInv' /\ Given' = Given
    BY <1>1, <2>1 DEF RelayTyped, AtTyped, ChannelInv, Given
  <2>3. FanInv'
    BY <1>1, <2>1 DEF FanInv, Fanouts
  <2> QED BY <2>1, <2>2, <2>3, ElsewhereKeeps
<1> QED BY <1>3, <1>4, <1>5 DEF FanStep

LEMMA UnaryKeeps ==
    ASSUME RelayInv, NEW u \in Unaries, GrpcReceive(u) \/ WtHandleDatagrams(u) \/ UnaryStep(u)
    PROVE  RelayInv'
<1> USE DEF channel, control, fanState
<1>1. /\ RelayTyped /\ AtTyped /\ FanInv /\ ChannelInv /\ u \in Goroutines /\ u \notin Streams
      /\ \A t \in Streams : t \in Goroutines
  BY ConstantsAssumption DEF RelayInv, Goroutines
<1>2. ASSUME NEW p \in Places, GoTo(u, p), UNCHANGED <<channel, fanState, control, streamState, crashed>> PROVE RelayInv'
  <2>1. AtTyped' /\ \A t \in Streams : at'[t] = at[t]
    BY <1>1, <1>2, PlaceMoves
  <2>2. RelayTyped' /\ FanInv' /\ ChannelInv' /\ Given' = Given
    BY ZenonT(40), <1>1, <1>2 DEF RelayTyped, FanInv, ChannelInv, Given
  <2> QED BY <1>2, <2>1, <2>2, ElsewhereKeeps
<1>3. CASE UnaryPush(u)
  <2> DEFINE x == <<u, 1>>
  <2>1. /\ dataCh' = Append(dataCh, x) /\ Len(dataCh) < DataBuf /\ GoTo(u, "ended")
        /\ UNCHANGED <<closed, cancelled, fanState, control, streamState, crashed>>
    BY <1>3 DEF UnaryPush, Room
  <2>2. x \in Payloads /\ x[1] \notin Streams
    BY <1>1, ConstantsAssumption DEF Payloads
  <2> HIDE DEF x
  <2>3. AtTyped' /\ \A t \in Streams : at'[t] = at[t]
    BY <1>1, <2>1, PlaceMoves DEF Places
  <2>4. RelayTyped' /\ FanInv'
    BY ZenonT(40), <1>1, <2>1 DEF RelayTyped, FanInv
  <2>5. ChannelInv'
    <3>1. dataCh \in Seq(Payloads) /\ outputs \in Seq(Payloads)
      BY <1>1 DEF ChannelInv
    <3>2. Append(dataCh, x) \in Seq(Payloads) /\ Len(Append(dataCh, x)) = Len(dataCh) + 1 /\ Len(dataCh) \in Nat
      BY <2>2, <3>1
    <3> QED BY <2>1, <3>1, <3>2, ConstantsAssumption DEF ChannelInv
  <2>6. Given' = Append(Given, x)
    BY <2>1, <2>2, GivenGrows
  <2> QED BY <2>1, <2>2, <2>3, <2>4, <2>5, <2>6, ElsewhereKeeps
<1>4. CASE UnaryPanics(u)
  <2>1. /\ crashed' = "send on closed channel" /\ UNCHANGED <<channel, fanState, control, at, streamState>>
    BY <1>4 DEF UnaryPanics, Panic
  <2>2. RelayTyped' /\ AtTyped' /\ FanInv' /\ ChannelInv' /\ Given' = Given
    BY <1>1, <2>1 DEF RelayTyped, AtTyped, FanInv, ChannelInv, Given
  <2> QED BY <2>1, <2>2, ElsewhereKeeps
<1> QED
  BY <1>2, <1>3, <1>4
     DEF GrpcReceive, WtHandleDatagrams, BeginReceive, UnaryStep, UnaryUnwrapFails, UnaryCancelled, Places

\* Start, Listen and Stop.
LEMMA ControlKeeps ==
    ASSUME RelayInv, Start \/ Listen \/ Serve \/ Stop \/ StopStep
    PROVE  RelayInv'
<1> USE DEF channel, control
<1>1. RelayTyped /\ AtTyped /\ FanInv /\ ChannelInv
  BY DEF RelayInv
<1>2. ASSUME NEW f \in Fanouts, StartOutputFanout(f) PROVE FanInv' /\ UNCHANGED <<carried, outputs>>
  <2>1. CASE once
    BY <1>1, <1>2, <2>1 DEF StartOutputFanout, FanInv
  <2>2. CASE ~once
    BY <1>1, <1>2, <2>2 DEF StartOutputFanout, FanInv, Fanouts
  <2> QED BY <2>1, <2>2
<1>3. ASSUME UNCHANGED <<dataCh, outputs, carried, at, streamState, transport, authRequired>>, RelayTyped', FanInv'
      PROVE  RelayInv'
  <2>1. AtTyped' /\ ChannelInv' /\ Given' = Given
    BY <1>1, <1>3 DEF AtTyped, ChannelInv, Given
  <2> QED BY <1>3, <2>1, ElsewhereKeeps
<1>4. CASE Start
  <2>1. /\ UNCHANGED <<dataCh, closed, cancelled, transport, authRequired, listening, stopping, at, streamState, crashed>>
        /\ StartOutputFanout("start") /\ starting' = "listen" /\ isRunning' = TRUE
    BY <1>4 DEF Start
  <2>2. RelayTyped' /\ FanInv' /\ UNCHANGED <<carried, outputs>>
    BY <1>1, <1>2, <2>1 DEF RelayTyped, Fanouts
  <2> QED BY <1>3, <2>1, <2>2
<1>5. CASE Listen
  <2>1. /\ UNCHANGED <<dataCh, closed, cancelled, transport, authRequired, isRunning, stopping, at, streamState, crashed>>
        /\ StartOutputFanout("listen") /\ starting' = "serving" /\ listening' = TRUE
    BY <1>5 DEF Listen, GrpcListen, QuicListen, WsListen, WtListen, Bind
  <2>2. RelayTyped' /\ FanInv' /\ UNCHANGED <<carried, outputs>>
    BY <1>1, <1>2, <2>1 DEF RelayTyped, Fanouts
  <2> QED BY <1>3, <2>1, <2>2
<1>6. ASSUME UNCHANGED <<dataCh, fanState, at, streamState, transport, authRequired>>, RelayTyped' PROVE RelayInv'
  <2>1. FanInv' /\ UNCHANGED <<carried, outputs>>
    BY <1>1, <1>6 DEF FanInv, fanState
  <2> QED BY <1>3, <1>6, <2>1
<1>7. CASE Serve
  <2>1. /\ UNCHANGED <<dataCh, closed, cancelled, fanState, transport, authRequired, isRunning, stopping, at, streamState, crashed>>
        /\ starting' = "listen" /\ listening' \in BOOLEAN
    BY <1>1, <1>7 DEF Serve, QuicAcceptLoop, WsServe, WtServe, ServeReturns, RelayTyped
  <2>2. RelayTyped'
    BY <1>1, <2>1 DEF RelayTyped
  <2> QED BY <1>6, <2>1, <2>2
<1>8. CASE Stop
  <2>1. /\ UNCHANGED <<dataCh, closed, fanState, transport, authRequired, isRunning, listening, starting, at, streamState, crashed>>
        /\ cancelled' = TRUE /\ stopping' \in {"close", "shutdown"}
    BY <1>8 DEF Stop
  <2>2. RelayTyped'
    BY <1>1, <2>1 DEF RelayTyped
  <2> QED BY <1>6, <2>1, <2>2
<1>9. CASE CloseDataCh
  <2>1. /\ UNCHANGED <<dataCh, cancelled, fanState, transport, authRequired, listening, starting, at, streamState>>
        /\ stopping = "close"
    BY <1>9 DEF CloseDataCh
  <2>2. RelayTyped'
    <3>1. CASE closed
      <4>1. crashed' = "close of closed channel" /\ UNCHANGED <<closed, isRunning, stopping>>
        BY <1>9, <3>1 DEF CloseDataCh
      <4> QED BY <1>1, <2>1, <4>1 DEF RelayTyped
    <3>2. CASE ~closed
      <4>1. closed' = TRUE /\ isRunning' = FALSE /\ stopping' = "idle" /\ crashed' = crashed
        BY <1>9, <3>2 DEF CloseDataCh
      <4>2. cancelled
        BY <1>1, <2>1 DEF RelayTyped
      <4> QED BY <1>1, <2>1, <4>1, <4>2 DEF RelayTyped
    <3> QED BY <3>1, <3>2
  <2> QED BY <1>6, <2>1, <2>2
<1>10. CASE ShutDown
  <2>1. /\ UNCHANGED <<dataCh, closed, cancelled, fanState, transport, authRequired, isRunning, starting, at, streamState, crashed>>
        /\ listening' = FALSE /\ stopping = "shutdown" /\ stopping' = "close"
    BY <1>10 DEF ShutDown
  <2>2. RelayTyped'
    BY <1>1, <2>1 DEF RelayTyped
  <2> QED BY <1>6, <2>1, <2>2
<1> QED
  BY <1>4, <1>5, <1>7, <1>8, <1>9, <1>10 DEF StopStep, QuicShutdownListener, WsShutdownServer, WtShutdownServer

LEMMA RelayInvNext == RelayInv /\ [Next]_vars => RelayInv'
<1> SUFFICES ASSUME RelayInv, [Next]_vars PROVE RelayInv'
  OBVIOUS
<1>1. ASSUME NEW s \in Streams, HandlerStep(s) PROVE RelayInv'
  <2>1. CASE PushPanics(s)
    <3>1. crashed' = "send on closed channel" /\ UNCHANGED <<channel, fanState, control, at, streamState>>
      BY <2>1 DEF PushPanics, Panic
    <3>2. RelayTyped' /\ AtTyped' /\ FanInv' /\ ChannelInv' /\ Given' = Given
      BY <3>1 DEF RelayInv, RelayTyped, AtTyped, FanInv, ChannelInv, Given, channel, fanState, control
    <3> QED BY <3>1, <3>2, ElsewhereKeeps DEF control
  <2> QED BY <1>1, <2>1, PushKeeps, Ack1, Ack2 DEF HandlerStep
<1>2. CASE UNCHANGED vars
  <2>1. RelayTyped' /\ AtTyped' /\ FanInv' /\ ChannelInv' /\ Given' = Given
    BY ZenonT(40), <1>2 DEF vars, RelayInv, RelayTyped, AtTyped, FanInv, ChannelInv, Given, channel, fanState, control
  <2> QED BY <1>2, <2>1, ElsewhereKeeps DEF vars, control
<1> QED BY <1>1, <1>2, PeerKeeps, UnaryKeeps, FanKeeps, ControlKeeps DEF Next

LEMMA RelayInvInit == Init => RelayInv
<1> SUFFICES ASSUME Init PROVE RelayInv
  OBVIOUS
<1>1. RelayTyped /\ AtTyped /\ ChannelInv
  <2>1. RelayTyped
    BY DEF Init, RelayTyped
  <2>2. AtTyped
    BY DEF Init, AtTyped, Places
  <2>3. ChannelInv
    <3>1. << >> \in Seq(Payloads) /\ Len(<< >>) = 0
      OBVIOUS
    <3>2. dataCh = << >> /\ outputs = << >>
      BY DEF Init
    <3> QED BY <3>1, <3>2, ConstantsAssumption DEF ChannelInv
  <2> QED BY <2>1, <2>2, <2>3
<1>2. CountersTyped
  BY DEF Init, CountersTyped, AckModes
<1>3. ValidTyped
  BY DEF Init, ValidTyped
<1>4. FanInv
  <2>1. << >> \in Seq(Payloads)
    OBVIOUS
  <2>2. /\ once = FALSE /\ fan = [f \in Fanouts |-> "off"] /\ carried = [f \in Fanouts |-> << >>]
    BY DEF Init
  <2> QED BY <2>1, <2>2 DEF FanInv, Fanouts
<1>5. ASSUME NEW s \in Streams PROVE StreamInv(s)
  <2>1. /\ received[s] = 0 /\ batchOK[s] = 0 /\ batchErr[s] = 0 /\ batchSeen[s] = 0 /\ ackedOK[s] = 0 /\ ackedErr[s] = 0
        /\ nacked[s] = 0 /\ pushed[s] = 0 /\ at[s] = "new" /\ ackMode[s] = "each"
    BY DEF Init, Goroutines
  <2>2. Held(s, "push") = 0 /\ Held(s, "ack") = 0
    BY <2>1 DEF Held
  <2> QED BY <2>1, <2>2, ConstantsAssumption DEF StreamInv, Untouched, Bounded, NothingAdmitted, Exact, Batched
<1>6. Ordered(Given)
  <2>1. Given = << >> \o << >> \o << >> \o << >>
    BY DEF Init, Given, Fanouts
  <2>2. DOMAIN Given = {}
    <3>1. Given = << >>
      BY <2>1
    <3> QED BY <3>1
  <2>3. \A s \in Streams : pushed[s] = 0
    BY DEF Init
  <2>4. IsFiniteSet({}) /\ Cardinality({}) = 0
    BY FS_EmptySet
  <2> QED BY <2>2, <2>3, <2>4 DEF Ordered
<1> QED BY <1>1, <1>2, <1>3, <1>4, <1>5, <1>6 DEF RelayInv

-----------------------------------------------------------------------------

\* Whatever the transport, the acknowledgement mode and the mixture of good, bad and refused
\* payloads on any number of streams, every payload is reported once and on the right side,
\* no regular end leaves a batch unreported, and no batch outgrows AckEveryN.
THEOREM AcksSafe == Spec => []AcksSound
<1>1. RelayInv => AcksSound
  <2> SUFFICES ASSUME RelayInv PROVE AcksSound
    OBVIOUS
  <2>1. AcksExact
    BY DEF RelayInv, StreamInv, Exact, AcksExact
  <2>2. BatchBounded
    BY DEF RelayInv, StreamInv, Batched, BatchBounded
  <2>3. \A x \in {batchOK, batchErr, batchSeen, ackedOK, ackedErr, nacked, received, pushed} :
            x \in [Streams -> 0..MaxPayloads]
    <3>1. ASSUME NEW s \in Streams
          PROVE  /\ batchOK[s] \in 0..MaxPayloads /\ batchErr[s] \in 0..MaxPayloads /\ batchSeen[s] \in 0..MaxPayloads
                 /\ ackedOK[s] \in 0..MaxPayloads /\ ackedErr[s] \in 0..MaxPayloads /\ nacked[s] \in 0..MaxPayloads
                 /\ received[s] \in 0..MaxPayloads /\ pushed[s] \in 0..MaxPayloads
      <4>1. CountersTyped /\ Bounded(s)
        BY DEF RelayInv, StreamInv
      <4>2. Held(s, "push") \in {0, 1} /\ Held(s, "ack") \in {0, 1}
        BY DEF Held
      <4> QED BY <4>1, <4>2, ConstantsAssumption DEF CountersTyped, Bounded
    <3> QED BY <3>1 DEF RelayInv, CountersTyped
  <2>4. \A f \in Fanouts : Len(carried[f]) = IF fan[f] = "submit" THEN 1 ELSE 0
    <3>1. Len(<< >>) = 0
      OBVIOUS
    <3> QED BY <3>1 DEF RelayInv, FanInv
  <2>5. TypeOK
    BY <2>3, <2>4 DEF RelayInv, RelayTyped, AtTyped, CountersTyped, ValidTyped, FanInv, ChannelInv, TypeOK, Places
  <2> QED BY <2>1, <2>2, <2>5 DEF AcksSound
<1> QED BY <1>1, RelayInvInit, RelayInvNext, PTL DEF Spec

\* What any number of streams put into DataCh reaches the outputs exactly once and in the
\* order of each stream, although Start and Listen both start the fan-out.
THEOREM FanoutSafe == Spec => []FanoutOrdered
<1>1. RelayInv => FanoutOrdered
  BY DEF RelayInv, Ordered, FanoutOrdered
<1> QED BY <1>1, RelayInvInit, RelayInvNext, PTL DEF Spec
=============================================================================
