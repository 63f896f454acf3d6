---------------------------- MODULE AdapterProofs ----------------------------
(***************************************************************************)
(* Proofs about the adapters and jacks, for any number of calls, requests,  *)
(* messages and records.                                                    *)
(***************************************************************************)
EXTENDS HTTPServer, WebSocketClient, WebSocketJack, ParquetWriter, Pollers, BatchWriter,
        FiniteSetTheorems, SequenceTheorems, WellFoundedInduction, TLAPS

-----------------------------------------------------------------------------
(* The HTTP jack. *)

HttpTypeOK ==
    /\ httpAt \in [HttpServes -> {"idle", "lock", "serve", "drain", "done"}]
    /\ httpResult \in [HttpServes -> {"", "refused", "failed", "cancelled", "late"}]
    /\ request \in [HttpRequests -> {"out", "handler", "submit", "400", "401", "405", "200", "500", "custom"}]

\* The adapter serves once: the listener of the one call that started is never
\* opened again after it was shut.
ServesOnce ==
    /\ ~httpServer => \A c \in HttpServes : httpAt[c] \notin {"serve", "drain"}
    /\ \A c, d \in HttpServes :
          httpAt[c] \in {"serve", "drain"} /\ httpAt[d] \in {"serve", "drain"} => c = d
    /\ \A c \in HttpServes : httpAt[c] = "drain" => listener = "shut"
    /\ listener = "shut" => httpServer

\* What a Serve that was cancelled in time left.
CancelledQuiet ==
    \A c \in HttpServes : httpResult[c] = "cancelled" => listener = "shut" /\ InHandler = {}

HttpInv == HttpTypeOK /\ ServesOnce /\ CancelledQuiet

LEMMA HttpInvInit == HttpInit => HttpInv
BY DEF HttpInit, HttpInv, HttpTypeOK, ServesOnce, CancelledQuiet

LEMMA HttpInvNext == HttpInv /\ [HttpNext]_httpVars => HttpInv'
<1> SUFFICES ASSUME HttpInv, [HttpNext]_httpVars PROVE HttpInv'
  OBVIOUS
<1> USE DEF HttpInv, HttpTypeOK, ServesOnce, CancelledQuiet, InHandler, Finish_, Reply
<1>1. ASSUME NEW c \in HttpServes, HttpServe(c) PROVE HttpInv'
  BY <1>1 DEF HttpServe
<1>2. ASSUME NEW c \in HttpServes, HttpStarts(c) PROVE HttpInv'
  BY ZenonT(40), <1>2 DEF HttpStarts
<1>3. CASE ListenAndServe
  BY <1>3 DEF ListenAndServe
<1>4. ASSUME NEW c \in HttpServes, HttpServeFails(c) PROVE HttpInv'
  BY <1>4 DEF HttpServeFails
<1>5. ASSUME NEW c \in HttpServes, HttpCancel(c) PROVE HttpInv'
  BY <1>5 DEF HttpCancel
<1>6. ASSUME NEW c \in HttpServes, HttpShutdown(c) PROVE HttpInv'
  BY <1>6 DEF HttpShutdown
<1>7. ASSUME NEW c \in HttpServes, HttpDrained(c) PROVE HttpInv'
  BY ZenonT(40), <1>7 DEF HttpDrained
<1>8. ASSUME NEW r \in HttpRequests, Arrives(r) PROVE HttpInv'
  BY <1>8 DEF Arrives
<1>9. ASSUME NEW r \in HttpRequests, Handle(r) PROVE HttpInv'
  BY <1>9 DEF Handle
<1>10. ASSUME NEW r \in HttpRequests, SubmitAnswers(r) PROVE HttpInv'
  BY <1>10 DEF SubmitAnswers
<1>11. CASE UNCHANGED httpVars
  BY <1>11 DEF httpVars
<1> QED
  BY <1>1, <1>2, <1>3, <1>4, <1>5, <1>6, <1>7, <1>8, <1>9, <1>10, <1>11 DEF HttpNext, HttpCallStep

\* A Serve that came back from a cancelled context in time left no request in the
\* handler, and none arrives later, for any calls of Serve and any requests.
THEOREM DrainSafe == HttpSpec => []DrainedOnShutdown
<1>1. HttpInv => DrainedOnShutdown
  BY DEF HttpInv, CancelledQuiet, DrainedOnShutdown
<1> QED BY <1>1, HttpInvInit, HttpInvNext, PTL DEF HttpSpec

-----------------------------------------------------------------------------
(* The WebSocket client. *)

WsTypeOK ==
    /\ wsCall \in {"serve", "writer", "duplex"} /\ callAt \in {"dial", "wait", "returned"}
    /\ readAt \in {"off", "read", "submit", "ended"}
    /\ writeAt \in {"off", "select", "write", "ended"}
    /\ errCh \in Seq(BOOLEAN) /\ received \in Nat
    /\ firstErr \in BOOLEAN /\ unsent \in BOOLEAN

\* Every loop that was started runs, has its result in the channel, or collected.
ReadRuns == IF readAt \in {"read", "submit"} THEN 1 ELSE 0
WriteRuns == IF writeAt \in {"select", "write"} THEN 1 ELSE 0
LoopsCounted ==
    /\ callAt = "dial" => readAt = "off" /\ writeAt = "off" /\ ~unsent
    /\ callAt # "wait" => ReadRuns = 0 /\ WriteRuns = 0
    /\ callAt = "wait" => ReadRuns + WriteRuns + Len(errCh) + received = Loops
    /\ callAt = "dial" => errCh = << >> /\ received = 0
    /\ callAt = "returned" => errCh = << >>

\* The error of a lost message is on its way to the caller.
Holds(s, e) == \E i \in 1..Len(s) : s[i] = e
LossOnItsWay == unsent => firstErr \/ Holds(errCh, TRUE)

WsInv == WsTypeOK /\ LoopsCounted /\ LossOnItsWay

LEMMA AppendHolds ==
    ASSUME NEW S, NEW s \in Seq(S), NEW e \in S, NEW x \in S
    PROVE  /\ Append(s, e) \in Seq(S) /\ Len(Append(s, e)) = Len(s) + 1 /\ Len(s) \in Nat
           /\ Holds(Append(s, e), x) <=> Holds(s, x) \/ e = x
<1>1. Append(s, e) \in Seq(S) /\ Len(Append(s, e)) = Len(s) + 1 /\ Len(s) \in Nat
  OBVIOUS
<1>2. \A i \in 1..Len(s) : Append(s, e)[i] = s[i]
  OBVIOUS
<1>3. Append(s, e)[Len(s) + 1] = e
  OBVIOUS
<1>4. \A i \in 1..Len(s) + 1 : i \in 1..Len(s) \/ i = Len(s) + 1
  BY <1>1
<1>5. 1..Len(s) \subseteq 1..Len(s) + 1 /\ Len(s) + 1 \in 1..Len(s) + 1
  BY <1>1
<1> QED BY <1>1, <1>2, <1>3, <1>4, <1>5 DEF Holds

LEMMA TailHolds ==
    ASSUME NEW S, NEW s \in Seq(S), s # << >>, NEW x \in S
    PROVE  /\ Tail(s) \in Seq(S) /\ Len(Tail(s)) = Len(s) - 1 /\ Len(s) \in Nat /\ Head(s) \in S
           /\ Holds(s, x) => Head(s) = x \/ Holds(Tail(s), x)
<1>1. Tail(s) \in Seq(S) /\ Len(Tail(s)) = Len(s) - 1 /\ Len(s) \in Nat \ {0} /\ Head(s) \in S
  OBVIOUS
<1>2. \A i \in 1..Len(s) - 1 : Tail(s)[i] = s[i + 1]
  OBVIOUS
<1>3. Head(s) = s[1]
  OBVIOUS
<1>4. \A i \in 1..Len(s) : i = 1 \/ (i - 1 \in 1..Len(s) - 1 /\ s[i] = Tail(s)[i - 1])
  BY <1>1, <1>2
<1> QED BY <1>1, <1>3, <1>4 DEF Holds

LEMMA WsInvInit == WsInit => WsInv
<1> SUFFICES ASSUME WsInit PROVE WsInv
  OBVIOUS
<1>1. firstErr \in BOOLEAN /\ unsent \in BOOLEAN
  BY DEF WsInit
<1>2. WsTypeOK
  BY <1>1 DEF WsInit, WsTypeOK
<1> QED BY <1>2 DEF WsInit, WsInv, LoopsCounted, LossOnItsWay, ReadRuns, WriteRuns

LEMMA WsInvNext == WsInv /\ [WsNext]_wsVars => WsInv'
<1> SUFFICES ASSUME WsInv, [WsNext]_wsVars PROVE WsInv'
  OBVIOUS
<1> USE DEF WsInv
<1>1. CASE Dial
  <2>1. WsTypeOK'
    BY <1>1 DEF Dial, WsTypeOK
  <2>2. LoopsCounted'
    BY <1>1 DEF Dial, WsTypeOK, LoopsCounted, ReadRuns, WriteRuns, Loops
  <2>3. LossOnItsWay'
    BY <1>1 DEF Dial, WsTypeOK, LossOnItsWay
  <2> QED BY <2>1, <2>2, <2>3
<1>2. CASE CallerActs
  <2>1. WsTypeOK'
    BY <1>2 DEF CallerActs, WsTypeOK
  <2>2. LoopsCounted'
    BY <1>2 DEF CallerActs, WsTypeOK, LoopsCounted, ReadRuns, WriteRuns, Loops
  <2>3. LossOnItsWay'
    BY <1>2 DEF CallerActs, WsTypeOK, LossOnItsWay
  <2> QED BY <2>1, <2>2, <2>3
<1>3. CASE PeerActs
  <2>1. WsTypeOK'
    BY <1>3 DEF PeerActs, WsTypeOK
  <2>2. LoopsCounted'
    BY <1>3 DEF PeerActs, WsTypeOK, LoopsCounted, ReadRuns, WriteRuns, Loops
  <2>3. LossOnItsWay'
    BY <1>3 DEF PeerActs, WsTypeOK, LossOnItsWay
  <2> QED BY <2>1, <2>2, <2>3
<1>4. CASE ReadMessage
  <2>1. WsTypeOK'
    BY <1>4 DEF ReadMessage, WsTypeOK
  <2>2. LoopsCounted'
    BY <1>4 DEF ReadMessage, WsTypeOK, LoopsCounted, ReadRuns, WriteRuns, Loops
  <2>3. LossOnItsWay'
    BY <1>4 DEF ReadMessage, WsTypeOK, LossOnItsWay
  <2> QED BY <2>1, <2>2, <2>3
<1>5. CASE SubmitMessage
  <2>1. WsTypeOK'
    BY <1>5 DEF SubmitMessage, WsTypeOK
  <2>2. LoopsCounted'
    BY <1>5 DEF SubmitMessage, WsTypeOK, LoopsCounted, ReadRuns, WriteRuns, Loops
  <2>3. LossOnItsWay'
    BY <1>5 DEF SubmitMessage, WsTypeOK, LossOnItsWay
  <2> QED BY <2>1, <2>2, <2>3
<1>6. CASE ReadLoopEnds
  <2>1. PICK e \in BOOLEAN : errCh' = Append(errCh, e)
    BY <1>6 DEF ReadLoopEnds
  <2>2. errCh' \in Seq(BOOLEAN) /\ Len(errCh') = Len(errCh) + 1 /\ Len(errCh) \in Nat
    BY <2>1, AppendHolds DEF WsTypeOK
  <2>3. Holds(errCh, TRUE) => Holds(errCh', TRUE)
    BY ZenonT(40), <2>1, AppendHolds DEF WsTypeOK
  <2>4. WsTypeOK'
    BY <1>6, <2>2 DEF ReadLoopEnds, WsTypeOK
  <2>5. LoopsCounted'
    <3>1. callAt = "wait" /\ callAt' = callAt /\ wsCall' = wsCall /\ received' = received
      BY <1>6 DEF ReadLoopEnds, WsTypeOK, LoopsCounted, ReadRuns, WriteRuns
    <3>2. ReadRuns' = ReadRuns - 1 /\ WriteRuns' = WriteRuns
      BY <1>6 DEF ReadLoopEnds, ReadRuns, WriteRuns
    <3>3. ReadRuns \in Nat /\ WriteRuns \in Nat
      BY DEF ReadRuns, WriteRuns
    <3>4. received \in Nat /\ Loops' = Loops /\ Loops \in Nat
      BY <3>1 DEF WsTypeOK, Loops
    <3> QED BY <2>2, <3>1, <3>2, <3>3, <3>4 DEF LoopsCounted
  <2>6. LossOnItsWay'
    BY <1>6, <2>3 DEF ReadLoopEnds, LossOnItsWay
  <2> QED BY <2>4, <2>5, <2>6
<1>7. CASE IdleTimeout
  <2>1. PICK e \in BOOLEAN : errCh' = Append(errCh, e)
    BY <1>7 DEF IdleTimeout
  <2>2. errCh' \in Seq(BOOLEAN) /\ Len(errCh') = Len(errCh) + 1 /\ Len(errCh) \in Nat
    BY <2>1, AppendHolds DEF WsTypeOK
  <2>3. Holds(errCh, TRUE) => Holds(errCh', TRUE)
    BY ZenonT(40), <2>1, AppendHolds DEF WsTypeOK
  <2>4. WsTypeOK'
    BY <1>7, <2>2 DEF IdleTimeout, WsTypeOK
  <2>5. LoopsCounted'
    <3>1. callAt = "wait" /\ callAt' = callAt /\ wsCall' = wsCall /\ received' = received
      BY <1>7 DEF IdleTimeout, WsTypeOK, LoopsCounted, ReadRuns, WriteRuns
    <3>2. ReadRuns' = ReadRuns - 1 /\ WriteRuns' = WriteRuns
      BY <1>7 DEF IdleTimeout, ReadRuns, WriteRuns
    <3>3. ReadRuns \in Nat /\ WriteRuns \in Nat
      BY DEF ReadRuns, WriteRuns
    <3>4. received \in Nat /\ Loops' = Loops /\ Loops \in Nat
      BY <3>1 DEF WsTypeOK, Loops
    <3> QED BY <2>2, <3>1, <3>2, <3>3, <3>4 DEF LoopsCounted
  <2>6. LossOnItsWay'
    BY <1>7, <2>3 DEF IdleTimeout, LossOnItsWay
  <2> QED BY <2>4, <2>5, <2>6
<1>8. CASE TakeMessage
  <2>1. WsTypeOK'
    BY <1>8 DEF TakeMessage, WsTypeOK
  <2>2. LoopsCounted'
    BY <1>8 DEF TakeMessage, WsTypeOK, LoopsCounted, ReadRuns, WriteRuns, Loops
  <2>3. LossOnItsWay'
    BY <1>8 DEF TakeMessage, WsTypeOK, LossOnItsWay
  <2> QED BY <2>1, <2>2, <2>3
<1>9. CASE WriteMessage
  <2>1. CASE writeAt' = "select" /\ UNCHANGED <<link, errCh, unsent>>
    BY <1>9, <2>1 DEF WriteMessage, WsTypeOK, LoopsCounted, ReadRuns, WriteRuns, Loops, LossOnItsWay
  <2>2. CASE writeAt' = "ended" /\ errCh' = Append(errCh, TRUE) /\ unsent' = TRUE
    <3>1. errCh' \in Seq(BOOLEAN) /\ Len(errCh') = Len(errCh) + 1 /\ Len(errCh) \in Nat
      BY <2>2, AppendHolds DEF WsTypeOK
    <3>2. Holds(errCh', TRUE)
      <4>1. Holds(Append(errCh, TRUE), TRUE) <=> Holds(errCh, TRUE) \/ TRUE = TRUE
        BY AppendHolds DEF WsTypeOK
      <4> QED BY <2>2, <4>1
    <3>3. WsTypeOK'
      BY <1>9, <2>2, <3>1 DEF WriteMessage, WsTypeOK
    <3>4. LoopsCounted'
      <4>1. callAt = "wait" /\ callAt' = callAt /\ wsCall' = wsCall /\ received' = received
        BY <1>9 DEF WriteMessage, WsTypeOK, LoopsCounted, ReadRuns, WriteRuns
      <4>2. ReadRuns' = ReadRuns /\ WriteRuns' = WriteRuns - 1
        BY <1>9, <2>2 DEF WriteMessage, ReadRuns, WriteRuns
      <4>3. ReadRuns \in Nat /\ WriteRuns \in Nat
        BY DEF ReadRuns, WriteRuns
      <4>4. received \in Nat /\ Loops' = Loops /\ Loops \in Nat
        BY <4>1 DEF WsTypeOK, Loops
      <4> QED BY <3>1, <4>1, <4>2, <4>3, <4>4 DEF LoopsCounted
    <3> QED BY <3>2, <3>3, <3>4 DEF LossOnItsWay
  <2> QED BY <1>9, <2>1, <2>2 DEF WriteMessage
<1>10. CASE WriteLoopEnds
  <2>1. PICK e \in BOOLEAN : errCh' = Append(errCh, e)
    BY <1>10 DEF WriteLoopEnds
  <2>2. errCh' \in Seq(BOOLEAN) /\ Len(errCh') = Len(errCh) + 1 /\ Len(errCh) \in Nat
    BY <2>1, AppendHolds DEF WsTypeOK
  <2>3. Holds(errCh, TRUE) => Holds(errCh', TRUE)
    BY ZenonT(40), <2>1, AppendHolds DEF WsTypeOK
  <2>4. WsTypeOK'
    BY <1>10, <2>2 DEF WriteLoopEnds, WsTypeOK
  <2>5. LoopsCounted'
    <3>1. callAt = "wait" /\ callAt' = callAt /\ wsCall' = wsCall /\ received' = received
      BY <1>10 DEF WriteLoopEnds, WsTypeOK, LoopsCounted, ReadRuns, WriteRuns
    <3>2. ReadRuns' = ReadRuns /\ WriteRuns' = WriteRuns - 1
      BY <1>10 DEF WriteLoopEnds, ReadRuns, WriteRuns
    <3>3. ReadRuns \in Nat /\ WriteRuns \in Nat
      BY DEF ReadRuns, WriteRuns
    <3>4. received \in Nat /\ Loops' = Loops /\ Loops \in Nat
      BY <3>1 DEF WsTypeOK, Loops
    <3> QED BY <2>2, <3>1, <3>2, <3>3, <3>4 DEF LoopsCounted
  <2>6. LossOnItsWay'
    BY <1>10, <2>3 DEF WriteLoopEnds, LossOnItsWay
  <2> QED BY <2>4, <2>5, <2>6
<1>11. CASE CollectError
  <2>1. /\ errCh' \in Seq(BOOLEAN) /\ Len(errCh') = Len(errCh) - 1 /\ Len(errCh) \in Nat
        /\ Head(errCh) \in BOOLEAN
    BY <1>11, TailHolds DEF CollectError, WsTypeOK
  <2>2. Holds(errCh, TRUE) => Head(errCh) = TRUE \/ Holds(errCh', TRUE)
    BY <1>11, TailHolds DEF CollectError, WsTypeOK
  <2>3. firstErr' \in BOOLEAN /\ (Head(errCh) = TRUE \/ firstErr => firstErr')
    <3>1. firstErr' = (firstErr \/ Head(errCh))
      BY <1>11 DEF CollectError
    <3>2. firstErr \in BOOLEAN /\ Head(errCh) \in BOOLEAN
      BY <2>1 DEF WsTypeOK
    <3> QED BY <3>1, <3>2, Zenon
  <2>4. WsTypeOK'
    <3>1. received' \in Nat
      <4>1. received \in Nat
        BY DEF WsTypeOK
      <4>2. received' = received + 1
        BY <1>11 DEF CollectError
      <4> QED BY <4>1, <4>2
    <3> QED BY <1>11, <2>1, <2>3, <3>1 DEF CollectError, WsTypeOK
  <2>5. LoopsCounted'
    <3>1. /\ callAt = "wait" /\ callAt' = callAt /\ received' = received + 1
          /\ ReadRuns' = ReadRuns /\ WriteRuns' = WriteRuns /\ Loops' = Loops
      BY <1>11 DEF CollectError, ReadRuns, WriteRuns, Loops
    <3>2. received \in Nat /\ ReadRuns \in Nat /\ WriteRuns \in Nat /\ Loops \in Nat
      BY DEF WsTypeOK, ReadRuns, WriteRuns, Loops
    <3> QED BY <2>1, <3>1, <3>2 DEF LoopsCounted
  <2>6. LossOnItsWay'
    BY <1>11, <2>2, <2>3 DEF CollectError, LossOnItsWay
  <2> QED BY <2>4, <2>5, <2>6
<1>12. CASE ServeEnds
  <2>1. WsTypeOK'
    BY <1>12 DEF ServeEnds, WsTypeOK
  <2>2. LoopsCounted'
    BY <1>12 DEF ServeEnds, WsTypeOK, LoopsCounted, ReadRuns, WriteRuns, Loops
  <2>3. LossOnItsWay'
    BY <1>12 DEF ServeEnds, WsTypeOK, LossOnItsWay
  <2> QED BY <2>1, <2>2, <2>3
<1>13. CASE UNCHANGED wsVars
  BY <1>13 DEF wsVars, WsTypeOK, LoopsCounted, LossOnItsWay, ReadRuns, WriteRuns, Loops
<1> QED
  BY <1>1, <1>2, <1>3, <1>4, <1>5, <1>6, <1>7, <1>8, <1>9, <1>10, <1>11, <1>12, <1>13
     DEF WsNext, ReadLoopStep, WriteLoopStep, CallStep

\* Serve, ServeWriter and ServeDuplex never return without an error after losing a
\* message, whichever loop ends first and however many messages there are.
THEOREM LossSafe == WsSpec => []LossReported
<1>1. WsInv => LossReported
  BY DEF WsInv, LoopsCounted, LossOnItsWay, LossReported, Holds
<1> QED BY <1>1, WsInvInit, WsInvNext, PTL DEF WsSpec

-----------------------------------------------------------------------------
(* The parquet writer. *)

PqTypeOK ==
    /\ pqNext \in 1..PqRecords + 1
    /\ file \in Seq(1..PqRecords) /\ chunk \in Seq(1..PqRecords) /\ pqStored \in Seq(1..PqRecords)
    /\ raw \in Seq(Seq(1..PqRecords))
    /\ roller \in {"loop", "send", "last", "ended"} /\ rawWriter \in {"start", "loop", "put", "ended"}

\* A file holds consecutive records, and no empty file is handed over.
Run(f) == \A j \in 1..Len(f) : f[j] = f[1] + j - 1
FilesWhole ==
    /\ Run(file) /\ Run(chunk)
    /\ \A i \in 1..Len(raw) : raw[i] # << >> /\ Run(raw[i])
    /\ roller \in {"send", "last"} => file # << >>
    /\ roller # "ended" /\ file # << >> => pqNext = file[1] + Len(file)
    /\ rawWriter # "put" => chunk = << >>

\* The first record that is in none of the files handed over.
After ==
    IF raw = << >> THEN Len(pqStored) + Len(chunk) + 1
    ELSE raw[Len(raw)][1] + Len(raw[Len(raw)])

\* Bucket, writer, channel and roller continue each other.
Chained ==
    /\ \A i \in 1..Len(pqStored) : pqStored[i] = i
    /\ rawWriter # "ended" =>
          /\ chunk # << >> => chunk[1] = Len(pqStored) + 1
          /\ raw # << >> => raw[1][1] = Len(pqStored) + Len(chunk) + 1
          /\ \A i \in 1..Len(raw) - 1 : raw[i + 1][1] = raw[i][1] + Len(raw[i])
          /\ roller # "ended" => pqNext = After + Len(file) /\ (file # << >> => file[1] = After)

PqInv == PqTypeOK /\ FilesWhole /\ Chained

LEMMA AppendCells ==
    ASSUME NEW S, NEW s \in Seq(S), NEW e \in S
    PROVE  /\ Append(s, e) \in Seq(S) /\ Len(Append(s, e)) = Len(s) + 1 /\ Append(s, e) # << >>
           /\ \A i \in 1..Len(s) : Append(s, e)[i] = s[i]
           /\ Append(s, e)[Len(s) + 1] = e
<1>1. Append(s, e) \in Seq(S) /\ Len(Append(s, e)) = Len(s) + 1
  OBVIOUS
<1>4. Append(s, e) # << >>
  <2>1. Len(s) \in Nat
    OBVIOUS
  <2> QED BY <1>1, <2>1
<1>2. \A i \in 1..Len(s) : Append(s, e)[i] = s[i]
  OBVIOUS
<1>3. Append(s, e)[Len(s) + 1] = e
  OBVIOUS
<1> QED BY <1>1, <1>2, <1>3, <1>4

LEMMA PqInvInit == ParquetInit => PqInv
<1> SUFFICES ASSUME ParquetInit PROVE PqInv
  OBVIOUS
<1> USE ParquetAssumption DEF ParquetInit
<1>1. PqTypeOK
  BY DEF PqTypeOK
<1>2. FilesWhole
  BY DEF FilesWhole, Run
<1>3. Chained
  BY DEF Chained, After
<1> QED BY <1>1, <1>2, <1>3 DEF PqInv

LEMMA PqInvNext == PqInv /\ [ParquetNext]_pqVars => PqInv'
<1> SUFFICES ASSUME PqInv, [ParquetNext]_pqVars PROVE PqInv'
  OBVIOUS
<1> USE ParquetAssumption DEF PqInv, rollVars, rawVars
<1> DEFINE R == 1..PqRecords
<1>types. /\ pqNext \in Nat /\ Len(file) \in Nat /\ Len(chunk) \in Nat /\ Len(pqStored) \in Nat
          /\ Len(raw) \in Nat
          /\ \A i \in 1..Len(raw) : raw[i] \in Seq(R) /\ Len(raw[i]) \in Nat /\ (raw[i] # << >> => raw[i][1] \in R)
  BY DEF PqTypeOK
<1>1. CASE PqClose \/ PqCancel \/ RollerTick \/ RawStarts
  BY <1>1 DEF PqClose, PqCancel, RollerTick, RawStarts, PqTypeOK, FilesWhole, Chained, After
<1>2. CASE RollerTakes
  <2>1. pqNext \in R /\ file' = Append(file, pqNext) /\ pqNext' = pqNext + 1 /\ roller = "loop"
    BY <1>2 DEF RollerTakes, PqTypeOK
  <2>2. /\ file' \in Seq(R) /\ Len(file') = Len(file) + 1 /\ file' # << >>
        /\ \A i \in 1..Len(file) : file'[i] = file[i]
        /\ file'[Len(file) + 1] = pqNext
    <3>1. file \in Seq(R)
      BY DEF PqTypeOK
    <3> HIDE DEF R
    <3> QED BY <2>1, <3>1, AppendCells
  <2>3. file = << >> \/ (Len(file) > 0 /\ file[1] \in R /\ file'[1] = file[1] /\ pqNext = file[1] + Len(file))
    BY <2>1, <2>2 DEF FilesWhole, PqTypeOK
  <2>4. PqTypeOK'
    BY <1>2, <2>1, <2>2 DEF RollerTakes, PqTypeOK
  <2>5. FilesWhole'
    <3>1. Run(file')
      BY <2>1, <2>2, <2>3, <1>types DEF FilesWhole, Run
    <3>2. pqNext' = file'[1] + Len(file')
      <4>1. CASE file = << >>
        BY <2>1, <2>2, <4>1, <1>types
      <4>2. CASE file # << >>
        <5>1. file[1] \in Int /\ Len(file) \in Int /\ pqNext = file[1] + Len(file)
          BY <2>3, <4>2, <1>types
        <5>2. file'[1] = file[1] /\ Len(file') = Len(file) + 1 /\ pqNext' = pqNext + 1
          BY <2>1, <2>2, <2>3, <4>2
        <5> QED BY <5>1, <5>2
      <4> QED BY <4>1, <4>2
    <3> QED BY <1>2, <2>2, <3>1, <3>2 DEF RollerTakes, FilesWhole
  <2>6. Chained'
    <3>1. UNCHANGED <<raw, chunk, pqStored, rawWriter>> /\ After' = After
      BY <1>2 DEF RollerTakes, After
    <3>2. rawWriter # "ended" => pqNext = After + Len(file) /\ (file # << >> => file[1] = After)
      BY <2>1 DEF Chained
    <3>3. rawWriter # "ended" => pqNext' = After + Len(file') /\ file'[1] = After
      <4>1. file = << >> => file'[1] = pqNext /\ Len(file) = 0
        BY <2>2
      <4>2. rawWriter # "ended" /\ file # << >> => After \in Nat
        BY <2>3, <3>2
      <4>3. rawWriter # "ended" /\ file # << >> => pqNext' = After + Len(file') /\ file'[1] = After
        BY <2>1, <2>2, <2>3, <3>2, <4>2, <1>types
      <4>4. rawWriter # "ended" /\ file = << >> => pqNext' = After + Len(file') /\ file'[1] = After
        <5>1. After \in Nat
          BY <1>types DEF After, FilesWhole
        <5> QED BY <2>1, <2>2, <3>2, <4>1, <5>1, <1>types
      <4> QED BY <4>3, <4>4
    <3> QED BY <3>1, <3>3 DEF Chained
  <2> QED BY <2>4, <2>5, <2>6
<1>3. CASE RollerEnds
  BY <1>3 DEF RollerEnds, PqTypeOK, FilesWhole, Chained, After
<1>4. CASE RollerFlush
  <2>1. /\ raw' = Append(raw, file) /\ file' = << >> /\ file # << >> /\ file \in Seq(R)
        /\ roller # "ended" /\ pqNext' = pqNext /\ chunk' = chunk /\ pqStored' = pqStored
        /\ rawWriter' = rawWriter
    BY <1>4 DEF RollerFlush, FilesWhole, PqTypeOK
  <2>2. /\ raw' \in Seq(Seq(R)) /\ Len(raw') = Len(raw) + 1 /\ raw' # << >>
        /\ \A i \in 1..Len(raw) : raw'[i] = raw[i]
        /\ raw'[Len(raw) + 1] = file
    <3>1. raw \in Seq(Seq(R))
      BY DEF PqTypeOK
    <3> HIDE DEF R
    <3> QED BY <2>1, <3>1, AppendCells
  <2>3. PqTypeOK'
    BY <1>4, <2>1, <2>2 DEF RollerFlush, PqTypeOK
  <2>4. FilesWhole'
    <3>1. \A i \in 1..Len(raw') : raw'[i] # << >> /\ Run(raw'[i])
      <4> SUFFICES ASSUME NEW i \in 1..Len(raw') PROVE raw'[i] # << >> /\ Run(raw'[i])
        OBVIOUS
      <4>1. CASE i \in 1..Len(raw)
        BY <2>2, <4>1 DEF FilesWhole
      <4>2. CASE i = Len(raw) + 1
        BY <2>1, <2>2, <4>2 DEF FilesWhole
      <4> QED BY <2>2, <4>1, <4>2, <1>types
    <3>2. Run(file')
      BY <2>1 DEF Run
    <3> QED BY <1>4, <2>1, <3>1, <3>2 DEF RollerFlush, FilesWhole
  <2>5. Chained'
    <3>1. file[1] \in R /\ Len(file) \in Nat
      BY <2>1
    <3>2. After' = file[1] + Len(file)
      BY <2>2 DEF After
    <3>3. pqNext = file[1] + Len(file)
      BY <2>1 DEF FilesWhole
    <3>4. rawWriter # "ended" => file[1] = After
      BY <2>1 DEF Chained
    <3>5. rawWriter # "ended" => raw'[1][1] = Len(pqStored) + Len(chunk) + 1
      <4>1. CASE raw = << >>
        BY <2>2, <3>4, <4>1 DEF After
      <4>2. CASE raw # << >>
        <5>1. 1 \in 1..Len(raw)
          BY <4>2, <1>types DEF PqTypeOK
        <5>2. raw'[1] = raw[1]
          BY <2>2, <5>1
        <5> QED BY <4>2, <5>2 DEF Chained
      <4> QED BY <4>1, <4>2
    <3>6. ASSUME rawWriter # "ended", NEW i \in 1..Len(raw') - 1
          PROVE  raw'[i + 1][1] = raw'[i][1] + Len(raw'[i])
      <4>1. CASE i = Len(raw)
        <5>1. raw # << >> /\ i \in 1..Len(raw)
          BY <3>6, <4>1, <1>types
        <5> QED BY <2>2, <3>4, <3>6, <4>1, <5>1 DEF After
      <4>2. CASE i # Len(raw)
        <5>1. i \in 1..Len(raw) - 1 /\ i \in 1..Len(raw) /\ i + 1 \in 1..Len(raw)
          BY <2>2, <4>2, <1>types
        <5> QED BY <2>2, <3>6, <5>1 DEF Chained
      <4> QED BY <4>1, <4>2
    <3>7. pqNext' = After' + Len(file')
      BY <2>1, <3>1, <3>2, <3>3
    <3> QED BY <2>1, <3>5, <3>6, <3>7 DEF Chained
  <2> QED BY <2>3, <2>4, <2>5
<1>5. CASE RollerFails
  <2>1. /\ file' = << >> /\ roller' = "ended" /\ UNCHANGED <<raw, chunk, rawWriter, pqStored>>
        /\ pqNext' = pqNext \/ (pqNext <= PqRecords /\ pqNext' = pqNext + 1)
    BY <1>5 DEF RollerFails, rawVars
  <2>2. PqTypeOK'
    BY <2>1 DEF PqTypeOK
  <2>3. FilesWhole'
    BY <2>1 DEF FilesWhole, Run
  <2>4. Chained'
    BY <2>1 DEF Chained
  <2> QED BY <2>2, <2>3, <2>4
<1>6. CASE RawTakes
  <2>1. CASE UNCHANGED <<chunk, raw>> /\ rawWriter' = "ended"
    BY <1>6, <2>1 DEF RawTakes, PqTypeOK, FilesWhole, Chained
  <2>2. CASE raw # << >> /\ chunk' = Head(raw) /\ raw' = Tail(raw) /\ rawWriter' = "put"
    <3>1. /\ raw' \in Seq(Seq(R)) /\ Len(raw') = Len(raw) - 1 /\ Len(raw) > 0 /\ chunk' = raw[1]
          /\ \A i \in 1..Len(raw) - 1 : raw'[i] = raw[i + 1]
      BY <2>2 DEF PqTypeOK
    <3>2. PqTypeOK'
      BY <1>6, <2>2, <3>1, <1>types DEF RawTakes, PqTypeOK
    <3>3. FilesWhole'
      BY <1>6, <2>2, <3>1, <1>types DEF RawTakes, FilesWhole
    <3>c. /\ rawWriter # "ended" /\ Len(chunk) = 0 /\ raw[1] # << >>
          /\ UNCHANGED <<pqStored, pqNext, file, roller>>
      BY <1>6, <3>1 DEF RawTakes, FilesWhole
    <3>d. chunk'[1] = Len(pqStored) + 1
      BY <2>2, <3>1, <3>c, <1>types DEF Chained
    <3>e. ASSUME raw' # << >> PROVE raw'[1][1] = Len(pqStored) + Len(chunk') + 1
      <4>1. Len(raw') > 0
        BY <3>e, <3>1
      <4>2. raw'[1] = raw[2] /\ raw[2][1] = raw[1][1] + Len(raw[1])
        BY SMTT(30), <3>1, <3>c, <4>1, <1>types DEF Chained
      <4>3. raw[1][1] = Len(pqStored) + 1
        BY <2>2, <3>c, <1>types DEF Chained
      <4>4. chunk' = raw[1] /\ Len(raw[1]) \in Int /\ Len(pqStored) \in Int
        BY <3>1, <1>types
      <4>5. raw'[1][1] = (Len(pqStored) + 1) + Len(raw[1])
        BY <4>2, <4>3
      <4>6. \A a, b \in Int : (a + 1) + b = a + b + 1
        OBVIOUS
      <4> QED BY <4>4, <4>5, <4>6
    <3>f. ASSUME NEW i \in 1..Len(raw') - 1 PROVE raw'[i + 1][1] = raw'[i][1] + Len(raw'[i])
      <4>1. i + 1 \in 1..Len(raw) - 1 /\ i \in 1..Len(raw) - 1
        BY SMTT(30), <3>1, <1>types
      <4>2. raw[(i + 1) + 1][1] = raw[i + 1][1] + Len(raw[i + 1])
        BY <3>c, <4>1 DEF Chained
      <4> QED BY <3>1, <4>1, <4>2
    <3>g. After' = After
      <4>1. CASE raw' = << >>
        <5>1. Len(raw) = 1
          BY <3>1, <4>1, <1>types
        <5>2. After = raw[1][1] + Len(raw[1])
          BY <2>2, <5>1 DEF After
        <5>3. raw[1][1] = Len(pqStored) + 1
          BY <2>2, <3>c, <1>types DEF Chained
        <5> QED BY <3>1, <3>c, <4>1, <5>2, <5>3, <1>types DEF After
      <4>2. CASE raw' # << >>
        <5>1. Len(raw') \in 1..Len(raw) - 1 /\ Len(raw') + 1 = Len(raw)
          BY <3>1, <4>2, <1>types
        <5>2. raw'[Len(raw')] = raw[Len(raw)]
          BY <3>1, <5>1
        <5> QED BY <2>2, <4>2, <5>2 DEF After
      <4> QED BY <4>1, <4>2
    <3>4. Chained'
      BY <3>c, <3>d, <3>e, <3>f, <3>g DEF Chained
    <3> QED BY <3>2, <3>3, <3>4
  <2> QED BY <1>6, <2>1, <2>2 DEF RawTakes
<1>7. CASE flushRaw
  <2>1. CASE UNCHANGED pqStored /\ rawWriter' = "ended"
    BY <1>7, <2>1 DEF flushRaw, PqTypeOK, FilesWhole, Run, Chained
  <2>2. CASE pqStored' = pqStored \o chunk /\ rawWriter' = "loop"
    <3>1. /\ pqStored' \in Seq(R) /\ Len(pqStored') = Len(pqStored) + Len(chunk)
          /\ \A i \in 1..Len(pqStored) : pqStored'[i] = pqStored[i]
          /\ \A i \in Len(pqStored) + 1..Len(pqStored) + Len(chunk) : pqStored'[i] = chunk[i - Len(pqStored)]
      BY <2>2 DEF PqTypeOK
    <3>2. PqTypeOK'
      BY <1>7, <2>2, <3>1 DEF flushRaw, PqTypeOK
    <3>3. FilesWhole'
      BY <1>7, <2>2 DEF flushRaw, FilesWhole, Run
    <3>4. \A i \in 1..Len(pqStored') : pqStored'[i] = i
      <4> SUFFICES ASSUME NEW i \in 1..Len(pqStored') PROVE pqStored'[i] = i
        OBVIOUS
      <4>1. CASE i \in 1..Len(pqStored)
        BY <3>1, <4>1 DEF Chained
      <4>2. CASE i \notin 1..Len(pqStored)
        <5>1. i \in Len(pqStored) + 1..Len(pqStored) + Len(chunk) /\ i - Len(pqStored) \in 1..Len(chunk)
          BY <3>1, <4>2, <1>types
        <5>2. chunk # << >> /\ chunk[1] = Len(pqStored) + 1
          BY <1>7, <5>1 DEF flushRaw, Chained
        <5>3. chunk[i - Len(pqStored)] = chunk[1] + (i - Len(pqStored)) - 1
          BY <5>1 DEF FilesWhole, Run
        <5> QED BY <3>1, <5>1, <5>2, <5>3, <1>types
      <4> QED BY <4>1, <4>2
    <3>5. Chained'
      BY <1>7, <2>2, <3>1, <3>4, <1>types DEF flushRaw, Chained, After
    <3> QED BY <3>2, <3>3, <3>5
  <2> QED BY <1>7, <2>1, <2>2 DEF flushRaw
<1>8. CASE UNCHANGED pqVars
  BY <1>8 DEF pqVars, PqTypeOK, FilesWhole, Chained, After
<1> QED BY <1>1, <1>2, <1>3, <1>4, <1>5, <1>6, <1>7, <1>8 DEF ParquetNext, RollerStep, RawStep

\* What the bucket holds is a prefix of what was sent, for any number of records,
\* any size of a file and any room in the channel of files.
THEOREM ParquetSafe == ParquetSpec => []ParquetOrder
<1>1. PqInv => ParquetOrder
  <2> SUFFICES ASSUME PqInv PROVE ParquetOrder
    OBVIOUS
  <2> DEFINE all == [i \in 1..PqRecords |-> i]
  <2>1. pqStored \in Seq(1..PqRecords) /\ Len(pqStored) \in Nat /\ \A i \in 1..Len(pqStored) : pqStored[i] = i
    BY DEF PqInv, PqTypeOK, Chained
  <2>2. Len(pqStored) <= PqRecords
    BY <2>1, ParquetAssumption
  <2>3. all \in Seq(Nat) /\ Len(all) = PqRecords
    BY ParquetAssumption
  <2>4. SubSeq(pqStored, 1, Len(pqStored)) = SubSeq(all, 1, Len(pqStored))
    BY <2>1, <2>2, <2>3, ParquetAssumption
  <2> QED BY <2>2, <2>3, <2>4 DEF ParquetOrder, IsPrefix
<1> QED BY <1>1, PqInvInit, PqInvNext, PTL DEF ParquetSpec

-----------------------------------------------------------------------------
(* The WebSocket jack. *)

Cast == Broadcasters \X Nat
JackTypeOK ==
    /\ maxConns \in Nat /\ jackPanic = FALSE
    /\ conns \subseteq Peers /\ IsFiniteSet(conns) /\ toClose \subseteq Peers
    /\ castNo \in [Broadcasters -> Nat] /\ left \in [Broadcasters -> SUBSET Peers]
    /\ delivered \in [Peers -> Seq(Cast)] /\ sendQ \in [Peers -> Seq(Cast)]

\* What a peer was sent or will be sent is in the order of the broadcasts; the messages of
\* broadcaster b in it have numbers up to n.
InOrder(s) ==
    \A i, j \in 1..Len(s) : i < j /\ s[i][1] = s[j][1] => s[i][2] < s[j][2]
UpTo(s, b, n) == \A i \in 1..Len(s) : s[i][1] = b => s[i][2] <= n

\* A connection that is still in the snapshot of a broadcaster has not got its message yet.
Reached(b, c) == IF c \in left[b] THEN castNo[b] - 1 ELSE castNo[b]
CastsInOrder ==
    \A c \in Peers : /\ InOrder(delivered[c] \o sendQ[c])
                     /\ \A b \in Broadcasters : UpTo(delivered[c] \o sendQ[c], b, Reached(b, c))

JackInv == JackTypeOK /\ ConnsBounded /\ CastsInOrder

LEMMA InOrderAppend ==
    ASSUME NEW d \in Seq(Cast), NEW q \in Seq(Cast), NEW b \in Broadcasters, NEW n \in Nat,
           InOrder(d \o q), UpTo(d \o q, b, n - 1)
    PROVE  /\ InOrder(d \o Append(q, <<b, n>>)) /\ UpTo(d \o Append(q, <<b, n>>), b, n)
           /\ \A a \in Broadcasters, m \in Int :
                a # b /\ UpTo(d \o q, a, m) => UpTo(d \o Append(q, <<b, n>>), a, m)
<1> DEFINE e == <<b, n>>
           s == d \o q
<1>1. e \in Cast /\ e[1] = b /\ e[2] = n
  BY DEF Cast
<1>2. d \o Append(q, e) = Append(s, e) /\ s \in Seq(Cast)
  BY <1>1
<1>3. \A i \in 1..Len(s) : s[i] \in Cast /\ s[i][2] \in Nat
  BY <1>2 DEF Cast
<1> HIDE DEF e, s
<1>4. /\ Len(Append(s, e)) = Len(s) + 1 /\ Len(s) \in Nat /\ Append(s, e)[Len(s) + 1] = e
      /\ \A i \in 1..Len(s) : Append(s, e)[i] = s[i]
  BY <1>1, <1>2
<1>5. InOrder(s) /\ UpTo(s, b, n - 1)
  BY DEF s
<1>6. InOrder(Append(s, e))
  BY <1>1, <1>3, <1>4, <1>5 DEF InOrder, UpTo
<1>7. UpTo(Append(s, e), b, n)
  BY <1>1, <1>3, <1>4, <1>5 DEF UpTo
<1>8. \A a \in Broadcasters, m \in Int : a # b /\ UpTo(s, a, m) => UpTo(Append(s, e), a, m)
  BY <1>1, <1>4 DEF UpTo
<1> QED BY <1>2, <1>6, <1>7, <1>8 DEF e, s

LEMMA InOrderDrop ==
    ASSUME NEW d \in Seq(Cast), NEW q \in Seq(Cast), q # << >>
    PROVE  /\ Append(d, Head(q)) \o Tail(q) = d \o q
           /\ InOrder(d \o q) => InOrder(d \o Tail(q))
           /\ \A b \in Broadcasters, m \in Int : UpTo(d \o q, b, m) => UpTo(d \o Tail(q), b, m)
<1> DEFINE s == d \o q
           t == d \o Tail(q)
           at(i) == IF i <= Len(d) THEN i ELSE i + 1
<1>1. /\ Len(s) = Len(d) + Len(q) /\ Len(t) = Len(d) + Len(q) - 1
      /\ Len(d) \in Nat /\ Len(q) \in Nat \ {0}
  OBVIOUS
<1>2. \A i \in 1..Len(t) : at(i) \in 1..Len(s) /\ t[i] = s[at(i)]
  OBVIOUS
<1>3. \A i, j \in 1..Len(t) : i < j => at(i) < at(j)
  BY <1>1
<1>4. Append(d, Head(q)) \o Tail(q) = d \o q
  OBVIOUS
<1> HIDE DEF s, t, at
<1>5. InOrder(s) => InOrder(t)
  BY <1>2, <1>3 DEF InOrder
<1>6. \A b \in Broadcasters, m \in Int : UpTo(s, b, m) => UpTo(t, b, m)
  BY <1>2 DEF UpTo
<1> QED BY <1>4, <1>5, <1>6 DEF s, t

LEMMA JackInvInit == JackInit => JackInv
<1> SUFFICES ASSUME JackInit PROVE JackInv
  OBVIOUS
<1>1. JackTypeOK
  BY JackAssumption, FS_EmptySet DEF JackInit, JackTypeOK
<1>2. ConnsBounded
  BY JackAssumption, FS_EmptySet DEF JackInit, ConnsBounded
<1>3. CastsInOrder
  <2>1. \A c \in Peers : delivered[c] \o sendQ[c] = << >>
    BY DEF JackInit
  <2>2. InOrder(<< >>) /\ \A b, n : UpTo(<< >>, b, n)
    BY DEF InOrder, UpTo
  <2>3. \A c \in Peers, b \in Broadcasters :
           InOrder(delivered[c] \o sendQ[c]) /\ UpTo(delivered[c] \o sendQ[c], b, Reached(b, c))
    BY <2>1, <2>2
  <2>4. InOrder(<< >>)
    BY DEF InOrder
  <2> QED BY <2>1, <2>3, <2>4 DEF CastsInOrder
<1> QED BY <1>1, <1>2, <1>3 DEF JackInv

castSet == <<delivered, sendQ, left, castNo>>
connSet == <<conns, maxConns>>

\* The steps that touch neither the table nor the queues nor the snapshots.
LEMMA JackRest ==
    ASSUME JackInv, UNCHANGED <<castSet, connSet, jackPanic>>, toClose' \subseteq Peers
    PROVE  JackInv'
<1>1. JackTypeOK'
  BY DEF JackInv, JackTypeOK, castSet, connSet
<1>2. ConnsBounded'
  BY DEF JackInv, ConnsBounded, connSet
<1>3. CastsInOrder'
  BY DEF JackInv, CastsInOrder, Reached, castSet
<1> QED BY <1>1, <1>2, <1>3 DEF JackInv

LEMMA JackInvNext == JackInv /\ [JackNext]_jackVars => JackInv'
<1> SUFFICES ASSUME JackInv, [JackNext]_jackVars PROVE JackInv'
  OBVIOUS
<1>types. JackTypeOK
  BY DEF JackInv
<1> USE DEF castSet, connSet
<1>1. ASSUME NEW k \in ServeCalls, ServeStep(k) PROVE JackInv'
  <2>1. UNCHANGED <<castSet, connSet, jackPanic>> /\ toClose' \subseteq Peers
    BY <1>1, <1>types DEF ServeStep, ServeBegins, ShutDownBegins, ShutDownEnds, ServeReturns,
       ListenFails, CloseNext, JackTypeOK, queueVars, castVars
  <2> QED BY <2>1, JackRest
<1>2. CASE JackCancel
  BY <1>2, <1>types, JackRest DEF JackCancel, JackTypeOK, queueVars, castVars, serveVars
<1>3. ASSUME NEW c \in Peers,
             Request(c) \/ Handshake(c) \/ PeerEnds(c) \/ ReadEnds(c) \/ CloseConn(c) \/ WriterEnds(c)
      PROVE  JackInv'
  <2>1. UNCHANGED <<castSet, connSet, jackPanic>> /\ toClose' \subseteq Peers
    BY <1>3, <1>types DEF Request, Handshake, PeerEnds, ReadEnds, CloseConn, WriterEnds,
       JackTypeOK, queueVars, castVars, serveVars
  <2> QED BY <2>1, JackRest
<1>4. ASSUME NEW c \in Peers, AddConn(c) PROVE JackInv'
  <2>1. CastsInOrder'
    BY <1>4 DEF AddConn, JackInv, CastsInOrder, Reached, castVars
  <2>2. CASE conns' = conns
    <3>1. UNCHANGED <<castSet, connSet, jackPanic>> /\ toClose' \subseteq Peers
      BY <1>4, <2>2, <1>types DEF AddConn, JackTypeOK, castVars, serveVars
    <3> QED BY <3>1, JackRest
  <2>3. CASE conns' = conns \cup {c} /\ ~JackFull
    <3>1. /\ IsFiniteSet(conns') /\ Cardinality(conns) \in Nat /\ Cardinality(conns') \in Nat
          /\ Cardinality(conns') <= Cardinality(conns) + 1
        <4>1. IsFiniteSet(conns)
        BY <1>types DEF JackTypeOK
      <4>2. /\ IsFiniteSet(conns \cup {c})
            /\ \/ Cardinality(conns \cup {c}) = Cardinality(conns)
               \/ Cardinality(conns \cup {c}) = Cardinality(conns) + 1
        BY <4>1, FS_AddElement
      <4>3. Cardinality(conns) \in Nat
        BY <4>1, FS_CardinalityType
      <4> QED BY <2>3, <4>2, <4>3
    <3>2. JackTypeOK'
      BY <1>4, <2>3, <3>1, <1>types DEF AddConn, JackTypeOK, castVars, serveVars
    <3>3. ConnsBounded'
      BY <1>4, <2>3, <3>1, <1>types DEF AddConn, JackTypeOK, ConnsBounded, JackFull
    <3> QED BY <2>1, <3>2, <3>3 DEF JackInv
  <2> QED BY <1>4, <2>2, <2>3 DEF AddConn
<1>5. ASSUME NEW c \in Peers, DropConn(c) PROVE JackInv'
  <2>1. /\ IsFiniteSet(conns') /\ Cardinality(conns) \in Nat /\ Cardinality(conns') \in Nat
        /\ Cardinality(conns') <= Cardinality(conns)
    <3>1. IsFiniteSet(conns)
      BY <1>types DEF JackTypeOK
    <3>2. /\ IsFiniteSet(conns \ {c})
          /\ \/ Cardinality(conns \ {c}) = Cardinality(conns)
             \/ Cardinality(conns \ {c}) = Cardinality(conns) - 1
      BY <3>1, FS_RemoveElement
    <3>3. Cardinality(conns) \in Nat /\ Cardinality(conns \ {c}) \in Nat
      BY <3>1, <3>2, FS_CardinalityType
    <3> QED BY <1>5, <3>2, <3>3 DEF DropConn
  <2>2. JackTypeOK'
    BY <1>5, <2>1, <1>types DEF DropConn, JackTypeOK, castVars, serveVars, queueVars
  <2>3. ConnsBounded'
    BY <1>5, <2>1, <1>types DEF DropConn, JackInv, JackTypeOK, ConnsBounded
  <2>4. CastsInOrder'
    BY <1>5 DEF DropConn, JackInv, CastsInOrder, Reached, castVars, queueVars
  <2> QED BY <2>2, <2>3, <2>4 DEF JackInv
<1>6. ASSUME NEW c \in Peers, WriteNext(c) PROVE JackInv'
  <2>1. /\ sendQ[c] \in Seq(Cast) /\ sendQ[c] # << >> /\ delivered[c] \in Seq(Cast)
        /\ Tail(sendQ[c]) \in Seq(Cast) /\ Head(sendQ[c]) \in Cast
    BY <1>6, <1>types DEF WriteNext, JackTypeOK
  <2>2. UNCHANGED <<left, castNo, connSet, jackPanic, toClose>>
    BY <1>6 DEF WriteNext, castVars, serveVars
  <2>3. sendQ' = [sendQ EXCEPT ![c] = Tail(sendQ[c])]
    BY <1>6 DEF WriteNext
  <2>4. CASE delivered' = [delivered EXCEPT ![c] = Append(delivered[c], Head(sendQ[c]))]
    <3>1. \A p \in Peers : delivered'[p] \o sendQ'[p] = delivered[p] \o sendQ[p]
      BY <2>1, <2>3, <2>4, <1>types, InOrderDrop DEF JackTypeOK
    <3>2. JackTypeOK'
      <4>1. Append(delivered[c], Head(sendQ[c])) \in Seq(Cast)
        BY <2>1
      <4> QED BY <2>1, <2>2, <2>3, <2>4, <4>1, <1>types DEF JackTypeOK
    <3>3. CastsInOrder'
      BY <2>2, <3>1 DEF JackInv, CastsInOrder, Reached
    <3> QED BY <2>2, <3>2, <3>3 DEF JackInv, ConnsBounded
  <2>5. CASE delivered' = delivered
    <3>1. JackTypeOK'
      BY <2>1, <2>2, <2>3, <2>5, <1>types DEF JackTypeOK
    <3>2. \A p \in Peers, b \in Broadcasters : Reached(b, p)' = Reached(b, p) /\ Reached(b, p) \in Int
      BY <2>2, <1>types DEF Reached, JackTypeOK
    <3>3. ASSUME NEW p \in Peers
          PROVE  /\ InOrder(delivered'[p] \o sendQ'[p])
                 /\ \A b \in Broadcasters : UpTo(delivered'[p] \o sendQ'[p], b, Reached(b, p))
      <4>1. CASE p = c
        <5>1. sendQ'[p] = Tail(sendQ[c]) /\ delivered'[p] = delivered[c]
          BY <2>3, <2>5, <4>1, <1>types DEF JackTypeOK
        <5> QED BY <2>1, <3>2, <4>1, <5>1, InOrderDrop DEF JackInv, CastsInOrder
      <4>2. CASE p # c
        BY <2>3, <2>5, <4>2, <1>types DEF JackInv, CastsInOrder, JackTypeOK
      <4> QED BY <4>1, <4>2
    <3>4. CastsInOrder'
      BY <3>2, <3>3 DEF CastsInOrder
    <3> QED BY <2>2, <3>1, <3>4 DEF JackInv, ConnsBounded
  <2> QED BY <1>6, <2>4, <2>5 DEF WriteNext
<1>7. ASSUME NEW b \in Broadcasters, BroadcastBegins(b) PROVE JackInv'
  <2>1. UNCHANGED <<delivered, sendQ, connSet, jackPanic, toClose>>
    BY <1>7 DEF BroadcastBegins, queueVars, serveVars
  <2>2. JackTypeOK'
    BY <1>7, <2>1, <1>types DEF BroadcastBegins, JackTypeOK
  <2>3. \A a \in Broadcasters, p \in Peers : Reached(a, p) \in Int /\ Reached(a, p)' \in Int /\ Reached(a, p) <= Reached(a, p)'
    BY <1>7, <2>2, <1>types DEF BroadcastBegins, Reached, JackTypeOK
  <2>4. \A a \in Broadcasters, p \in Peers :
          UpTo(delivered[p] \o sendQ[p], a, Reached(a, p)) => UpTo(delivered[p] \o sendQ[p], a, Reached(a, p)')
    <3> SUFFICES ASSUME NEW a \in Broadcasters, NEW p \in Peers,
                        UpTo(delivered[p] \o sendQ[p], a, Reached(a, p))
                 PROVE  UpTo(delivered[p] \o sendQ[p], a, Reached(a, p)')
      OBVIOUS
    <3> DEFINE s == delivered[p] \o sendQ[p]
               lo == Reached(a, p)
               hi == Reached(a, p)'
    <3>1. lo \in Int /\ hi \in Int /\ lo <= hi
      BY <2>3
    <3>2. \A i \in 1..Len(s) : s[i][2] \in Nat
      BY SMTT(30), <1>types DEF JackTypeOK, Cast
    <3>3. UpTo(s, a, lo)
      OBVIOUS
    <3> HIDE DEF s, lo, hi
    <3>4. UpTo(s, a, hi)
      BY <3>1, <3>2, <3>3 DEF UpTo
    <3> QED BY <3>4 DEF s, hi
  <2>5. CastsInOrder'
    BY <2>1, <2>4 DEF JackInv, CastsInOrder
  <2> QED BY <2>1, <2>2, <2>5 DEF JackInv, ConnsBounded
<1>8. ASSUME NEW b \in Broadcasters, NEW c \in Peers, Enqueue(b, c) PROVE JackInv'
  <2>1. UNCHANGED <<delivered, castNo, connSet, jackPanic, toClose>>
    BY <1>8 DEF Enqueue, serveVars
  <2>2. c \in left[b] /\ left' = [left EXCEPT ![b] = left[b] \ {c}]
    BY <1>8 DEF Enqueue
  <2>3. \A a \in Broadcasters, p \in Peers :
          /\ (a # b \/ p # c) => Reached(a, p)' = Reached(a, p)
          /\ Reached(a, p)' \in Int
    BY <2>1, <2>2, <1>types DEF Reached, JackTypeOK
  <2>4. Reached(b, c) = castNo[b] - 1 /\ Reached(b, c)' = castNo[b] /\ castNo[b] \in Nat
    BY <2>1, <2>2, <1>types DEF Reached, JackTypeOK
  <2>5. CASE sendQ' = sendQ
    <3>1. JackTypeOK'
      BY <2>1, <2>2, <2>5, <1>types DEF JackTypeOK
    <3>2. UpTo(delivered[c] \o sendQ[c], b, castNo[b])
      <4> DEFINE s == delivered[c] \o sendQ[c]
      <4>1. \A i \in 1..Len(s) : s[i][2] \in Nat
        BY <1>types DEF JackTypeOK, Cast
      <4>2. UpTo(s, b, castNo[b] - 1)
        BY <2>4 DEF JackInv, CastsInOrder
      <4> HIDE DEF s
      <4>3. UpTo(s, b, castNo[b])
        BY <2>4, <4>1, <4>2 DEF UpTo
      <4> QED BY <4>3 DEF s
    <3>3. CastsInOrder'
      <4> SUFFICES ASSUME NEW p \in Peers, NEW a \in Broadcasters
                   PROVE  InOrder(delivered[p] \o sendQ[p]) /\ UpTo(delivered[p] \o sendQ[p], a, Reached(a, p)')
        BY <2>1, <2>5 DEF CastsInOrder
      <4>1. InOrder(delivered[p] \o sendQ[p]) /\ UpTo(delivered[p] \o sendQ[p], a, Reached(a, p))
        BY DEF JackInv, CastsInOrder
      <4>2. CASE a = b /\ p = c
        BY <2>4, <3>2, <4>1, <4>2
      <4>3. CASE ~(a = b /\ p = c)
        BY <2>3, <4>1, <4>3
      <4> QED BY <4>2, <4>3
    <3> QED BY <2>1, <3>1, <3>3 DEF JackInv, ConnsBounded
  <2>6. CASE sendQ' = [sendQ EXCEPT ![c] = Append(sendQ[c], <<b, castNo[b]>>)]
    <3>1. <<b, castNo[b]>> \in Cast /\ sendQ[c] \in Seq(Cast) /\ delivered[c] \in Seq(Cast)
      BY <2>4, <1>types DEF JackTypeOK, Cast
    <3>2. JackTypeOK'
      BY <2>1, <2>2, <2>6, <3>1, <1>types DEF JackTypeOK
    <3>3. InOrder(delivered[c] \o sendQ[c]) /\ UpTo(delivered[c] \o sendQ[c], b, castNo[b] - 1)
      BY <2>4 DEF JackInv, CastsInOrder
    <3>4. /\ InOrder(delivered[c] \o Append(sendQ[c], <<b, castNo[b]>>))
          /\ UpTo(delivered[c] \o Append(sendQ[c], <<b, castNo[b]>>), b, castNo[b])
          /\ \A a \in Broadcasters, m \in Int : a # b /\ UpTo(delivered[c] \o sendQ[c], a, m)
               => UpTo(delivered[c] \o Append(sendQ[c], <<b, castNo[b]>>), a, m)
      BY <2>4, <3>1, <3>3, InOrderAppend
    <3>5. CastsInOrder'
      <4> SUFFICES ASSUME NEW p \in Peers, NEW a \in Broadcasters
                   PROVE  /\ InOrder(delivered[p] \o sendQ'[p])
                          /\ UpTo(delivered[p] \o sendQ'[p], a, Reached(a, p)')
        BY <2>1 DEF CastsInOrder
      <4>1. InOrder(delivered[p] \o sendQ[p]) /\ UpTo(delivered[p] \o sendQ[p], a, Reached(a, p))
        BY DEF JackInv, CastsInOrder
      <4>2. CASE p # c
        <5>1. sendQ'[p] = sendQ[p]
          BY <2>6, <4>2, <1>types DEF JackTypeOK
        <5> QED BY <2>3, <4>1, <4>2, <5>1
      <4>3. CASE p = c
        <5>1. sendQ'[p] = Append(sendQ[c], <<b, castNo[b]>>)
          BY <2>6, <4>3, <1>types DEF JackTypeOK
        <5>2. CASE a = b
          BY <2>4, <3>4, <4>3, <5>1, <5>2
        <5>3. CASE a # b
          <6>1. Reached(a, p)' = Reached(a, p)
            BY <2>3, <5>3
          <6>2. Reached(a, p) \in Int
            BY <2>3, <6>1
          <6> QED BY <3>4, <4>1, <4>3, <5>1, <5>3, <6>1, <6>2
        <5> QED BY <5>2, <5>3
      <4> QED BY <4>2, <4>3
    <3> QED BY <2>1, <3>2, <3>5 DEF JackInv, ConnsBounded
  <2> QED BY <1>8, <2>5, <2>6 DEF Enqueue
<1>9. CASE UNCHANGED jackVars
  BY <1>9, <1>types, JackRest DEF jackVars, JackTypeOK, queueVars, castVars, serveVars
<1> QED
  BY <1>1, <1>2, <1>3, <1>4, <1>5, <1>6, <1>7, <1>8, <1>9 DEF JackNext, ConnStep, CastStep

\* However many connections, broadcasts and messages there are, the table keeps its limit
\* and each peer gets every broadcaster's messages in order and at most once, whatever
\* closes in between.
THEOREM JackKept == JackSpec => []JackSafe
<1>1. JackInv => JackSafe
  <2> SUFFICES ASSUME JackInv PROVE BroadcastSafe
    BY DEF JackInv, JackSafe
  <2>1. ~jackPanic
    BY DEF JackInv, JackTypeOK
  <2>2. ASSUME NEW c \in Peers
        PROVE  LET got == delivered[c] \o sendQ[c]
               IN  \A i, j \in DOMAIN got : i < j /\ got[i][1] = got[j][1] => got[i][2] < got[j][2]
    <3> DEFINE got == delivered[c] \o sendQ[c]
    <3>1. got \in Seq(Cast)
      BY DEF JackInv, JackTypeOK
    <3>2. InOrder(got)
      BY DEF JackInv, CastsInOrder
    <3> HIDE DEF got
    <3>3. DOMAIN got = 1..Len(got)
      BY <3>1
    <3>4. \A i, j \in DOMAIN got : i < j /\ got[i][1] = got[j][1] => got[i][2] < got[j][2]
      BY <3>2, <3>3 DEF InOrder
    <3> QED BY <3>4 DEF got
  <2> QED BY <2>1, <2>2 DEF BroadcastSafe
<1> QED BY <1>1, JackInvInit, JackInvNext, PTL DEF JackSpec

-----------------------------------------------------------------------------
(* The pollers. *)

PollTypeOK ==
    /\ objects \subseteq ObjKeys /\ startAfter \in Nat /\ page \in [PollCalls -> SUBSET ObjKeys]
    /\ more \in [PollCalls -> BOOLEAN]
    /\ pollAt \in [PollCalls -> {"new", "select", "fetch", "list", "submit", "attempt", "token",
                                 "request", "deliver", "sleep", "returned", "failed"}]
    /\ polls \in [PollCalls -> Nat] /\ okTicks \in [PollCalls -> Nat]
    /\ lastKey \in [PollCalls -> Nat] /\ body \in [PollCalls -> Seq(Nat)]
    /\ given \in Seq(Nat)

PollConf ==
    /\ pollKind \in {"s3", "postgres", "http"} /\ oneShot \in BOOLEAN
    /\ pollKind = "http" => ~oneShot

\* One Serve of s3client and httpclient polls at a time, at the places of its adapter.
Polls(c) == pollAt[c] \notin {"new", "returned", "failed"}
OnePoller ==
    /\ \A c \in PollCalls :
         /\ pollAt[c] \in {"fetch", "list", "submit"} => pollKind # "http"
         /\ pollAt[c] \in {"attempt", "token", "request", "deliver", "sleep"} => pollKind = "http"
    /\ pollKind # "postgres" =>
         /\ \A c \in PollCalls : Polls(c) => serving
         /\ \A c, d \in PollCalls : Polls(c) /\ Polls(d) => c = d

\* httpclient: the tick under way is the one that has not been answered yet.
TicksAnswered ==
    pollKind = "http" => \A c \in PollCalls :
        /\ pollAt[c] \in {"new", "select"} => okTicks[c] = polls[c]
        /\ pollAt[c] \in {"attempt", "token", "request", "deliver", "sleep"} => okTicks[c] + 1 = polls[c]

Rising(s) == \A i, j \in 1..Len(s) : i < j => s[i] < s[j]

\* s3client: what was read lies between listStartAfter and the last key seen, and
\* what was submitted below it.
ReadAhead ==
    pollKind = "s3" =>
        /\ Rising(given) /\ \A k \in Nat : Holds(given, k) => k <= startAfter
        /\ startAfter \in objects \cup {0}
        /\ \A c \in PollCalls :
             /\ pollAt[c] \notin {"list", "submit"} => body[c] = << >>
             /\ lastKey[c] \in objects \cup {0}
             /\ Rising(body[c]) /\ \A k \in Nat : Holds(body[c], k) => k <= lastKey[c]
             /\ pollAt[c] = "list" =>
                  /\ startAfter <= lastKey[c]
                  /\ \A k \in Nat : Holds(body[c], k) => startAfter < k
             /\ pollAt[c] = "submit" =>
                  /\ startAfter = lastKey[c]
                  /\ \A k, l \in Nat : Holds(given, k) /\ Holds(body[c], l) => k < l

\* No object was skipped: those up to listStartAfter, and those a reading has passed.
NoneSkipped ==
    pollKind = "s3" =>
        /\ \A k \in objects \ late : k <= startAfter =>
             Holds(given, k) \/ (\E c \in PollCalls : Holds(body[c], k)) \/ k \in dropped
        /\ \A c \in PollCalls : pollAt[c] = "list" =>
             \A k \in objects \ late : startAfter < k /\ k <= lastKey[c] => Holds(body[c], k)

\* What is left of a page lies ahead of the last key seen, and no object between
\* them is missing from it but those put after it was listed.
Paged ==
    pollKind = "s3" => \A c \in PollCalls :
        /\ pollAt[c] # "list" => page[c] = {}
        /\ page[c] \subseteq Ahead(c)
        /\ \A j \in page[c], k \in objects \ late : lastKey[c] < k /\ k <= j => k \in page[c]

PollInv == PollConf /\ PollTypeOK /\ OnePoller /\ TicksAnswered /\ ReadAhead /\ NoneSkipped /\ Paged

LEMMA KeysAreNumbers == PollTypeOK => /\ ObjKeys \subseteq Nat \ {0} /\ objects \subseteq Nat \ {0}
                                      /\ IsFiniteSet(objects) /\ \A c \in PollCalls : page[c] \subseteq Nat \ {0}
BY PollAssumption, FS_Subset DEF PollTypeOK

\* A page is a first part of what lies ahead.
LEMMA PageFirst ==
    ASSUME PollTypeOK, pollKind = "s3", NEW c \in PollCalls
    PROVE  /\ PageOf(c) \subseteq Ahead(c)
           /\ \A j \in PageOf(c), k \in Ahead(c) : k <= j => k \in PageOf(c)
<1>1. PageOf(c) = {k \in Ahead(c) : Cardinality({j \in Ahead(c) : j < k}) < PageSize}
  BY DEF PageOf
<1>2. Ahead(c) \subseteq Nat /\ IsFiniteSet(Ahead(c)) /\ PageSize \in Nat
  BY KeysAreNumbers, FS_Subset, PollAssumption DEF Ahead
<1>3. ASSUME NEW j \in PageOf(c), NEW k \in Ahead(c), k <= j PROVE k \in PageOf(c)
  <2> DEFINE J == {i \in Ahead(c) : i < j}
             K == {i \in Ahead(c) : i < k}
  <2>1. K \subseteq J
    BY <1>1, <1>2, <1>3
  <2>2. IsFiniteSet(J) /\ Cardinality(J) < PageSize
    <3>1. J \subseteq Ahead(c)
      OBVIOUS
    <3>2. Cardinality(J) < PageSize
      BY <1>1, <1>3
    <3> HIDE DEF J
    <3> QED BY <1>2, <3>1, <3>2, FS_Subset
  <2> HIDE DEF J, K
  <2>3. IsFiniteSet(K) /\ Cardinality(K) <= Cardinality(J)
    BY <2>1, <2>2, FS_Subset
  <2>4. Cardinality(J) \in Nat /\ Cardinality(K) \in Nat
    BY <2>2, <2>3, FS_CardinalityType
  <2>5. Cardinality(K) < PageSize
    BY <1>2, <2>2, <2>3, <2>4
  <2> QED BY <1>1, <1>3, <2>5 DEF K
<1> QED BY <1>1, <1>3

\* The least of some natural numbers is one of them.
LEMMA LeastOf ==
    ASSUME NEW S, S \subseteq Nat, S # {}
    PROVE  Min(S) \in S /\ \A k \in S : Min(S) <= k
<1> DEFINE Below == {p \in Nat \X Nat : p[1] < p[2]}
<1>1. IsWellFoundedOn(Below, Nat)
  BY NatLessThanWellFounded DEF OpToRel
<1>2. PICK x \in S : \A y \in S : ~(<<y, x>> \in Below)
  BY <1>1, WFMin
<1>3. \A y \in S : ~(y < x)
  BY <1>2
<1>4. \A y \in S : x <= y
  BY <1>3
<1> QED BY <1>4 DEF Min

LEMMA RisingAppend ==
    ASSUME NEW s \in Seq(Nat), NEW n \in Nat
    PROVE  /\ Append(s, n) \in Seq(Nat)
           /\ \A k \in Nat : Holds(Append(s, n), k) <=> Holds(s, k) \/ k = n
           /\ Rising(s) /\ (\A k \in Nat : Holds(s, k) => k < n) => Rising(Append(s, n))
<1>1. /\ Append(s, n) \in Seq(Nat) /\ Len(Append(s, n)) = Len(s) + 1 /\ Len(s) \in Nat
      /\ Append(s, n)[Len(s) + 1] = n /\ \A i \in 1..Len(s) : Append(s, n)[i] = s[i] /\ s[i] \in Nat
  OBVIOUS
<1>2. \A k \in Nat : Holds(Append(s, n), k) <=> Holds(s, k) \/ k = n
  BY <1>1 DEF Holds
<1>3. ASSUME Rising(s), \A k \in Nat : Holds(s, k) => k < n PROVE Rising(Append(s, n))
  <2>1. \A i \in 1..Len(s) : s[i] < n
    BY <1>1, <1>3 DEF Holds
  <2> DEFINE t == Append(s, n)
  <2>2. \A i, j \in 1..Len(s) + 1 : i < j => i \in 1..Len(s) /\ (j \in 1..Len(s) \/ j = Len(s) + 1)
    BY <1>1
  <2>3. Len(t) = Len(s) + 1 /\ t[Len(s) + 1] = n /\ \A i \in 1..Len(s) : t[i] = s[i]
    BY <1>1
  <2> HIDE DEF t
  <2>4. Rising(t)
    BY <1>3, <2>1, <2>2, <2>3 DEF Rising
  <2> QED BY <2>4 DEF t
<1> QED BY <1>1, <1>2, <1>3

LEMMA RisingTail ==
    ASSUME NEW s \in Seq(Nat), s # << >>
    PROVE  /\ Tail(s) \in Seq(Nat) /\ Head(s) \in Nat
           /\ \A k \in Nat : Holds(s, k) <=> k = Head(s) \/ Holds(Tail(s), k)
           /\ Rising(s) => Rising(Tail(s)) /\ \A k \in Nat : Holds(Tail(s), k) => Head(s) < k
<1>1. /\ Tail(s) \in Seq(Nat) /\ Len(Tail(s)) = Len(s) - 1 /\ Len(s) \in Nat \ {0}
      /\ Head(s) = s[1] /\ Head(s) \in Nat /\ \A i \in 1..Len(s) - 1 : Tail(s)[i] = s[i + 1]
  OBVIOUS
<1>2. \A i \in 1..Len(s) : i = 1 \/ (i - 1 \in 1..Len(s) - 1 /\ s[i] = Tail(s)[i - 1])
  BY <1>1
<1>3. \A k \in Nat : Holds(s, k) <=> k = Head(s) \/ Holds(Tail(s), k)
  BY <1>1, <1>2 DEF Holds
<1>4. ASSUME Rising(s) PROVE Rising(Tail(s)) /\ \A k \in Nat : Holds(Tail(s), k) => Head(s) < k
  BY <1>1, <1>4 DEF Rising, Holds
<1> QED BY <1>1, <1>3, <1>4

LEMMA NothingIn == Rising(<< >>) /\ \A k : ~Holds(<< >>, k)
BY DEF Rising, Holds

LEMMA PollInvInit == PollInit => PollInv
<1> SUFFICES ASSUME PollInit PROVE PollInv
  OBVIOUS
<1>1. PollConf /\ PollTypeOK /\ OnePoller /\ TicksAnswered
  <2>1. PollConf
    BY PollAssumption DEF PollInit, PollConf
  <2>2. PollTypeOK
    BY DEF PollInit, PollTypeOK, Each
  <2>3. OnePoller /\ TicksAnswered
    BY DEF PollInit, OnePoller, TicksAnswered, Polls, Each
  <2> QED BY <2>1, <2>2, <2>3
<1>2. \A c \in PollCalls : body[c] = << >> /\ lastKey[c] = 0 /\ pollAt[c] = "new"
  BY DEF PollInit, Each
<1>3. given = << >> /\ startAfter = 0 /\ objects = {}
  BY DEF PollInit
<1>4. ReadAhead /\ NoneSkipped
  BY <1>2, <1>3, NothingIn DEF ReadAhead, NoneSkipped
<1>5. Paged
  BY DEF PollInit, Paged, Each
<1> QED BY <1>1, <1>4, <1>5 DEF PollInv

\* Steps that read and submit nothing: they move the call from a place where it has
\* nothing in hand to another.
LEMMA PollRest ==
    ASSUME PollInv, UNCHANGED <<objects, late, startAfter, listing, lastKey, body, given, dropped, pollKind>>,
           pollKind = "s3" => \A c \in PollCalls :
             pollAt'[c] # pollAt[c] => pollAt'[c] \notin {"list", "submit"} /\ body[c] = << >> /\ pollAt[c] # "list"
    PROVE  ReadAhead' /\ NoneSkipped' /\ Paged'
<1>1. ReadAhead'
  BY DEF PollInv, ReadAhead
<1>2. NoneSkipped'
  BY DEF PollInv, NoneSkipped
<1>3. Paged'
  <2>1. UNCHANGED <<objects, late, page, lastKey, pollKind>>
    BY DEF listing
  <2> QED BY <2>1 DEF PollInv, Paged, Ahead
<1> QED BY <1>1, <1>2, <1>3

LEMMA PollInvNext == PollInv /\ [PollNext]_pollVars => PollInv'
<1> SUFFICES ASSUME PollInv, [PollNext]_pollVars PROVE PollInv'
  OBVIOUS
<1> USE DEF listing
<1>types. PollConf /\ PollTypeOK /\ OnePoller /\ TicksAnswered
  BY DEF PollInv
<1>empty. ASSUME NEW c \in PollCalls, pollAt[c] \notin {"list", "submit"}, pollKind = "s3" PROVE body[c] = << >>
  BY <1>empty DEF PollInv, ReadAhead
<1>1. CASE PollTime \/ PollCancel \/ UNCHANGED pollVars
  <2>1. /\ UNCHANGED <<pollConf, listing, objects, late, startAfter, serving, pollAt, polls, lastKey, body,
                      given, dropped, okTicks>>
    BY <1>1 DEF PollTime, PollCancel, pollVars, pollConf
  <2>2. PollConf' /\ PollTypeOK' /\ OnePoller' /\ TicksAnswered'
    BY <2>1, <1>types DEF PollConf, PollTypeOK, OnePoller, TicksAnswered, Polls, pollConf
  <2>3. ReadAhead' /\ NoneSkipped' /\ Paged'
    BY <2>1, PollRest DEF pollConf
  <2> QED BY <2>2, <2>3 DEF PollInv
<1>2. ASSUME NEW c \in PollCalls, PollServe(c) PROVE PollInv'
  <2>1. UNCHANGED <<pollConf, listing, objects, late, startAfter, polls, lastKey, body, given, dropped, okTicks>>
    BY <1>2 DEF PollServe
  <2>2. PollConf' /\ PollTypeOK'
    <3>1. PollConf'
      BY <2>1, <1>types DEF PollConf, pollConf
    <3>2. PollTypeOK'
      BY <1>2, <2>1, <1>types DEF PollServe, PollTypeOK, Go
    <3> QED BY <3>1, <3>2
  <2>3. OnePoller' /\ TicksAnswered'
    <3>1. pollAt[c] = "new" /\ \A d \in PollCalls : d # c => pollAt'[d] = pollAt[d]
      BY <1>2, <1>types DEF PollServe, PollTypeOK, At, Go
    <3>2. pollAt'[c] \in {"returned", "select"} \/ (pollAt'[c] = "fetch" /\ oneShot)
      <4>1. \/ pollAt' = [pollAt EXCEPT ![c] = "returned"] \/ pollAt' = [pollAt EXCEPT ![c] = "select"]
            \/ pollAt' = [pollAt EXCEPT ![c] = "fetch"] /\ oneShot
        BY <1>2 DEF PollServe, Go
      <4> QED BY <4>1, <1>types DEF PollTypeOK
    <3>3. pollAt'[c] # "returned" /\ pollKind # "postgres" => serving' /\ ~serving
      BY <1>2, <1>types DEF PollServe, PollTypeOK, Go
    <3>4. pollAt'[c] = "returned" => serving' = serving
      BY <1>2, <1>types DEF PollServe, PollTypeOK, Go
    <3>5. OnePoller'
      BY <2>1, <3>1, <3>2, <3>3, <3>4, <1>types DEF PollConf, OnePoller, Polls, pollConf
    <3>6. TicksAnswered'
      BY <2>1, <3>1, <3>2, <1>types DEF TicksAnswered, pollConf
    <3> QED BY <3>5, <3>6
  <2>4. ReadAhead' /\ NoneSkipped' /\ Paged'
    BY <1>2, <2>1, <1>types, <1>empty, PollRest DEF PollServe, PollTypeOK, At, Go, pollConf
  <2> QED BY <2>2, <2>3, <2>4 DEF PollInv
<1>3. ASSUME NEW c \in PollCalls, PollTick(c) PROVE PollInv'
  <2>1. UNCHANGED <<pollConf, listing, objects, late, startAfter, serving, lastKey, body, given, dropped, okTicks>>
    BY <1>3 DEF PollTick
  <2>2. PollConf' /\ PollTypeOK'
    BY <1>3, <2>1, <1>types DEF PollTick, PollConf, PollTypeOK, Go, pollConf
  <2>3. OnePoller' /\ TicksAnswered'
    BY SMTT(30), <1>3, <2>1, <1>types DEF PollTick, PollConf, PollTypeOK, OnePoller, TicksAnswered, Polls, At, Go, pollConf
  <2>4. ReadAhead' /\ NoneSkipped' /\ Paged'
    BY <1>3, <2>1, <1>types, <1>empty, PollRest DEF PollTick, PollTypeOK, At, Go, pollConf
  <2> QED BY <2>2, <2>3, <2>4 DEF PollInv
<1>4. ASSUME NEW c \in PollCalls, PollStops(c) \/ SubmitDone(c) PROVE PollInv'
  <2>1. UNCHANGED <<pollConf, listing, objects, late, startAfter, polls, lastKey, body, given, dropped, okTicks>>
    BY <1>4 DEF PollStops, SubmitDone
  <2>2. PollConf' /\ PollTypeOK'
    BY <1>4, <2>1, <1>types DEF PollStops, SubmitDone, EndServe, PollConf, PollTypeOK, Go, pollConf
  <2>3. OnePoller' /\ TicksAnswered'
    BY ZenonT(40), <1>4, <2>1, <1>types DEF PollStops, SubmitDone, EndServe, PollConf, PollTypeOK, OnePoller,
       TicksAnswered, Polls, At, Go, pollConf
  <2>4. ReadAhead' /\ NoneSkipped' /\ Paged'
    BY <1>4, <2>1, <1>types, <1>empty, PollRest DEF PollStops, SubmitDone, EndServe, PollTypeOK, At, Go, pollConf
  <2> QED BY <2>2, <2>3, <2>4 DEF PollInv
<1>5. ASSUME NEW c \in PollCalls, HttpStep(c) PROVE PollInv'
  <2>1. UNCHANGED <<pollConf, listing, objects, late, startAfter, polls, lastKey, body, given, dropped>>
    BY <1>5 DEF HttpStep, AttemptBegins, EnsureValidToken, HttpFetch, HttpSubmit, Backoff, tokVars
  <2>2. pollAt[c] \in {"attempt", "token", "request", "deliver", "sleep"}
    BY <1>5 DEF HttpStep, AttemptBegins, EnsureValidToken, HttpFetch, HttpSubmit, Backoff, At
  <2>3. pollKind = "http"
    BY <2>2, <1>types DEF OnePoller
  <2>4. \/ /\ \E place \in {"attempt", "token", "request", "deliver", "sleep"} : Go(c, place)
           /\ UNCHANGED <<serving, okTicks>>
        \/ EndServe(c, "failed") /\ UNCHANGED okTicks
        \/ Go(c, "select") /\ UNCHANGED serving /\ okTicks' = [okTicks EXCEPT ![c] = @ + 1]
    BY <1>5 DEF HttpStep, AttemptBegins, EnsureValidToken, HttpFetch, HttpSubmit, Backoff, Retry, tokVars
  <2>5. PollConf' /\ PollTypeOK'
    <3>1. PollConf'
      BY <2>1, <1>types DEF PollConf, pollConf
    <3>2. PollTypeOK'
      <4>1. \E place \in {"attempt", "token", "request", "deliver", "sleep", "select", "failed"} :
               pollAt' = [pollAt EXCEPT ![c] = place]
        BY <2>4 DEF EndServe, Go
      <4>2. okTicks' \in [PollCalls -> Nat]
        BY <2>4, <1>types DEF PollTypeOK
      <4> QED BY <2>1, <4>1, <4>2, <1>types DEF PollTypeOK
    <3> QED BY <3>1, <3>2
  <2>6. OnePoller'
    <3>1. \A d \in PollCalls : d # c => pollAt'[d] = pollAt[d] /\ ~Polls(d)
      BY <2>2, <2>3, <2>4, <1>types DEF EndServe, PollTypeOK, OnePoller, Polls, Go
    <3>2. pollAt'[c] \in {"attempt", "token", "request", "deliver", "sleep", "select", "failed"}
      BY <2>4, <1>types DEF EndServe, PollTypeOK, Go
    <3>3. pollAt'[c] # "failed" => serving' = serving
      BY <2>4, <1>types DEF EndServe, PollTypeOK, Go
    <3>4. serving
      BY <2>2, <2>3, <1>types DEF OnePoller, Polls
    <3> QED BY <2>1, <2>3, <3>1, <3>2, <3>3, <3>4, <1>types DEF OnePoller, Polls, pollConf
  <2>7. TicksAnswered'
    BY <2>1, <2>2, <2>3, <2>4, <1>types DEF EndServe, PollConf, PollTypeOK, TicksAnswered, Go, pollConf
  <2>8. ReadAhead' /\ NoneSkipped' /\ Paged'
    BY <2>1, <2>3, PollRest DEF pollConf
  <2> QED BY <2>5, <2>6, <2>7, <2>8 DEF PollInv
<1>6. ASSUME NEW k \in ObjKeys, PutObject(k) PROVE PollInv'
  <2>1. /\ UNCHANGED <<pollConf, listing, startAfter, serving, pollAt, polls, lastKey, body, given, dropped, okTicks>>
        /\ k \in Nat \ {0} /\ k \notin objects /\ objects' = objects \cup {k}
        /\ late' = IF pollKind = "s3" /\ Passed(k) THEN late \cup {k} ELSE late
    BY <1>6, PollAssumption DEF PutObject
  <2>2. PollConf' /\ PollTypeOK' /\ OnePoller' /\ TicksAnswered'
    BY <2>1, <1>types DEF PollConf, PollTypeOK, OnePoller, TicksAnswered, Polls, pollConf
  <2>3. ReadAhead'
    BY <2>1 DEF PollInv, ReadAhead, pollConf
  <2>4. ASSUME pollKind = "s3" PROVE NoneSkipped' /\ Paged'
    <3>1. startAfter # k /\ \A c \in PollCalls : lastKey[c] # k
      BY <2>1, <2>4 DEF PollInv, ReadAhead
    <3>2. startAfter \in Nat /\ \A c \in PollCalls : lastKey[c] \in Nat
      BY <1>types DEF PollTypeOK
    <3>3. objects' \ late' \subseteq (objects \ late) \cup {k}
      BY <2>1
    <3>4. k \notin late' => /\ ~(k < startAfter) /\ \A c \in PollCalls : ~(k < lastKey[c])
                             /\ \A d \in PollCalls : \A j \in page[d] : ~(k < j)
      BY <2>1, <2>4 DEF Passed
    <3>5. k <= startAfter => k \in late'
      BY <2>1, <3>1, <3>2, <3>4
    <3>6. \A c \in PollCalls : k <= lastKey[c] => k \in late'
      BY <2>1, <3>1, <3>2, <3>4
    <3>7. NoneSkipped'
      BY <2>1, <2>4, <3>3, <3>5, <3>6 DEF PollInv, NoneSkipped, pollConf
    <3>8. UNCHANGED <<page, pollAt, lastKey, pollKind>>
      BY <2>1 DEF pollConf
    <3>9. ASSUME NEW c \in PollCalls PROVE page[c] \subseteq Ahead(c) /\ Ahead(c) \subseteq Ahead(c)'
      BY <2>1, <2>4, <3>8 DEF PollInv, Paged, Ahead
    <3>10. ASSUME NEW c \in PollCalls, NEW j \in page[c], NEW i \in objects' \ late',
                  lastKey[c] < i, i <= j
           PROVE  i \in page[c]
      <4>1. CASE i # k
        BY <2>4, <3>3, <3>10, <4>1 DEF PollInv, Paged
      <4>2. CASE i = k
        <5>1. j \in objects /\ j \in Nat
          BY <3>9, <1>types, KeysAreNumbers DEF Ahead
        <5>2. k < j
          BY <2>1, <3>10, <4>2, <5>1
        <5> QED BY <3>4, <3>10, <4>2, <5>2
      <4> QED BY <4>1, <4>2
    <3>11. Paged'
      BY <2>4, <3>8, <3>9, <3>10 DEF PollInv, Paged
    <3> QED BY <3>7, <3>11
  <2>5. pollKind # "s3" => NoneSkipped' /\ Paged'
    BY <2>1 DEF NoneSkipped, Paged, pollConf
  <2> QED BY <2>2, <2>3, <2>4, <2>5 DEF PollInv
<1>7. ASSUME NEW c \in PollCalls, FetchBegins(c) PROVE PollInv'
  <2>1. /\ UNCHANGED <<pollConf, objects, late, startAfter, serving, polls, given, dropped, okTicks>>
        /\ pollAt[c] = "fetch" /\ pollAt' = [pollAt EXCEPT ![c] = "list"]
        /\ lastKey' = [lastKey EXCEPT ![c] = IF pollKind = "s3" THEN startAfter ELSE 0]
        /\ body' = [body EXCEPT ![c] = << >>]
        /\ page' = [page EXCEPT ![c] = {}] /\ more' = [more EXCEPT ![c] = TRUE]
    BY <1>7 DEF FetchBegins, At, Go
  <2>2. PollConf' /\ PollTypeOK'
    BY <2>1, <1>types DEF PollConf, PollTypeOK, pollConf
  <2>3. OnePoller' /\ TicksAnswered'
    BY <2>1, <1>types DEF PollConf, PollTypeOK, OnePoller, TicksAnswered, Polls, pollConf
  <2>4. ASSUME pollKind = "s3" PROVE ReadAhead' /\ NoneSkipped' /\ Paged'
    <3>1. body' = body
      BY <2>1, <2>4, <1>empty, <1>types DEF PollTypeOK
    <3>2. \A d \in PollCalls :
             /\ d # c => lastKey'[d] = lastKey[d] /\ pollAt'[d] = pollAt[d]
             /\ d = c => lastKey'[d] = startAfter /\ pollAt'[d] = "list" /\ body[d] = << >>
      BY <2>1, <2>4, <1>empty, <1>types DEF PollTypeOK
    <3>3. startAfter \in Nat
      BY <1>types DEF PollTypeOK
    <3>4. ReadAhead'
      <4>1. ASSUME NEW d \in PollCalls
            PROVE  /\ pollAt'[d] \notin {"list", "submit"} => body'[d] = << >>
                   /\ lastKey'[d] \in objects \cup {0}
                   /\ Rising(body'[d]) /\ \A k \in Nat : Holds(body'[d], k) => k <= lastKey'[d]
                   /\ pollAt'[d] = "list" =>
                        /\ startAfter <= lastKey'[d]
                        /\ \A k \in Nat : Holds(body'[d], k) => startAfter < k
                   /\ pollAt'[d] = "submit" =>
                        /\ startAfter = lastKey'[d]
                        /\ \A k, l \in Nat : Holds(given, k) /\ Holds(body'[d], l) => k < l
        <5>1. CASE d # c
          BY <2>4, <3>1, <3>2, <5>1 DEF PollInv, ReadAhead
        <5>2. CASE d = c
          BY <2>4, <3>1, <3>2, <3>3, <5>2, NothingIn DEF PollInv, ReadAhead
        <5> QED BY <5>1, <5>2
      <4> QED BY <2>1, <2>4, <4>1 DEF PollInv, ReadAhead
    <3>5. NoneSkipped'
      <4>1. \A d \in PollCalls : pollAt'[d] = "list" =>
               \A k \in objects \ late : startAfter < k /\ k <= lastKey'[d] => Holds(body[d], k)
        <5> SUFFICES ASSUME NEW d \in PollCalls, pollAt'[d] = "list", NEW k \in objects \ late,
                            startAfter < k, k <= lastKey'[d]
                     PROVE  Holds(body[d], k)
          OBVIOUS
        <5>1. CASE d # c
          BY <2>4, <3>2, <5>1 DEF PollInv, NoneSkipped
        <5>2. CASE d = c
          <6>1. k \in Nat
            BY <1>types, KeysAreNumbers
          <6> QED BY <3>2, <3>3, <5>2, <6>1
        <5> QED BY <5>1, <5>2
      <4>2. UNCHANGED <<objects, late, startAfter, given, dropped>> /\ body' = body
        BY <2>1, <3>1
      <4> QED BY <2>4, <4>1, <4>2 DEF PollInv, NoneSkipped
    <3>6. \A d \in PollCalls : page'[d] = {}
      <4>1. \A d \in PollCalls : d # c => page[d] = {}
        BY <2>1, <2>4, <1>types DEF PollInv, Paged, OnePoller, Polls
      <4> QED BY <2>1, <4>1, <1>types DEF PollTypeOK
    <3>7. Paged'
      BY <3>6 DEF Paged
    <3> QED BY <3>4, <3>5, <3>7
  <2>5. pollKind # "s3" => ReadAhead' /\ NoneSkipped' /\ Paged'
    BY <2>1 DEF ReadAhead, NoneSkipped, Paged, pollConf
  <2> QED BY <2>2, <2>3, <2>4, <2>5 DEF PollInv
<1>13. ASSUME NEW c \in PollCalls, ListPage(c) PROVE PollInv'
  <2>1. /\ UNCHANGED <<pollConf, objects, late, startAfter, serving, pollAt, polls, lastKey, body, given,
                      dropped, okTicks>>
        /\ pollAt[c] = "list" /\ page' = [page EXCEPT ![c] = PageOf(c)]
        /\ more' = [more EXCEPT ![c] = pollKind = "s3" /\ PageOf(c) # Ahead(c)]
    BY <1>13 DEF ListPage, At
  <2>2. PollTypeOK'
    <3>1. PageOf(c) \subseteq ObjKeys
      BY <1>types DEF PageOf, Ahead, PollTypeOK
    <3>2. page' \in [PollCalls -> SUBSET ObjKeys] /\ more' \in [PollCalls -> BOOLEAN]
      <4>1. page \in [PollCalls -> SUBSET ObjKeys] /\ more \in [PollCalls -> BOOLEAN]
        BY <1>types DEF PollTypeOK
      <4>2. (pollKind = "s3" /\ PageOf(c) # Ahead(c)) \in BOOLEAN
        OBVIOUS
      <4> QED BY <2>1, <3>1, <4>1, <4>2
    <3> QED BY <2>1, <3>2, <1>types DEF PollTypeOK
  <2>3. PollConf' /\ OnePoller' /\ TicksAnswered'
    BY <2>1, <1>types DEF PollConf, OnePoller, TicksAnswered, Polls, pollConf
  <2>4. ReadAhead' /\ NoneSkipped'
    BY <2>1 DEF PollInv, ReadAhead, NoneSkipped, pollConf
  <2>5. ASSUME pollKind = "s3" PROVE Paged'
    <3>1. \A d \in PollCalls : page'[d] = IF d = c THEN PageOf(c) ELSE page[d]
      BY <2>1, <1>types DEF PollTypeOK
    <3>2. UNCHANGED <<objects, late, lastKey, pollAt, pollKind>> /\ \A d \in PollCalls : Ahead(d)' = Ahead(d)
      BY <2>1 DEF Ahead, pollConf
    <3>3. \A k \in objects : lastKey[c] < k => k \in Ahead(c)
      BY <1>types, KeysAreNumbers DEF Ahead, PollTypeOK
    <3>4. /\ PageOf(c) \subseteq Ahead(c)
          /\ \A j \in PageOf(c), k \in Ahead(c) : k <= j => k \in PageOf(c)
      BY <2>5, <1>types, PageFirst
    <3> QED BY <2>1, <2>5, <3>1, <3>2, <3>3, <3>4 DEF PollInv, Paged
  <2>6. pollKind # "s3" => Paged'
    BY <2>1 DEF Paged, pollConf
  <2> QED BY <2>2, <2>3, <2>4, <2>5, <2>6 DEF PollInv
<1>8. ASSUME NEW c \in PollCalls, FetchNext(c) PROVE PollInv'
  <2> DEFINE n == Min(page[c])
  <2>1. /\ UNCHANGED <<pollConf, more, objects, late, startAfter, serving, pollAt, polls, given, dropped, okTicks>>
        /\ pollAt[c] = "list" /\ lastKey' = [lastKey EXCEPT ![c] = n]
        /\ body' = [body EXCEPT ![c] = Append(body[c], n)]
        /\ page' = [page EXCEPT ![c] = page[c] \ {n}]
    BY <1>8 DEF FetchNext, At
  <2>2. page[c] \subseteq Nat /\ page[c] # {}
    BY <1>8, <1>types, KeysAreNumbers DEF FetchNext
  <2>3. n \in page[c] /\ \A k \in page[c] : n <= k
    BY <2>2, LeastOf
  <2>4. n \in Nat /\ lastKey[c] \in Nat /\ body[c] \in Seq(Nat)
    BY <2>2, <2>3, <1>types DEF PollTypeOK
  <2>a. pollKind = "s3" => n \in objects /\ lastKey[c] < n
    BY <2>3 DEF PollInv, Paged, Ahead
  <2>5. ASSUME pollKind = "s3", NEW k \in objects \ late, lastKey[c] < k, k <= n PROVE k = n
    <3>1. k \in page[c]
      BY <2>3, <2>5 DEF PollInv, Paged
    <3> QED BY <2>2, <2>3, <2>4, <2>5, <3>1
  <2> HIDE DEF n
  <2>6. PollConf' /\ PollTypeOK'
    <3>1. page' \in [PollCalls -> SUBSET ObjKeys]
      <4>1. page \in [PollCalls -> SUBSET ObjKeys]
        BY <1>types DEF PollTypeOK
      <4> QED BY <2>1, <4>1
    <3>2. lastKey' \in [PollCalls -> Nat] /\ body' \in [PollCalls -> Seq(Nat)]
      BY <2>1, <2>4, <1>types DEF PollTypeOK
    <3> QED BY <2>1, <3>1, <3>2, <1>types DEF PollConf, PollTypeOK, pollConf
  <2>7. OnePoller' /\ TicksAnswered'
    BY <2>1, <1>types DEF PollConf, PollTypeOK, OnePoller, TicksAnswered, Polls, pollConf
  <2>8. ASSUME pollKind = "s3" PROVE ReadAhead' /\ NoneSkipped' /\ Paged'
    <3>1. \A d \in PollCalls : d # c => lastKey'[d] = lastKey[d] /\ body'[d] = body[d]
      BY <2>1, <1>types DEF PollTypeOK
    <3>2. lastKey'[c] = n /\ body'[c] = Append(body[c], n)
      BY <2>1, <1>types DEF PollTypeOK
    <3>3. /\ Rising(body[c]) /\ \A k \in Nat : Holds(body[c], k) => k <= lastKey[c]
          /\ startAfter <= lastKey[c] /\ \A k \in Nat : Holds(body[c], k) => startAfter < k
      BY <2>1, <2>8 DEF PollInv, ReadAhead
    <3>4. /\ \A k \in Nat : Holds(body'[c], k) <=> Holds(body[c], k) \/ k = n
          /\ Rising(body'[c])
      <4>1. \A k \in Nat : Holds(body[c], k) => k < n
        BY <2>4, <2>a, <2>8, <3>3
      <4> QED BY <2>4, <3>2, <3>3, <4>1, RisingAppend
    <3>5. startAfter \in Nat
      BY <1>types DEF PollTypeOK
    <3>6. \A k \in Nat : Holds(body'[c], k) => k <= lastKey'[c] /\ startAfter < k
      BY <2>4, <2>a, <2>8, <3>2, <3>3, <3>4, <3>5
    <3>7. startAfter <= lastKey'[c] /\ lastKey'[c] \in objects
      BY <2>4, <2>a, <2>8, <3>2, <3>3, <3>5
    <3>8. ReadAhead'
      BY <2>1, <2>8, <3>1, <3>4, <3>6, <3>7 DEF PollInv, ReadAhead
    <3>9. \A k \in objects \ late : startAfter < k /\ k <= lastKey'[c] => Holds(body'[c], k)
      <4> SUFFICES ASSUME NEW k \in objects \ late, startAfter < k, k <= lastKey'[c] PROVE Holds(body'[c], k)
        OBVIOUS
      <4>1. k \in Nat
        BY <1>types, KeysAreNumbers
      <4>2. CASE k <= lastKey[c]
        BY <2>1, <2>8, <3>4, <4>1, <4>2 DEF PollInv, NoneSkipped
      <4>3. CASE lastKey[c] < k
        BY <2>4, <2>5, <2>8, <3>2, <3>4, <4>1, <4>3
      <4> QED BY <2>4, <4>1, <4>2, <4>3
    <3>10. \A k \in Nat, d \in PollCalls : Holds(body[d], k) => Holds(body'[d], k)
      BY <3>1, <3>4
    <3>11. NoneSkipped'
      BY <2>1, <2>8, <3>1, <3>9, <3>10, <1>types, KeysAreNumbers DEF PollInv, NoneSkipped
    <3>12. Paged'
      <4>1. \A d \in PollCalls :
              /\ d # c => page'[d] = page[d] /\ Ahead(d)' = Ahead(d)
              /\ d = c => page'[d] = page[c] \ {n}
        <5>1. page \in [PollCalls -> SUBSET ObjKeys]
          BY <1>types DEF PollTypeOK
        <5> QED BY <2>1, <3>1, <5>1 DEF Ahead
      <4>2. ASSUME NEW k \in page[c] \ {n} PROVE k \in Ahead(c)'
        <5>1. k \in objects /\ k \in Nat /\ n <= k /\ k # n
          BY <2>2, <2>3, <2>8 DEF PollInv, Paged, Ahead
        <5> QED BY <2>1, <2>4, <3>2, <5>1 DEF Ahead
      <4>3. ASSUME NEW j \in page[c] \ {n}, NEW k \in objects \ late, n < k, k <= j PROVE k \in page[c] \ {n}
        <5>1. k \in Nat /\ lastKey[c] < k
          BY <2>4, <2>8, <2>a, <4>3, <1>types, KeysAreNumbers
        <5> QED BY <2>4, <2>8, <4>3, <5>1 DEF PollInv, Paged
      <4>4. UNCHANGED <<objects, late, pollAt, pollKind>>
        BY <2>1 DEF pollConf
      <4> QED BY <2>1, <2>8, <3>1, <3>2, <4>1, <4>2, <4>3, <4>4 DEF PollInv, Paged
    <3> QED BY <3>8, <3>11, <3>12
  <2>9. pollKind # "s3" => ReadAhead' /\ NoneSkipped' /\ Paged'
    BY <2>1 DEF ReadAhead, NoneSkipped, Paged, pollConf
  <2> QED BY <2>6, <2>7, <2>8, <2>9 DEF PollInv
<1>9. ASSUME NEW c \in PollCalls, S3FetchFails(c) \/ PostgresFetchFails(c) PROVE PollInv'
  <2>1. /\ UNCHANGED <<pollConf, objects, startAfter, polls, given, dropped, okTicks>>
        /\ pollAt[c] = "list"
        /\ body' = [body EXCEPT ![c] = << >>]
        /\ lastKey' = [lastKey EXCEPT ![c] = 0]
        /\ page' = [page EXCEPT ![c] = {}] /\ more' = [more EXCEPT ![c] = FALSE]
        /\ pollKind # "http"
        /\ pollKind = "s3" => late' = {k \in late : k <= startAfter}
    BY <1>9 DEF S3FetchFails, PostgresFetchFails, GivesUp, At
  <2>2. \/ EndServe(c, "failed")
        \/ Go(c, "select") /\ UNCHANGED serving
    BY <1>9 DEF S3FetchFails, PostgresFetchFails
  <2>3. PollConf' /\ PollTypeOK'
    <3>1. PollConf'
      BY <2>1, <1>types DEF PollConf, pollConf
    <3>2. PollTypeOK'
      <4>1. pollAt' = [pollAt EXCEPT ![c] = "failed"] \/ pollAt' = [pollAt EXCEPT ![c] = "select"]
        BY <2>2 DEF EndServe, Go
      <4>2. lastKey' \in [PollCalls -> Nat]
        <5>1. lastKey' = [lastKey EXCEPT ![c] = 0]
          BY <2>1
        <5>2. lastKey \in [PollCalls -> Nat]
          BY <1>types DEF PollTypeOK
        <5> QED BY <5>1, <5>2
      <4>3. body' \in [PollCalls -> Seq(Nat)]
        BY <2>1, <1>types DEF PollTypeOK
      <4>4. UNCHANGED <<objects, startAfter, polls, given, okTicks>>
        BY <2>1
      <4>5. page' \in [PollCalls -> SUBSET ObjKeys] /\ more' \in [PollCalls -> BOOLEAN]
        <5>1. page \in [PollCalls -> SUBSET ObjKeys] /\ more \in [PollCalls -> BOOLEAN]
          BY <1>types DEF PollTypeOK
        <5> QED BY <2>1, <5>1
      <4> QED BY <4>1, <4>2, <4>3, <4>4, <4>5, <1>types DEF PollTypeOK
    <3> QED BY <3>1, <3>2
  <2>4. OnePoller' /\ TicksAnswered'
    <3>1. /\ \A d \in PollCalls : d # c => pollAt'[d] = pollAt[d]
          /\ pollAt'[c] \in {"failed", "select"} /\ (pollAt'[c] = "select" => serving' = serving)
      BY <2>2, <1>types DEF PollTypeOK, EndServe, Go
    <3>2. OnePoller'
      BY <2>1, <3>1, <1>types DEF OnePoller, Polls, pollConf
    <3>3. TicksAnswered'
      BY <2>1, <3>1, <1>types DEF TicksAnswered, pollConf
    <3> QED BY <3>2, <3>3
  <2>5. ASSUME pollKind = "s3" PROVE ReadAhead' /\ NoneSkipped' /\ Paged'
    <3>1. \A d \in PollCalls :
            /\ d # c => lastKey'[d] = lastKey[d] /\ body'[d] = body[d] /\ pollAt'[d] = pollAt[d]
            /\ d = c => lastKey'[d] = 0 /\ body'[d] = << >> /\ pollAt'[d] \in {"failed", "select"}
      BY <2>1, <2>2, <2>5, <1>types DEF PollTypeOK, EndServe, Go
    <3>2. ReadAhead'
      <4>1. ASSUME NEW d \in PollCalls
            PROVE  /\ pollAt'[d] \notin {"list", "submit"} => body'[d] = << >>
                   /\ lastKey'[d] \in objects \cup {0}
                   /\ Rising(body'[d]) /\ \A k \in Nat : Holds(body'[d], k) => k <= lastKey'[d]
                   /\ pollAt'[d] = "list" =>
                        /\ startAfter <= lastKey'[d]
                        /\ \A k \in Nat : Holds(body'[d], k) => startAfter < k
                   /\ pollAt'[d] = "submit" =>
                        /\ startAfter = lastKey'[d]
                        /\ \A k, l \in Nat : Holds(given, k) /\ Holds(body'[d], l) => k < l
        <5>1. CASE d # c
          BY <2>5, <3>1, <5>1 DEF PollInv, ReadAhead
        <5>2. CASE d = c
          BY <3>1, <5>2, NothingIn
        <5> QED BY <5>1, <5>2
      <4> QED BY <2>1, <2>5, <4>1 DEF PollInv, ReadAhead
    <3>3. \A k \in Nat : Holds(body[c], k) => startAfter < k
      BY <2>1, <2>5 DEF PollInv, ReadAhead
    <3>4. startAfter \in Nat /\ objects \subseteq Nat
      BY <1>types, KeysAreNumbers DEF PollTypeOK
    <3>5. \A k \in Nat : k <= startAfter => ~Holds(body[c], k)
      BY <3>3, <3>4
    <3>a. \A d \in PollCalls : pollAt'[d] # "list"
      BY <2>1, <2>5, <3>1, <1>types DEF OnePoller, Polls
    <3>6. NoneSkipped'
      <4>1. \A k \in objects \ late' : k <= startAfter => k \in objects \ late
        BY <2>1, <2>5
      <4> QED BY <2>1, <2>5, <3>1, <3>4, <3>5, <3>a, <4>1 DEF PollInv, NoneSkipped
    <3>7. Paged'
      <4>1. \A d \in PollCalls : page'[d] = {}
        <5>1. \A d \in PollCalls : d # c => page[d] = {}
          BY <2>1, <2>5, <1>types DEF PollInv, Paged, OnePoller, Polls
        <5> QED BY <2>1, <5>1, <1>types DEF PollTypeOK
      <4> QED BY <4>1 DEF Paged
    <3> QED BY <3>2, <3>6, <3>7
  <2>6. pollKind # "s3" => ReadAhead' /\ NoneSkipped' /\ Paged'
    BY <2>1 DEF ReadAhead, NoneSkipped, Paged, pollConf
  <2> QED BY <2>3, <2>4, <2>5, <2>6 DEF PollInv
<1>10. ASSUME NEW c \in PollCalls, S3Fetched(c) PROVE PollInv'
  <2>1. /\ UNCHANGED <<pollConf, listing, objects, late, serving, polls, lastKey, body, given, dropped, okTicks>>
        /\ pollKind = "s3" /\ pollAt[c] = "list" /\ pollAt' = [pollAt EXCEPT ![c] = "submit"]
        /\ startAfter' = lastKey[c]
        /\ page[c] = {}
    BY <1>10 DEF S3Fetched, ListedAll, At, Go
  <2>2. PollConf' /\ PollTypeOK'
    BY <2>1, <1>types DEF PollConf, PollTypeOK, pollConf
  <2>3. OnePoller' /\ TicksAnswered'
    BY <2>1, <1>types DEF PollConf, PollTypeOK, OnePoller, TicksAnswered, Polls, pollConf
  <2>4. \A d \in PollCalls : d # c => pollAt'[d] = pollAt[d] /\ pollAt[d] \notin {"list", "submit"}
    BY <2>1, <1>types DEF PollTypeOK, OnePoller, Polls
  <2>5. pollAt'[c] = "submit"
    BY <2>1, <1>types DEF PollTypeOK
  <2>6. /\ startAfter <= lastKey[c] /\ lastKey[c] \in objects \cup {0}
        /\ \A k \in Nat : Holds(body[c], k) => startAfter < k
        /\ \A k \in Nat : Holds(given, k) => k <= startAfter
    BY <2>1 DEF PollInv, ReadAhead
  <2>7. startAfter \in Nat /\ lastKey[c] \in Nat /\ objects \subseteq Nat
    BY <1>types, KeysAreNumbers DEF PollTypeOK
  <2>8. /\ \A k \in Nat : Holds(given, k) => k <= lastKey[c]
        /\ \A k, l \in Nat : Holds(given, k) /\ Holds(body[c], l) => k < l
    BY <2>6, <2>7
  <2>9. ReadAhead'
    BY <2>1, <2>4, <2>5, <2>6, <2>8 DEF PollInv, ReadAhead
  <2>10. \A k \in objects \ late : k <= lastKey[c] =>
             Holds(given, k) \/ (\E d \in PollCalls : Holds(body[d], k)) \/ k \in dropped
    <3> SUFFICES ASSUME NEW k \in objects \ late, k <= lastKey[c]
                 PROVE  Holds(given, k) \/ (\E d \in PollCalls : Holds(body[d], k)) \/ k \in dropped
      OBVIOUS
    <3>1. k \in Nat
      BY <2>7
    <3>2. k <= startAfter \/ startAfter < k
      BY <2>7, <3>1
    <3> QED BY <2>1, <3>2 DEF PollInv, NoneSkipped
  <2>11. NoneSkipped'
    BY <2>1, <2>4, <2>5, <2>10 DEF NoneSkipped
  <2>12. Paged'
    <3>1. UNCHANGED <<objects, late, page, lastKey>> /\ \A d \in PollCalls : Ahead(d)' = Ahead(d)
      BY <2>1 DEF Ahead
    <3> QED BY <2>1, <2>4, <2>5, <3>1 DEF PollInv, Paged
  <2> QED BY <2>2, <2>3, <2>9, <2>11, <2>12 DEF PollInv
<1>11. ASSUME NEW c \in PollCalls, PostgresFetched(c) PROVE PollInv'
  <2>1. /\ UNCHANGED <<pollConf, listing, objects, late, startAfter, serving, polls, lastKey, body, given, dropped, okTicks>>
        /\ pollKind = "postgres" /\ pollAt' = [pollAt EXCEPT ![c] = "submit"]
    BY <1>11 DEF PostgresFetched, Go
  <2>2. PollConf' /\ PollTypeOK'
    BY <2>1, <1>types DEF PollConf, PollTypeOK, pollConf
  <2>3. OnePoller' /\ TicksAnswered'
    BY <2>1, <1>types DEF PollConf, PollTypeOK, OnePoller, TicksAnswered, Polls, pollConf
  <2>4. ReadAhead' /\ NoneSkipped' /\ Paged'
    BY <2>1 DEF ReadAhead, NoneSkipped, Paged, pollConf
  <2> QED BY <2>2, <2>3, <2>4 DEF PollInv
<1>12. ASSUME NEW c \in PollCalls, SubmitNext(c) PROVE PollInv'
  <2>1. /\ UNCHANGED <<pollConf, listing, objects, late, startAfter, polls, lastKey, okTicks>>
        /\ pollKind # "http" /\ pollAt[c] = "submit" /\ body[c] # << >>
        /\ \A d \in PollCalls : Ahead(d)' = Ahead(d)
    BY <1>12 DEF SubmitNext, At, Ahead
  <2>2. /\ body[c] \in Seq(Nat) /\ Tail(body[c]) \in Seq(Nat) /\ Head(body[c]) \in Nat
        /\ \A k \in Nat : Holds(body[c], k) <=> k = Head(body[c]) \/ Holds(Tail(body[c]), k)
        /\ Rising(body[c]) => Rising(Tail(body[c])) /\ \A k \in Nat : Holds(Tail(body[c]), k) => Head(body[c]) < k
    <3>1. body[c] \in Seq(Nat)
      BY <1>types DEF PollTypeOK
    <3> QED BY <2>1, <3>1, RisingTail
  <2>3. pollKind = "s3" =>
          /\ Rising(body[c]) /\ \A k \in Nat : Holds(body[c], k) => k <= lastKey[c]
          /\ startAfter = lastKey[c] /\ Rising(given) /\ \A k \in Nat : Holds(given, k) => k <= startAfter
          /\ \A k, l \in Nat : Holds(given, k) /\ Holds(body[c], l) => k < l
    BY <2>1 DEF PollInv, ReadAhead
  <2>4. CASE /\ given' = Append(given, Head(body[c]))
             /\ body' = [body EXCEPT ![c] = Tail(body[c])] /\ UNCHANGED <<pollAt, serving, dropped>>
    <3>1. given \in Seq(Nat)
      BY <1>types DEF PollTypeOK
    <3>2. /\ given' \in Seq(Nat)
          /\ \A k \in Nat : Holds(given', k) <=> Holds(given, k) \/ k = Head(body[c])
          /\ Rising(given) /\ (\A k \in Nat : Holds(given, k) => k < Head(body[c])) => Rising(given')
      BY <2>2, <2>4, <3>1, RisingAppend
    <3>3. PollConf' /\ PollTypeOK'
      BY <2>1, <2>2, <2>4, <3>2, <1>types DEF PollConf, PollTypeOK, pollConf
    <3>4. OnePoller' /\ TicksAnswered'
      BY <2>1, <2>4, <1>types DEF OnePoller, TicksAnswered, Polls, pollConf
    <3>5. ASSUME pollKind = "s3" PROVE ReadAhead' /\ NoneSkipped' /\ Paged'
      <4>1. \A d \in PollCalls : d # c => body'[d] = body[d] /\ pollAt[d] \notin {"list", "submit"}
        BY <2>1, <2>4, <3>5, <1>types DEF PollTypeOK, OnePoller, Polls
      <4>2. body'[c] = Tail(body[c])
        BY <2>4, <1>types DEF PollTypeOK
      <4>3. Holds(body[c], Head(body[c])) /\ Head(body[c]) <= startAfter
        BY <2>2, <2>3, <3>5
      <4>4. Rising(given') /\ \A k \in Nat : Holds(given', k) => k <= startAfter
        BY <2>2, <2>3, <3>2, <3>5, <4>3
      <4>5. \A k, l \in Nat : Holds(given', k) /\ Holds(body'[c], l) => k < l
        BY <2>2, <2>3, <3>2, <3>5, <4>2
      <4>6. Rising(body'[c]) /\ \A k \in Nat : Holds(body'[c], k) => k <= lastKey[c]
        BY <2>2, <2>3, <3>5, <4>2
      <4>7. ReadAhead'
        BY <2>1, <2>4, <3>5, <4>1, <4>4, <4>5, <4>6 DEF PollInv, ReadAhead
      <4>8. \A k \in Nat, d \in PollCalls : Holds(body[d], k) => Holds(body'[d], k) \/ Holds(given', k)
        BY <2>2, <3>2, <4>1, <4>2
      <4>9. \A k \in Nat : Holds(given, k) => Holds(given', k)
        BY <3>2
      <4>10. NoneSkipped'
        <5>1. pollAt' = pollAt /\ pollAt[c] # "list"
          BY <2>1, <2>4
        <5> QED BY <2>1, <2>4, <3>5, <4>1, <4>8, <4>9, <5>1, <1>types, KeysAreNumbers DEF PollInv, NoneSkipped
      <4>11. Paged'
        BY <2>1, <2>4 DEF PollInv, Paged, pollConf
      <4> QED BY <4>7, <4>10, <4>11
    <3>6. pollKind # "s3" => ReadAhead' /\ NoneSkipped' /\ Paged'
      BY <2>1 DEF ReadAhead, NoneSkipped, Paged, pollConf
    <3> QED BY <3>3, <3>4, <3>5, <3>6 DEF PollInv
  <2>5. CASE /\ dropped' = dropped \cup {body[c][i] : i \in DOMAIN body[c]}
             /\ body' = [body EXCEPT ![c] = << >>] /\ EndServe(c, "failed") /\ UNCHANGED given
    <3>1. PollConf' /\ PollTypeOK'
      BY <2>1, <2>5, <1>types DEF PollConf, PollTypeOK, EndServe, Go, pollConf
    <3>2. OnePoller' /\ TicksAnswered'
      BY <2>1, <2>5, <1>types DEF PollTypeOK, OnePoller, TicksAnswered, Polls, EndServe, Go, pollConf
    <3>3. ASSUME pollKind = "s3" PROVE ReadAhead' /\ NoneSkipped' /\ Paged'
      <4>1. \A d \in PollCalls :
              /\ d # c => body'[d] = body[d] /\ pollAt'[d] = pollAt[d]
              /\ d = c => body'[d] = << >> /\ pollAt'[d] = "failed"
        BY <2>5, <1>types DEF PollTypeOK, EndServe, Go
      <4>2. ReadAhead'
        <5>1. ASSUME NEW d \in PollCalls
              PROVE  /\ pollAt'[d] \notin {"list", "submit"} => body'[d] = << >>
                     /\ lastKey'[d] \in objects \cup {0}
                     /\ Rising(body'[d]) /\ \A k \in Nat : Holds(body'[d], k) => k <= lastKey'[d]
                     /\ pollAt'[d] = "list" =>
                          /\ startAfter <= lastKey'[d]
                          /\ \A k \in Nat : Holds(body'[d], k) => startAfter < k
                     /\ pollAt'[d] = "submit" =>
                          /\ startAfter = lastKey'[d]
                          /\ \A k, l \in Nat : Holds(given, k) /\ Holds(body'[d], l) => k < l
          <6>1. CASE d # c
            BY <2>1, <3>3, <4>1, <6>1 DEF PollInv, ReadAhead
          <6>2. CASE d = c
            <7>1. lastKey[c] \in objects \cup {0} /\ lastKey' = lastKey
              BY <2>1, <3>3 DEF PollInv, ReadAhead
            <7> QED BY <4>1, <6>2, <7>1, NothingIn
          <6> QED BY <6>1, <6>2
        <5> QED BY <2>1, <2>5, <3>3, <5>1 DEF PollInv, ReadAhead
      <4>3. \A k : Holds(body[c], k) => k \in dropped'
        BY <2>2, <2>5 DEF Holds
      <4>4. NoneSkipped'
        BY <2>1, <2>5, <3>3, <4>1, <4>3 DEF PollInv, NoneSkipped
      <4>5. Paged'
        <5>1. UNCHANGED <<objects, late, page, lastKey>>
          BY <2>1
        <5> QED BY <2>1, <3>3, <4>1, <5>1 DEF PollInv, Paged
      <4> QED BY <4>2, <4>4, <4>5
    <3>4. pollKind # "s3" => ReadAhead' /\ NoneSkipped' /\ Paged'
      BY <2>1 DEF ReadAhead, NoneSkipped, Paged, pollConf
    <3> QED BY <3>1, <3>2, <3>3, <3>4 DEF PollInv
  <2> QED BY <1>12, <2>4, <2>5 DEF SubmitNext
<1> QED
  BY <1>1, <1>2, <1>3, <1>4, <1>5, <1>6, <1>7, <1>8, <1>9, <1>10, <1>11, <1>12, <1>13
     DEF PollNext, PollStep, S3Step, PostgresStep

\* For any objects, pages, polls, calls, retries and failures: s3client submits an object
\* once at most and in key order, and skips none it has moved past that was not put before
\* a key already listed; httpclient waits for its next tick only when the last one was
\* submitted exactly once.
THEOREM PollersAccount == PollSpec => []PollAccounted
<1>1. PollInv => PollAccounted
  <2> SUFFICES ASSUME PollInv PROVE PollAccounted
    OBVIOUS
  <2>1. ASSUME NEW s \in Seq(Nat), NEW k, Holds(s, k) PROVE k \in {s[i] : i \in DOMAIN s}
    BY <2>1 DEF Holds
  <2>2. \A c \in PollCalls : body[c] \in Seq(Nat)
    BY DEF PollInv, PollTypeOK
  <2>3. given \in Seq(Nat)
    BY DEF PollInv, PollTypeOK
  <2>4. ASSUME pollKind = "s3"
        PROVE  /\ \A i, j \in DOMAIN given : i < j => given[i] < given[j]
               /\ \A k \in objects \ late : k <= startAfter => k \in Given \cup InHand \cup dropped
    <3>1. \A i, j \in DOMAIN given : i < j => given[i] < given[j]
      BY <2>3, <2>4 DEF PollInv, ReadAhead, Rising
    <3>2. \A k : Holds(given, k) => k \in Given
      BY <2>1, <2>3 DEF Given
    <3>3. \A k, c : c \in PollCalls /\ Holds(body[c], k) => k \in InHand
      BY <2>1, <2>2 DEF InHand
    <3> QED BY <2>4, <3>1, <3>2, <3>3 DEF PollInv, NoneSkipped
  <2>5. pollKind = "http" => \A c \in PollCalls : pollAt[c] = "select" => okTicks[c] = polls[c]
    BY DEF PollInv, TicksAnswered
  <2> QED BY <2>4, <2>5 DEF PollAccounted
<1> QED BY <1>1, PollInvInit, PollInvNext, PTL DEF PollSpec

-----------------------------------------------------------------------------
(* The batching writers. *)

\* The records of each wire in the order of their numbers, in a sequence and from one
\* set to another.
Sorted(s) ==
    \A j, k \in DOMAIN s : j < k /\ Input(s[j]) = Input(s[k]) => s[j][2] < s[k][2]
Sooner(A, B) == \A r \in A, q \in B : Input(r) = Input(q) => r[2] < q[2]

LEMMA NothingQueued == Range(<<>>) = {} /\ IsInjective(<<>>) /\ Sorted(<<>>)
  BY DEF Range, IsInjective, Sorted

Longer(s, r, t) == t = Append(s, r)
Both(s, t, u) == u = s \o t

LEMMA RangeBehind ==
    ASSUME NEW S, NEW s \in Seq(S), NEW r, NEW t, Longer(s, r, t)
    PROVE  Range(t) = Range(s) \union {r}
<1> DEFINE n == Len(s)
<1>1. /\ DOMAIN Append(s, r) = 1..(n + 1) /\ DOMAIN s = 1..n /\ n \in Nat
      /\ \A k \in 1..n : Append(s, r)[k] = s[k]
      /\ Append(s, r)[n + 1] = r
  OBVIOUS
<1> HIDE DEF n
<1>2. /\ DOMAIN t = 1..(n + 1) /\ DOMAIN s = 1..n /\ n \in Nat
      /\ \A k \in 1..n : t[k] = s[k]
      /\ t[n + 1] = r
  BY <1>1 DEF Longer
<1>3. ASSUME NEW x \in Range(t) PROVE x \in Range(s) \union {r}
  BY <1>2, <1>3 DEF Range
<1>4. ASSUME NEW x \in Range(s) PROVE x \in Range(t)
  BY <1>2, <1>4 DEF Range
<1>5. r \in Range(t)
  BY <1>2 DEF Range
<1> QED BY <1>3, <1>4, <1>5

LEMMA Behind ==
    ASSUME NEW S, NEW s \in Seq(S), NEW r \in S, NEW t, Longer(s, r, t)
    PROVE  /\ t \in Seq(S) /\ t # <<>> /\ Len(t) = Len(s) + 1
           /\ Range(t) = Range(s) \union {r}
           /\ IsInjective(s) /\ r \notin Range(s) => IsInjective(t)
           /\ Sorted(s) /\ Sooner(Range(s), {r}) => Sorted(t)
<1>1. /\ Append(s, r) \in Seq(S) /\ Append(s, r) # <<>> /\ Len(Append(s, r)) = Len(s) + 1
      /\ DOMAIN Append(s, r) = 1..(Len(s) + 1) /\ DOMAIN s = 1..Len(s) /\ Len(s) \in Nat
      /\ \A k \in 1..Len(s) : Append(s, r)[k] = s[k]
      /\ Append(s, r)[Len(s) + 1] = r
  OBVIOUS
<1>0. t = Append(s, r)
  BY DEF Longer
<1> DEFINE n == Len(s)
<1> HIDE DEF n
<1>2. /\ DOMAIN t = 1..(n + 1) /\ DOMAIN s = 1..n /\ n \in Nat
      /\ \A k \in 1..n : t[k] = s[k]
      /\ t[n + 1] = r
  BY <1>0, <1>1 DEF n
<1>3. Range(t) = Range(s) \union {r}
  BY RangeBehind
<1>4. ASSUME IsInjective(s), r \notin Range(s) PROVE IsInjective(t)
  BY <1>2, <1>4 DEF IsInjective, Range
<1>5. ASSUME Sorted(s), Sooner(Range(s), {r}) PROVE Sorted(t)
  <2> SUFFICES ASSUME NEW j \in 1..(n + 1), NEW k \in 1..(n + 1), j < k, Input(t[j]) = Input(t[k])
               PROVE  t[j][2] < t[k][2]
    BY <1>2 DEF Sorted
  <2>1. CASE k \in 1..n
    BY <1>2, <1>5, <2>1 DEF Sorted
  <2>2. CASE k = n + 1
    <3>1. j \in 1..n /\ t[j] = s[j] /\ t[k] = r
      BY <1>2, <2>2
    <3>2. s[j] \in Range(s)
      BY <1>2, <3>1 DEF Range
    <3> QED BY <1>5, <3>1, <3>2 DEF Sooner
  <2> QED BY <1>2, <2>1, <2>2
<1> QED BY <1>0, <1>1, <1>3, <1>4, <1>5

LEMMA InFront ==
    ASSUME NEW S, NEW s \in Seq(S), s # <<>>, IsInjective(s)
    PROVE  /\ Head(s) \in S /\ Tail(s) \in Seq(S) /\ Len(Tail(s)) = Len(s) - 1 /\ Len(s) \in Nat
           /\ Head(s) \in Range(s)
           /\ Range(Tail(s)) = Range(s) \ {Head(s)} /\ IsInjective(Tail(s))
           /\ Sorted(s) => Sorted(Tail(s)) /\ Sooner({Head(s)}, Range(Tail(s)))
<1> DEFINE t == Tail(s)
           n == Len(s)
           h == Head(s)
<1>1. /\ DOMAIN t = 1..(n - 1) /\ DOMAIN s = 1..n /\ n \in Nat /\ n > 0
      /\ \A k \in 1..(n - 1) : t[k] = s[k + 1]
      /\ h = s[1] /\ h \in S /\ t \in Seq(S) /\ Len(t) = n - 1
  OBVIOUS
<1> HIDE DEF t, n, h
<1>2. h \in Range(s)
  BY <1>1 DEF Range
<1>3. Range(t) = Range(s) \ {h}
  <2>1. ASSUME NEW x \in Range(t) PROVE x \in Range(s) \ {h}
    <3>1. PICK k \in 1..(n - 1) : x = s[k + 1]
      BY <1>1, <2>1 DEF Range
    <3>2. k + 1 \in DOMAIN s /\ 1 \in DOMAIN s /\ k + 1 # 1
      BY <1>1
    <3> QED BY <1>1, <3>1, <3>2 DEF Range, IsInjective
  <2>2. ASSUME NEW x \in Range(s) \ {h} PROVE x \in Range(t)
    <3>1. PICK k \in 1..n : x = s[k]
      BY <1>1, <2>2 DEF Range
    <3>2. k - 1 \in 1..(n - 1) /\ t[k - 1] = x
      BY <1>1, <2>2, <3>1
    <3> QED BY <1>1, <3>2 DEF Range
  <2> QED BY <2>1, <2>2
<1>4. IsInjective(t)
  <2> SUFFICES ASSUME NEW j \in 1..(n - 1), NEW k \in 1..(n - 1), t[j] = t[k] PROVE j = k
    BY <1>1 DEF IsInjective
  <2>1. j + 1 \in DOMAIN s /\ k + 1 \in DOMAIN s /\ s[j + 1] = s[k + 1]
    BY <1>1
  <2>2. j + 1 = k + 1
    BY <2>1 DEF IsInjective
  <2> QED BY <2>2
<1>5. ASSUME Sorted(s) PROVE Sorted(t) /\ Sooner({h}, Range(t))
  <2>1. Sorted(t)
    <3> SUFFICES ASSUME NEW j \in 1..(n - 1), NEW k \in 1..(n - 1), j < k, Input(t[j]) = Input(t[k])
                 PROVE  t[j][2] < t[k][2]
      BY <1>1 DEF Sorted
    <3>1. /\ j + 1 \in DOMAIN s /\ k + 1 \in DOMAIN s /\ j + 1 < k + 1
          /\ t[j] = s[j + 1] /\ t[k] = s[k + 1]
      BY <1>1
    <3> QED BY <1>5, <3>1 DEF Sorted
  <2>2. ASSUME NEW x \in Range(t), Input(h) = Input(x) PROVE h[2] < x[2]
    <3>1. PICK k \in 1..(n - 1) : x = s[k + 1]
      BY <1>1, <2>2 DEF Range
    <3>2. k + 1 \in DOMAIN s /\ 1 \in DOMAIN s /\ 1 < k + 1
      BY <1>1
    <3> QED BY <1>1, <1>5, <2>2, <3>1, <3>2 DEF Sorted
  <2> QED BY <2>1, <2>2 DEF Sooner
<1> QED BY <1>1, <1>2, <1>3, <1>4, <1>5 DEF t, n, h

LEMMA Joined ==
    ASSUME NEW S, NEW s \in Seq(S), NEW t \in Seq(S), NEW u, Both(s, t, u)
    PROVE  /\ u \in Seq(S) /\ Range(u) = Range(s) \union Range(t)
           /\ IsInjective(s) /\ IsInjective(t) /\ (\A r \in Range(s) : r \notin Range(t)) => IsInjective(u)
           /\ Sorted(s) /\ Sorted(t) /\ Sooner(Range(s), Range(t)) => Sorted(u)
<1> DEFINE m == Len(s)
           n == Len(t)
<1>1. /\ DOMAIN u = 1..(m + n) /\ DOMAIN s = 1..m /\ DOMAIN t = 1..n /\ m \in Nat /\ n \in Nat
      /\ \A k \in 1..(m + n) : u[k] = IF k <= m THEN s[k] ELSE t[k - m]
      /\ u \in Seq(S)
  BY DEF Both
<1> HIDE DEF m, n
<1>2. /\ \A k \in 1..m : k \in 1..(m + n) /\ u[k] = s[k] /\ s[k] \in Range(s)
      /\ \A k \in 1..n : k + m \in 1..(m + n) /\ u[k + m] = t[k] /\ t[k] \in Range(t)
      /\ \A k \in 1..(m + n) : k \in 1..m \/ k - m \in 1..n
  <2>1. ASSUME NEW k \in 1..n PROVE k + m \in 1..(m + n) /\ u[k + m] = t[k] /\ t[k] \in Range(t)
    <3>1. k + m \in 1..(m + n) /\ ~(k + m <= m) /\ (k + m) - m = k
      BY <1>1
    <3> QED BY <1>1, <3>1 DEF Range
  <2>2. ASSUME NEW k \in 1..m PROVE k \in 1..(m + n) /\ u[k] = s[k] /\ s[k] \in Range(s)
    <3>1. k \in 1..(m + n) /\ k <= m
      BY <1>1
    <3> QED BY <1>1, <3>1 DEF Range
  <2>3. \A k \in 1..(m + n) : k \in 1..m \/ k - m \in 1..n
    BY <1>1
  <2> QED BY <2>1, <2>2, <2>3
<1>3. Range(u) = Range(s) \union Range(t)
  <2>1. ASSUME NEW x \in Range(u) PROVE x \in Range(s) \union Range(t)
    <3>1. PICK k \in 1..(m + n) : x = u[k]
      BY <1>1, <2>1 DEF Range
    <3> QED BY <1>1, <1>2, <3>1
  <2>2. ASSUME NEW x \in Range(s) PROVE x \in Range(u)
    <3>1. PICK k \in 1..m : x = s[k]
      BY <1>1, <2>2 DEF Range
    <3> QED BY <1>1, <1>2, <3>1 DEF Range
  <2>3. ASSUME NEW x \in Range(t) PROVE x \in Range(u)
    <3>1. PICK k \in 1..n : x = t[k]
      BY <1>1, <2>3 DEF Range
    <3>2. k + m \in 1..(m + n) /\ u[k + m] = x
      BY <1>2, <3>1
    <3> QED BY <1>1, <3>2 DEF Range
  <2> QED BY <2>1, <2>2, <2>3
<1>4. ASSUME IsInjective(s), IsInjective(t), \A r \in Range(s) : r \notin Range(t) PROVE IsInjective(u)
  <2> SUFFICES ASSUME NEW j \in 1..(m + n), NEW k \in 1..(m + n), u[j] = u[k] PROVE j = k
    BY <1>1 DEF IsInjective
  <2>1. CASE j <= m /\ k <= m
    <3>1. j \in 1..m /\ k \in 1..m
      BY <1>1, <2>1
    <3> QED BY <1>1, <1>2, <1>4, <3>1 DEF IsInjective
  <2>2. CASE ~(j <= m) /\ ~(k <= m)
    <3>1. m \in Nat /\ n \in Nat
      BY <1>1
    <3>2. j - m \in 1..n /\ k - m \in 1..n
      BY <2>2, <3>1
    <3>3. u[j] = t[j - m]
      BY <1>1, <2>2
    <3>4. u[k] = t[k - m]
      BY <1>1, <2>2
    <3>5. j - m \in DOMAIN t /\ k - m \in DOMAIN t
      BY <1>1, <3>2
    <3>6. j - m = k - m
      BY <1>4, <3>3, <3>4, <3>5 DEF IsInjective
    <3> QED BY <3>1, <3>6
  <2>3. CASE j <= m /\ ~(k <= m)
    <3>1. j \in 1..m /\ k - m \in 1..n /\ u[k] = t[k - m]
      BY <1>1, <2>3
    <3> QED BY <1>2, <1>4, <3>1
  <2>4. CASE ~(j <= m) /\ k <= m
    <3>1. k \in 1..m /\ j - m \in 1..n /\ u[j] = t[j - m]
      BY <1>1, <2>4
    <3> QED BY <1>2, <1>4, <3>1
  <2> QED BY <2>1, <2>2, <2>3, <2>4
<1>5. ASSUME Sorted(s), Sorted(t), Sooner(Range(s), Range(t)) PROVE Sorted(u)
  <2> SUFFICES ASSUME NEW j \in 1..(m + n), NEW k \in 1..(m + n), j < k, Input(u[j]) = Input(u[k])
               PROVE  u[j][2] < u[k][2]
    BY <1>1 DEF Sorted
  <2>1. CASE k <= m
    <3>1. j \in 1..m /\ k \in 1..m
      BY <1>1, <2>1
    <3>2. j \in DOMAIN s /\ k \in DOMAIN s /\ u[j] = s[j] /\ u[k] = s[k]
      BY <1>1, <1>2, <3>1
    <3> QED BY <1>5, <3>2 DEF Sorted
  <2>2. CASE ~(j <= m)
    <3>1. m \in Nat /\ n \in Nat
      BY <1>1
    <3>2. ~(k <= m) /\ j - m \in 1..n /\ k - m \in 1..n /\ j - m < k - m
      BY <2>2, <3>1
    <3>3. u[j] = t[j - m]
      BY <1>1, <2>2
    <3>4. u[k] = t[k - m]
      BY <1>1, <3>2
    <3>5. j - m \in DOMAIN t /\ k - m \in DOMAIN t
      BY <1>1, <3>2
    <3> QED BY <1>5, <3>2, <3>3, <3>4, <3>5 DEF Sorted
  <2>3. CASE j <= m /\ ~(k <= m)
    <3>1. u[j] \in Range(s) /\ u[k] \in Range(t)
      BY <1>1, <1>2, <2>3
    <3> QED BY <1>5, <3>1 DEF Sooner
  <2> QED BY <1>1, <2>1, <2>2, <2>3
<1> QED BY <1>1, <1>3, <1>4, <1>5

\* Where records are: S in the wires' channels, H in the hands of the fan-in goroutines, M
\* in the channel between, B in the batches, W written, L given up.  Every record is
\* somewhere; none is in two places, but for those of a batch that is kept although its
\* object was stored.
Hands == Calls \X Inputs
Covered(S, H, M, B, W, L) ==
    \A r \in Records : \/ \E i \in Inputs : r \in S[i]
                       \/ \E f \in Hands : r \in H[f]
                       \/ r \in M
                       \/ \E c \in Calls : r \in B[c]
                       \/ r \in W \/ r \in L
Apart(S, H, M, B, L) ==
    /\ \A i, j \in Inputs, r \in Records : r \in S[i] /\ r \in S[j] => i = j
    /\ \A f, g \in Hands, r \in Records : r \in H[f] /\ r \in H[g] => f = g
    /\ \A c, d \in Calls, r \in Records : r \in B[c] /\ r \in B[d] => c = d
    /\ \A i \in Inputs, f \in Hands, r \in Records : ~(r \in S[i] /\ r \in H[f])
    /\ \A i \in Inputs, c \in Calls, r \in Records : ~(r \in S[i] /\ r \in B[c])
    /\ \A f \in Hands, c \in Calls, r \in Records : ~(r \in H[f] /\ r \in B[c])
    /\ \A i \in Inputs, r \in Records : r \in S[i] => r \notin M /\ r \notin L
    /\ \A f \in Hands, r \in Records : r \in H[f] => r \notin M /\ r \notin L
    /\ \A c \in Calls, r \in Records : r \in B[c] => r \notin M /\ r \notin L
    /\ \A r \in Records : r \in M => r \notin L
NotWritten(S, H, M, B, W, L, again) ==
    \A r \in W : /\ \A i \in Inputs : r \notin S[i]
                 /\ \A f \in Hands : r \notin H[f]
                 /\ r \notin M /\ r \notin L
                 /\ again \/ \A c \in Calls : r \notin B[c]
Placed(S, H, M, B, W, L, again) ==
    /\ S \in [Inputs -> SUBSET Records] /\ H \in [Hands -> SUBSET Records]
    /\ B \in [Calls -> SUBSET Records]
    /\ M \subseteq Records /\ W \subseteq Records /\ L \subseteq Records
    /\ Covered(S, H, M, B, W, L) /\ Apart(S, H, M, B, L) /\ NotWritten(S, H, M, B, W, L, again)

LEMMA SrcToHand ==
    ASSUME NEW S, NEW H, NEW M, NEW B, NEW W, NEW L, NEW again \in BOOLEAN,
           Placed(S, H, M, B, W, L, again),
           NEW i \in Inputs, NEW r \in S[i], NEW f \in Hands, H[f] = {}
    PROVE  Placed([S EXCEPT ![i] = @ \ {r}], [H EXCEPT ![f] = {r}], M, B, W, L, again)
<1>1. Covered([S EXCEPT ![i] = @ \ {r}], [H EXCEPT ![f] = {r}], M, B, W, L)
  BY DEF Placed, Covered
<1>2. Apart([S EXCEPT ![i] = @ \ {r}], [H EXCEPT ![f] = {r}], M, B, L)
  BY DEF Placed, Apart
<1>3. NotWritten([S EXCEPT ![i] = @ \ {r}], [H EXCEPT ![f] = {r}], M, B, W, L, again)
  BY DEF Placed, NotWritten
<1> QED BY <1>1, <1>2, <1>3 DEF Placed

LEMMA HandToLost ==
    ASSUME NEW S, NEW H, NEW M, NEW B, NEW W, NEW L, NEW again \in BOOLEAN,
           Placed(S, H, M, B, W, L, again), NEW f \in Hands, NEW r, H[f] = {r}
    PROVE  Placed(S, [H EXCEPT ![f] = {}], M, B, W, L \union {r}, again) /\ r \notin L
<1>1. Covered(S, [H EXCEPT ![f] = {}], M, B, W, L \union {r})
  BY DEF Placed, Covered
<1>2. Apart(S, [H EXCEPT ![f] = {}], M, B, L \union {r}) /\ r \notin L
  BY DEF Placed, Apart
<1>3. NotWritten(S, [H EXCEPT ![f] = {}], M, B, W, L \union {r}, again)
  BY DEF Placed, NotWritten
<1> QED BY <1>1, <1>2, <1>3 DEF Placed

LEMMA MergedToLost ==
    ASSUME NEW S, NEW H, NEW M, NEW B, NEW W, NEW L, NEW again \in BOOLEAN,
           Placed(S, H, M, B, W, L, again), NEW r \in M
    PROVE  Placed(S, H, M \ {r}, B, W, L \union {r}, again) /\ r \notin L
<1>1. Covered(S, H, M \ {r}, B, W, L \union {r})
  BY DEF Placed, Covered
<1>2. Apart(S, H, M \ {r}, B, L \union {r}) /\ r \notin L
  BY DEF Placed, Apart
<1>3. NotWritten(S, H, M \ {r}, B, W, L \union {r}, again)
  BY DEF Placed, NotWritten
<1> QED BY <1>1, <1>2, <1>3 DEF Placed

LEMMA LostToMerged ==
    ASSUME NEW S, NEW H, NEW M, NEW B, NEW W, NEW L, NEW again \in BOOLEAN, NEW r, r \notin L,
           Placed(S, H, M, B, W, L \union {r}, again)
    PROVE  Placed(S, H, M \union {r}, B, W, L, again) /\ r \notin M
<1>1. Covered(S, H, M \union {r}, B, W, L)
  BY DEF Placed, Covered
<1>2. Apart(S, H, M \union {r}, B, L) /\ r \notin M
  BY DEF Placed, Apart
<1>3. NotWritten(S, H, M \union {r}, B, W, L, again)
  BY DEF Placed, NotWritten
<1> QED BY <1>1, <1>2, <1>3 DEF Placed

LEMMA LostToBatch ==
    ASSUME NEW S, NEW H, NEW M, NEW B, NEW W, NEW L, NEW again \in BOOLEAN, NEW r, r \notin L,
           Placed(S, H, M, B, W, L \union {r}, again), NEW c \in Calls
    PROVE  Placed(S, H, M, [B EXCEPT ![c] = @ \union {r}], W, L, again) /\ r \notin B[c] /\ r \notin W
<1>1. Covered(S, H, M, [B EXCEPT ![c] = @ \union {r}], W, L)
  BY DEF Placed, Covered
<1>2. Apart(S, H, M, [B EXCEPT ![c] = @ \union {r}], L) /\ r \notin B[c]
  BY DEF Placed, Apart
<1>3. NotWritten(S, H, M, [B EXCEPT ![c] = @ \union {r}], W, L, again) /\ r \notin W
  <2>1. r \notin W
    BY DEF Placed, NotWritten
  <2>2. \A d \in Calls : [B EXCEPT ![c] = @ \union {r}][d] \subseteq B[d] \union {r}
    BY DEF Placed
  <2> QED BY <2>1, <2>2 DEF Placed, NotWritten
<1> QED BY <1>1, <1>2, <1>3 DEF Placed

LEMMA BatchToLost ==
    ASSUME NEW S, NEW H, NEW M, NEW B, NEW W, NEW L, NEW c \in Calls, NEW X, X \subseteq B[c],
           Placed(S, H, M, B, W, L, FALSE)
    PROVE  /\ Placed(S, H, M, [B EXCEPT ![c] = @ \ X], W, L \union X, FALSE)
           /\ \A r \in X : r \notin L /\ r \notin W
<1>1. Covered(S, H, M, [B EXCEPT ![c] = @ \ X], W, L \union X)
  BY DEF Placed, Covered
<1>2. Apart(S, H, M, [B EXCEPT ![c] = @ \ X], L \union X) /\ \A r \in X : r \notin L
  BY DEF Placed, Apart
<1>3. NotWritten(S, H, M, [B EXCEPT ![c] = @ \ X], W, L \union X, FALSE) /\ \A r \in X : r \notin W
  <2>1. \A r \in X : r \notin W
    BY DEF Placed, NotWritten
  <2>2. \A d \in Calls : [B EXCEPT ![c] = @ \ X][d] \subseteq B[d]
    BY DEF Placed
  <2> QED BY <2>1, <2>2 DEF Placed, NotWritten
<1> QED BY <1>1, <1>2, <1>3 DEF Placed

LEMMA LostToWritten ==
    ASSUME NEW S, NEW H, NEW M, NEW B, NEW W, NEW L, NEW X, \A r \in X : r \notin L,
           Placed(S, H, M, B, W, L \union X, FALSE)
    PROVE  Placed(S, H, M, B, W \union X, L, FALSE)
<1>1. Covered(S, H, M, B, W \union X, L)
  BY DEF Placed, Covered
<1>2. Apart(S, H, M, B, L)
  BY DEF Placed, Apart
<1>3. NotWritten(S, H, M, B, W \union X, L, FALSE)
  BY DEF Placed, Apart, NotWritten
<1> QED BY <1>1, <1>2, <1>3 DEF Placed

\* s3: an object is stored and its batch kept; a batch is emptied whose object is stored.
LEMMA StoredKept ==
    ASSUME NEW S, NEW H, NEW M, NEW B, NEW W, NEW L, NEW again \in BOOLEAN,
           Placed(S, H, M, B, W, L, again), NEW c \in Calls
    PROVE  Placed(S, H, M, B, W \union B[c], L, TRUE)
<1>1. Covered(S, H, M, B, W \union B[c], L)
  BY DEF Placed, Covered
<1>2. NotWritten(S, H, M, B, W \union B[c], L, TRUE)
  BY DEF Placed, Apart, NotWritten
<1> QED BY <1>1, <1>2 DEF Placed

LEMMA StoredEmptied ==
    ASSUME NEW S, NEW H, NEW M, NEW B, NEW W, NEW L, NEW again \in BOOLEAN, NEW c \in Calls,
           Placed(S, H, M, B, W, L, again), B[c] \subseteq W, \A d \in Calls : d # c => B[d] = {}
    PROVE  Placed(S, H, M, [B EXCEPT ![c] = {}], W, L, FALSE)
<1>1. Covered(S, H, M, [B EXCEPT ![c] = {}], W, L)
  BY DEF Placed, Covered
<1>2. Apart(S, H, M, [B EXCEPT ![c] = {}], L)
  BY DEF Placed, Apart
<1>3. NotWritten(S, H, M, [B EXCEPT ![c] = {}], W, L, FALSE)
  BY DEF Placed, NotWritten
<1> QED BY <1>1, <1>2, <1>3 DEF Placed

LEMMA AgainWeaker ==
    ASSUME NEW S, NEW H, NEW M, NEW B, NEW W, NEW L, NEW a \in BOOLEAN, NEW b \in BOOLEAN,
           Placed(S, H, M, B, W, L, a), a => b
    PROVE  Placed(S, H, M, B, W, L, b)
  BY DEF Placed, NotWritten

\* The order of the records of each wire along the way: written, batch, channel, hand,
\* wire.  A batch whose object is stored is already written.
InLine(S, H, M, B, W, stays) ==
    /\ stays \/ Sooner(W, B)
    /\ Sooner(W, M) /\ Sooner(B, M)
    /\ \A i \in Inputs :
         /\ Sooner(W, H[<<1, i>>]) /\ Sooner(B, H[<<1, i>>]) /\ Sooner(M, H[<<1, i>>])
         /\ Sooner(W, S[i]) /\ Sooner(B, S[i]) /\ Sooner(M, S[i]) /\ Sooner(H[<<1, i>>], S[i])

LEMMA Shrinks ==
    ASSUME NEW A, NEW B, NEW C, NEW D, Sooner(A, B), C \subseteq A, D \subseteq B
    PROVE  Sooner(C, D)
  BY DEF Sooner

LEMMA Joins ==
    ASSUME NEW A, NEW B, NEW C
    PROVE  /\ Sooner(A, C) /\ Sooner(B, C) => Sooner(A \union B, C)
           /\ Sooner(A, B) /\ Sooner(A, C) => Sooner(A, B \union C)
           /\ Sooner(A, {}) /\ Sooner({}, A)
  BY DEF Sooner

LEMMA CallsFinite == IsFiniteSet(Calls) /\ 1 \in Calls /\ \A c \in Calls : c \in Nat
<1>1. IsFiniteSet(Calls)
  BY FS_Interval, WriterConstants DEF Calls
<1> QED BY <1>1, WriterConstants DEF Calls

\* The moves along the line.
LEMMA LineReceive ==
    ASSUME NEW S \in [Inputs -> SUBSET Records], NEW H \in [Hands -> SUBSET Records], NEW M, NEW B, NEW W, NEW stays,
           InLine(S, H, M, B, W, stays), NEW i \in Inputs, <<1, i>> \in Hands, NEW r \in S[i],
           Sooner({r}, S[i] \ {r})
    PROVE  InLine([S EXCEPT ![i] = @ \ {r}], [H EXCEPT ![<<1, i>>] = {r}], M, B, W, stays)
<1> DEFINE S2 == [S EXCEPT ![i] = @ \ {r}]
           H2 == [H EXCEPT ![<<1, i>>] = {r}]
<1>1. \A j \in Inputs : S2[j] \subseteq S[j] /\ (j # i => H2[<<1, j>>] = H[<<1, j>>])
  <2> SUFFICES ASSUME NEW j \in Inputs PROVE S2[j] \subseteq S[j] /\ (j # i => H2[<<1, j>>] = H[<<1, j>>])
    OBVIOUS
  <2>1. <<1, j>> \in Hands
    BY CallsFinite DEF Hands
  <2> QED BY <2>1
<1>2. S2[i] = S[i] \ {r} /\ H2[<<1, i>>] = {r} /\ {r} \subseteq S[i]
  OBVIOUS
<1> HIDE DEF S2, H2
<1> SUFFICES ASSUME NEW j \in Inputs
             PROVE  /\ Sooner(W, H2[<<1, j>>]) /\ Sooner(B, H2[<<1, j>>]) /\ Sooner(M, H2[<<1, j>>])
                    /\ Sooner(W, S2[j]) /\ Sooner(B, S2[j]) /\ Sooner(M, S2[j]) /\ Sooner(H2[<<1, j>>], S2[j])
  BY DEF InLine, S2, H2
<1>3. /\ Sooner(W, S[j]) /\ Sooner(B, S[j]) /\ Sooner(M, S[j])
      /\ Sooner(W, H[<<1, j>>]) /\ Sooner(B, H[<<1, j>>]) /\ Sooner(M, H[<<1, j>>]) /\ Sooner(H[<<1, j>>], S[j])
  BY DEF InLine
<1>4. CASE j = i
  BY <1>1, <1>2, <1>3, <1>4 DEF Sooner
<1>5. CASE j # i
  BY <1>1, <1>3, <1>5 DEF Sooner
<1> QED BY <1>4, <1>5

Owned(S, H) == /\ \A i \in Inputs : \A r \in S[i] : Input(r) = i
               /\ \A f \in Hands : \A r \in H[f] : Input(r) = f[2]

LEMMA LineSend ==
    ASSUME NEW S \in [Inputs -> SUBSET Records], NEW H \in [Hands -> SUBSET Records], NEW M, NEW B, NEW W, NEW stays,
           InLine(S, H, M, B, W, stays), Owned(S, H), NEW i \in Inputs, NEW r, H[<<1, i>>] = {r}
    PROVE  InLine(S, [H EXCEPT ![<<1, i>>] = {}], M \union {r}, B, W, stays)
<1> DEFINE H2 == [H EXCEPT ![<<1, i>>] = {}]
<1>0. \A j \in Inputs : <<1, j>> \in Hands /\ <<1, j>>[2] = j
  BY CallsFinite DEF Hands
<1>1. \A j \in Inputs : H2[<<1, j>>] \subseteq H[<<1, j>>] /\ (j = i => H2[<<1, j>>] = {})
  BY <1>0
<1>2. Input(r) = i
  BY <1>0 DEF Owned
<1> HIDE DEF H2
<1>3. ASSUME NEW j \in Inputs PROVE Sooner({r}, S[j]) /\ Sooner({r}, H2[<<1, j>>])
  <2>1. CASE j = i
    <3>1. Sooner(H[<<1, i>>], S[i])
      BY DEF InLine
    <3> QED BY <1>1, <2>1, <3>1 DEF Sooner
  <2>2. CASE j # i
    <3>1. \A q \in S[j] : Input(q) # i
      BY <2>2 DEF Owned
    <3>2. \A q \in H2[<<1, j>>] : Input(q) # i
      BY <1>0, <1>1, <2>2 DEF Owned
    <3> QED BY <1>2, <3>1, <3>2 DEF Sooner
  <2> QED BY <2>1, <2>2
<1>4. Sooner(W, {r}) /\ Sooner(B, {r})
  BY DEF InLine
<1>5. Sooner(W, M \union {r}) /\ Sooner(B, M \union {r})
  BY <1>4, Joins DEF InLine
<1>6. ASSUME NEW j \in Inputs
      PROVE  /\ Sooner(W, H2[<<1, j>>]) /\ Sooner(B, H2[<<1, j>>]) /\ Sooner(M \union {r}, H2[<<1, j>>])
             /\ Sooner(W, S[j]) /\ Sooner(B, S[j]) /\ Sooner(M \union {r}, S[j]) /\ Sooner(H2[<<1, j>>], S[j])
  <2>1. /\ Sooner(W, S[j]) /\ Sooner(B, S[j]) /\ Sooner(M, S[j])
        /\ Sooner(W, H[<<1, j>>]) /\ Sooner(B, H[<<1, j>>]) /\ Sooner(M, H[<<1, j>>]) /\ Sooner(H[<<1, j>>], S[j])
    BY DEF InLine
  <2>2. Sooner(W, H2[<<1, j>>]) /\ Sooner(B, H2[<<1, j>>]) /\ Sooner(M, H2[<<1, j>>]) /\ Sooner(H2[<<1, j>>], S[j])
    BY <1>1, <2>1 DEF Sooner
  <2>3. Sooner(M \union {r}, H2[<<1, j>>]) /\ Sooner(M \union {r}, S[j])
    BY <1>3, <2>1, <2>2 DEF Sooner
  <2> QED BY <2>1, <2>2, <2>3
<1> QED BY <1>5, <1>6 DEF InLine, H2

LEMMA LineTake ==
    ASSUME NEW S, NEW H, NEW M, NEW B, NEW W, NEW stays, InLine(S, H, M, B, W, stays),
           NEW r \in M, Sooner({r}, M \ {r})
    PROVE  InLine(S, H, M \ {r}, B \union {r}, W, stays)
<1>1. /\ Sooner(W, {r}) /\ Sooner(W, M \ {r}) /\ Sooner(B, M \ {r})
      /\ \A i \in Inputs : /\ Sooner({r}, H[<<1, i>>]) /\ Sooner(M \ {r}, H[<<1, i>>])
                           /\ Sooner({r}, S[i]) /\ Sooner(M \ {r}, S[i])
  BY DEF InLine, Sooner
<1>2. Sooner(B \union {r}, M \ {r}) /\ (stays \/ Sooner(W, B \union {r}))
  <2>1. stays \/ Sooner(W, B)
    BY DEF InLine
  <2> QED BY <1>1, <2>1 DEF Sooner
<1>3. ASSUME NEW i \in Inputs PROVE Sooner(B \union {r}, H[<<1, i>>]) /\ Sooner(B \union {r}, S[i])
  <2>1. Sooner(B, H[<<1, i>>]) /\ Sooner(B, S[i])
    BY DEF InLine
  <2> QED BY <1>1, <2>1 DEF Sooner
<1> QED BY <1>1, <1>2, <1>3 DEF InLine

LEMMA LineShrink ==
    ASSUME NEW S, NEW H, NEW M, NEW B, NEW W, NEW stays, InLine(S, H, M, B, W, stays),
           NEW H2, NEW M2, NEW B2, M2 \subseteq M, B2 \subseteq B,
           \A i \in Inputs : H2[<<1, i>>] \subseteq H[<<1, i>>]
    PROVE  InLine(S, H2, M2, B2, W, stays)
<1>1. /\ Sooner(W, M2) /\ Sooner(B2, M2) /\ (stays \/ Sooner(W, B2))
  BY Shrinks DEF InLine
<1>2. ASSUME NEW i \in Inputs
      PROVE  /\ Sooner(W, H2[<<1, i>>]) /\ Sooner(B2, H2[<<1, i>>]) /\ Sooner(M2, H2[<<1, i>>])
             /\ Sooner(W, S[i]) /\ Sooner(B2, S[i]) /\ Sooner(M2, S[i]) /\ Sooner(H2[<<1, i>>], S[i])
  <2>1. /\ Sooner(W, S[i]) /\ Sooner(B, S[i]) /\ Sooner(M, S[i])
        /\ Sooner(W, H[<<1, i>>]) /\ Sooner(B, H[<<1, i>>]) /\ Sooner(M, H[<<1, i>>]) /\ Sooner(H[<<1, i>>], S[i])
    BY DEF InLine
  <2> QED BY <2>1 DEF Sooner
<1> QED BY <1>1, <1>2 DEF InLine

LEMMA LineWrite ==
    ASSUME NEW S, NEW H, NEW M, NEW B, NEW W, InLine(S, H, M, B, W, FALSE),
           NEW X, X \subseteq B, Sooner(X, B \ X)
    PROVE  InLine(S, H, M, B \ X, W \union X, FALSE)
<1>1. /\ Sooner(W, B \ X) /\ Sooner(X, M) /\ Sooner(B \ X, M)
  BY Shrinks DEF InLine
<1>2. \A i \in Inputs : /\ Sooner(X, H[<<1, i>>]) /\ Sooner(B \ X, H[<<1, i>>])
                        /\ Sooner(X, S[i]) /\ Sooner(B \ X, S[i])
  BY DEF InLine, Sooner
<1>3. Sooner(W \union X, B \ X) /\ Sooner(W \union X, M)
  <2>1. Sooner(W, M)
    BY DEF InLine
  <2> QED BY <1>1, <2>1 DEF Sooner
<1>4. ASSUME NEW i \in Inputs PROVE Sooner(W \union X, H[<<1, i>>]) /\ Sooner(W \union X, S[i])
  <2>1. Sooner(W, H[<<1, i>>]) /\ Sooner(W, S[i])
    BY DEF InLine
  <2> QED BY <1>2, <2>1 DEF Sooner
<1> QED BY <1>1, <1>2, <1>3, <1>4 DEF InLine

LEMMA LineStore ==
    ASSUME NEW S, NEW H, NEW M, NEW B, NEW W, NEW stays, InLine(S, H, M, B, W, stays)
    PROVE  InLine(S, H, M, B, W \union B, TRUE)
<1>1. Sooner(W \union B, M)
  BY DEF InLine, Sooner
<1>2. ASSUME NEW i \in Inputs PROVE Sooner(W \union B, H[<<1, i>>]) /\ Sooner(W \union B, S[i])
  <2>1. Sooner(W, H[<<1, i>>]) /\ Sooner(W, S[i]) /\ Sooner(B, H[<<1, i>>]) /\ Sooner(B, S[i])
    BY DEF InLine
  <2> QED BY <2>1 DEF Sooner
<1> QED BY <1>1, <1>2 DEF InLine

LEMMA LineEmptied ==
    ASSUME NEW S, NEW H, NEW M, NEW B, NEW W, NEW stays, NEW now, InLine(S, H, M, B, W, stays)
    PROVE  InLine(S, H, M, {}, W, now)
  BY Joins DEF InLine

SrcSets == [i \in Inputs |-> Range(src[i])]
HandSets == [f \in Hands |-> Range(hand[f])]
BatchSets == [c \in Calls |-> Range(batch[c])]
Again == kind = "s3" /\ (retried \/ \E c \in Calls : stored[c])

\* A fan-in goroutine that sends holds one record of its wire, any other none.
HandsFull ==
    \A f \in Hands : IF fan[f] = "send" THEN \E r \in Records : hand[f] = <<r>> /\ Input(r) = f[2]
                     ELSE hand[f] = <<>>
HandsStarted == \A f \in Hands : fan[f] = "off" \/ loop[f[1]] # "off" \/ (direct /\ f[1] = 1)

\* isServing lets in one loop at a time; a batch belongs to a loop that serves, that of s3
\* to the client; a flush has something to write; an object is stored before its flush is
\* over; who has not returned has no result.
Serves(c) == loop[c] \in {"loop", "flush"}
OneLoop ==
    /\ kind # "postgres" => /\ \A c \in Calls : Serves(c) => isServing
                            /\ \A c, d \in Calls : Serves(c) /\ Serves(d) => c = d
    /\ \A c \in Calls : loop[c] = "flush" => Batch(c) # <<>>
    /\ \A c \in Calls : batch[c] # <<>> => IF kind = "s3" THEN c = 1 ELSE Serves(c)
    /\ \A c \in Calls : stored[c] => /\ kind = "s3" /\ loop[c] = "flush"
                                     /\ Range(batch[1]) \subseteq Range(written)
    /\ \A c \in Calls : loop[c] # "over" => result[c] = "none"
    /\ kind = "postgres" => merged = <<>>

\* No sequence repeats a record; a wire holds its own records, in order.
Singly ==
    /\ \A i \in Inputs : /\ IsInjective(src[i]) /\ Sorted(src[i])
                         /\ \A r \in Range(src[i]) : Input(r) = i
    /\ IsInjective(merged)
    /\ \A c \in Calls : IsInjective(batch[c])
    /\ WrittenOnce

Placement == Placed(SrcSets, HandSets, Range(merged), BatchSets, Range(written), lost, Again)

\* With a single start everything is in line.
Once == \A c \in Calls : c > 1 => loop[c] = "off"
Lines ==
    Once /\ ~retried =>
        /\ Sorted(written) /\ Sorted(batch[1]) /\ Sorted(merged)
        /\ InLine(SrcSets, HandSets, Range(merged), Range(batch[1]), Range(written), stored[1])

\* s3 loses a record only with the one error a call returns.
Failures == {c \in Calls : result[c] = "err"}
S3Errors ==
    kind = "s3" /\ (\A c \in Calls : ~done[c]) =>
        IsFiniteSet(lost) /\ Cardinality(lost) <= Cardinality(Failures)

WriterInv ==
    /\ WriterTypeOK /\ HandsFull /\ HandsStarted /\ OneLoop /\ Singly /\ Placement /\ Lines /\ S3Errors

\* Steps that move no record.
LEMMA NothingMoved ==
    ASSUME WriterInv, UNCHANGED <<kind, src, hand, merged, batch, written, lost, stored, retried>>,
           Once' => Once
    PROVE  Singly' /\ Placement' /\ Lines'
<1>1. Singly'
  BY DEF WriterInv, Singly, WrittenOnce
<1>2. /\ SrcSets' = SrcSets /\ HandSets' = HandSets /\ BatchSets' = BatchSets /\ Again' = Again
  BY DEF SrcSets, HandSets, BatchSets, Again
<1>3. Placement'
  BY <1>2 DEF WriterInv, Placement
<1>4. Lines'
  BY <1>2 DEF WriterInv, Lines
<1> QED BY <1>1, <1>3, <1>4

LEMMA ErrorsKept ==
    ASSUME S3Errors, kind' = kind, lost' = lost, \A c \in Calls : done'[c] \/ ~done[c],
           \A c \in Calls : result[c] = "err" => result'[c] = "err"
    PROVE  S3Errors'
<1> SUFFICES ASSUME kind = "s3", \A c \in Calls : ~done'[c]
             PROVE  IsFiniteSet(lost) /\ Cardinality(lost) <= Cardinality(Failures')
  BY DEF S3Errors
<1>1. IsFiniteSet(lost) /\ Cardinality(lost) <= Cardinality(Failures)
  BY DEF S3Errors
<1>2. Failures \subseteq Failures' /\ Failures' \subseteq Calls
  BY DEF Failures
<1>3. IsFiniteSet(Failures')
  BY <1>2, CallsFinite, FS_Subset
<1>4. IsFiniteSet(Failures) /\ Cardinality(Failures) <= Cardinality(Failures')
  BY <1>2, <1>3, FS_Subset
<1>5. Cardinality(lost) \in Nat /\ Cardinality(Failures) \in Nat /\ Cardinality(Failures') \in Nat
  BY <1>1, <1>3, <1>4, FS_CardinalityType
<1> QED BY <1>1, <1>4, <1>5

LEMMA StepStart ==
    ASSUME WriterInv, NEW c \in Calls,
           KafkaStartWriter(c) \/ S3StartWriter(c) \/ PostgresStartWriter(c) \/ ServeDirect(c)
    PROVE  WriterInv'
<1>1. /\ loop[c] = "off" /\ loop' = [loop EXCEPT ![c] = "enter"]
      /\ fan' = fan \/ (~direct /\ fan' = Spawned(c))
      /\ UNCHANGED <<kind, direct, stopped, src, closed, hand, merged, done, isServing, result, batch, final,
                     attempt, stored, written, retried, lost>>
  BY DEF KafkaStartWriter, S3StartWriter, PostgresStartWriter, ServeDirect, Called, fixed, fanVars, flushVars
<1>2. WriterTypeOK'
  <2>1. fan' \in [Hands -> {"off", "recv", "send", "done"}]
    BY <1>1 DEF WriterInv, WriterTypeOK, Spawned, Hands
  <2> QED BY <1>1, <2>1 DEF WriterInv, WriterTypeOK, Hands
<1>3. \A f \in Hands : fan'[f] = fan[f] \/ (f[1] = c /\ fan'[f] = "recv" /\ ~direct)
  BY <1>1 DEF WriterInv, WriterTypeOK, Spawned, Hands
<1>4. HandsFull'
  BY <1>1, <1>3 DEF WriterInv, HandsFull, HandsStarted
<1>5. HandsStarted'
  <2>1. \A f \in Hands : f[1] \in Calls
    BY DEF Hands
  <2> QED BY <1>1, <1>3, <2>1 DEF WriterInv, HandsStarted, WriterTypeOK
<1>6. OneLoop'
  BY <1>1 DEF WriterInv, OneLoop, WriterTypeOK, Serves, Batch, Slot
<1>7. Once' => Once
  BY <1>1 DEF Once, WriterInv, WriterTypeOK
<1>8. Singly' /\ Placement' /\ Lines'
  BY <1>1, <1>7, NothingMoved
<1>9. S3Errors'
  BY <1>1, ErrorsKept DEF WriterInv
<1> QED BY <1>2, <1>4, <1>5, <1>6, <1>8, <1>9 DEF WriterInv

LEMMA StepServe ==
    ASSUME WriterInv, NEW c \in Calls,
           KafkaServeWriter(c) \/ KafkaServeWriterRaw(c) \/ S3ServeWriter(c) \/ PostgresServeWriter(c)
    PROVE  WriterInv'
<1>1. /\ loop[c] = "enter"
      /\ \/ loop' = [loop EXCEPT ![c] = "over"] /\ \E v \in {"nil", "err"} : result' = [result EXCEPT ![c] = v]
         \/ loop' = [loop EXCEPT ![c] = "loop"] /\ result' = result /\ (kind # "postgres" => ~isServing /\ isServing')
      /\ isServing' \in BOOLEAN /\ (isServing => isServing')
      /\ UNCHANGED <<kind, direct, stopped, src, fan, closed, hand, merged, done, batch, final,
                     attempt, stored, written, retried, lost>>
  BY DEF KafkaServeWriter, KafkaServeWriterRaw, S3ServeWriter, PostgresServeWriter, Guarded, fixed, fanVars,
         flushVars, WriterInv, WriterTypeOK
<1>2. WriterTypeOK'
  <2>1. loop \in [Calls -> {"off", "enter", "loop", "flush", "over"}] /\ result \in [Calls -> {"none", "nil", "err"}]
    BY DEF WriterInv, WriterTypeOK
  <2>2. loop' \in [Calls -> {"off", "enter", "loop", "flush", "over"}] /\ result' \in [Calls -> {"none", "nil", "err"}]
    BY <1>1, <2>1
  <2> QED BY <1>1, <2>2 DEF WriterInv, WriterTypeOK
<1>3. HandsFull'
  BY <1>1 DEF WriterInv, HandsFull
<1>4. HandsStarted'
  <2>1. \A f \in Hands : f[1] \in Calls
    BY DEF Hands
  <2> QED BY <1>1, <2>1 DEF WriterInv, HandsStarted, WriterTypeOK
<1>5. OneLoop'
  <2>1. CASE loop' = [loop EXCEPT ![c] = "over"] /\ \E v \in {"nil", "err"} : result' = [result EXCEPT ![c] = v]
    BY <1>1, <2>1 DEF WriterInv, OneLoop, WriterTypeOK, Serves, Batch, Slot
  <2>2. CASE loop' = [loop EXCEPT ![c] = "loop"] /\ result' = result /\ (kind # "postgres" => ~isServing /\ isServing')
    BY <1>1, <2>2 DEF WriterInv, OneLoop, WriterTypeOK, Serves, Batch, Slot
  <2> QED BY <1>1, <2>1, <2>2
<1>6. Once' => Once
  BY <1>1 DEF Once, WriterInv, WriterTypeOK
<1>7. Singly' /\ Placement' /\ Lines'
  BY <1>1, <1>6, NothingMoved
<1>8. S3Errors'
  <2>1. \A d \in Calls : result[d] = "err" => result'[d] = "err"
    <3>1. result \in [Calls -> {"none", "nil", "err"}] /\ result[c] = "none"
      BY <1>1 DEF WriterInv, OneLoop, WriterTypeOK
    <3> QED BY <1>1, <3>1
  <2> QED BY <1>1, <2>1, ErrorsKept DEF WriterInv
<1> QED BY <1>2, <1>3, <1>4, <1>5, <1>7, <1>8 DEF WriterInv

LEMMA StepQuiet ==
    ASSUME WriterInv, (\E c \in Calls : CancelCall(c)) \/ StopClient \/ CloseInputs \/ UNCHANGED writerVars
    PROVE  WriterInv'
<1>1. /\ done' = done \/ \E c \in Calls : done' = [done EXCEPT ![c] = TRUE]
      /\ closed' \in BOOLEAN /\ stopped' \in BOOLEAN
      /\ UNCHANGED <<kind, direct, src, fan, hand, merged, loop, isServing, result, batch, final,
                     attempt, stored, written, retried, lost>>
  BY DEF CancelCall, StopClient, CloseInputs, writerVars, fixed, fanVars, flushVars, WriterInv, WriterTypeOK
<1>2. WriterTypeOK'
  BY <1>1 DEF WriterInv, WriterTypeOK
<1>3. HandsFull' /\ HandsStarted'
  BY <1>1 DEF WriterInv, HandsFull, HandsStarted
<1>4. OneLoop'
  BY <1>1 DEF WriterInv, OneLoop, Serves, Batch, Slot
<1>5. Singly' /\ Placement' /\ Lines'
  BY <1>1, NothingMoved DEF Once
<1>6. S3Errors'
  <2>1. \A c \in Calls : done'[c] \/ ~done[c]
    BY <1>1 DEF WriterInv, WriterTypeOK
  <2> QED BY <1>1, <2>1, ErrorsKept DEF WriterInv
<1> QED BY <1>2, <1>3, <1>4, <1>5, <1>6 DEF WriterInv

LEMMA StepFanEnds ==
    ASSUME WriterInv, NEW c \in Calls, NEW i \in Inputs, FanEnds(c, i)
    PROVE  WriterInv'
<1>1. /\ <<c, i>> \in Hands /\ fan[<<c, i>>] = "recv" /\ fan' = [fan EXCEPT ![<<c, i>>] = "done"]
      /\ UNCHANGED <<kind, direct, stopped, src, closed, hand, merged, done, loop, isServing, result, batch, final,
                     attempt, stored, written, retried, lost>>
  BY DEF FanEnds, fixed, flushVars, Hands
<1>2. WriterTypeOK'
  BY <1>1 DEF WriterInv, WriterTypeOK, Hands
<1>3. HandsFull' /\ HandsStarted'
  <2>1. \A f \in Hands : fan'[f] = IF f = <<c, i>> THEN "done" ELSE fan[f]
    BY <1>1 DEF WriterInv, WriterTypeOK, Hands
  <2> QED BY <1>1, <2>1 DEF WriterInv, HandsFull, HandsStarted
<1>4. OneLoop'
  BY <1>1 DEF WriterInv, OneLoop, Serves, Batch, Slot
<1>5. Singly' /\ Placement' /\ Lines'
  BY <1>1, NothingMoved DEF Once
<1>6. S3Errors'
  BY <1>1, ErrorsKept DEF WriterInv
<1> QED BY <1>2, <1>3, <1>4, <1>5, <1>6 DEF WriterInv

LEMMA StepTick ==
    ASSUME WriterInv, NEW c \in Calls, Tick(c) \/ Finish(c)
    PROVE  WriterInv'
<1>1. /\ loop[c] = "loop"
      /\ \/ Batch(c) # <<>> /\ loop' = [loop EXCEPT ![c] = "flush"] /\ result' = result /\ isServing' = isServing
         \/ /\ Batch(c) = <<>> /\ loop' = [loop EXCEPT ![c] = "over"] /\ result' = [result EXCEPT ![c] = "nil"]
            /\ isServing' = (IF kind = "postgres" THEN isServing ELSE FALSE)
      /\ final' \in [Calls -> BOOLEAN]
      /\ UNCHANGED <<kind, direct, stopped, src, fan, closed, hand, merged, done, batch,
                     attempt, stored, written, retried, lost>>
  BY DEF Tick, Finish, Return, fixed, fanVars, flushVars, WriterInv, WriterTypeOK
<1>2. WriterTypeOK'
  BY <1>1 DEF WriterInv, WriterTypeOK
<1>3. HandsFull'
  BY <1>1 DEF WriterInv, HandsFull
<1>4. HandsStarted'
  <2>1. \A f \in Hands : f[1] \in Calls
    BY DEF Hands
  <2> QED BY <1>1, <2>1 DEF WriterInv, HandsStarted, WriterTypeOK
<1>5. OneLoop'
  <2>1. CASE Batch(c) # <<>> /\ loop' = [loop EXCEPT ![c] = "flush"] /\ result' = result /\ isServing' = isServing
    BY <1>1, <2>1 DEF WriterInv, OneLoop, WriterTypeOK, Serves, Batch, Slot
  <2>2. CASE /\ Batch(c) = <<>> /\ loop' = [loop EXCEPT ![c] = "over"] /\ result' = [result EXCEPT ![c] = "nil"]
             /\ isServing' = (IF kind = "postgres" THEN isServing ELSE FALSE)
    BY <1>1, <2>2 DEF WriterInv, OneLoop, WriterTypeOK, Serves, Batch, Slot
  <2> QED BY <1>1, <2>1, <2>2
<1>6. Once' => Once
  BY <1>1 DEF Once, WriterInv, WriterTypeOK
<1>7. Singly' /\ Placement' /\ Lines'
  BY <1>1, <1>6, NothingMoved
<1>8. S3Errors'
  <2>1. \A d \in Calls : result[d] = "err" => result'[d] = "err"
    <3>1. result \in [Calls -> {"none", "nil", "err"}] /\ result[c] = "none"
      BY <1>1 DEF WriterInv, OneLoop, WriterTypeOK
    <3> QED BY <1>1, <3>1
  <2> QED BY <1>1, <2>1, ErrorsKept DEF WriterInv
<1> QED BY <1>2, <1>3, <1>4, <1>5, <1>7, <1>8 DEF WriterInv

\* What the moves need to know.
LEMMA RangeOne == \A r : Range(<<r>>) = {r}
<1> SUFFICES ASSUME NEW r PROVE Range(<<r>>) = {r}
  OBVIOUS
<1>1. DOMAIN <<r>> = {1} /\ <<r>>[1] = r
  OBVIOUS
<1> QED BY <1>1 DEF Range

LEMMA RangeIn ==
    ASSUME NEW S, NEW s \in Seq(S)
    PROVE  Range(s) \subseteq S /\ (s = <<>> <=> Range(s) = {})
<1>1. DOMAIN s = 1..Len(s) /\ Len(s) \in Nat /\ (s = <<>> <=> Len(s) = 0) /\ \A k \in 1..Len(s) : s[k] \in S
  OBVIOUS
<1>2. Range(s) \subseteq S
  BY <1>1 DEF Range
<1>3. Len(s) = 0 => Range(s) = {}
  BY <1>1 DEF Range
<1>4. Len(s) # 0 => s[1] \in Range(s)
  BY <1>1 DEF Range
<1> QED BY <1>1, <1>2, <1>3, <1>4

LEMMA SetsNow ==
    ASSUME WriterInv
    PROVE  /\ SrcSets \in [Inputs -> SUBSET Records] /\ HandSets \in [Hands -> SUBSET Records]
           /\ BatchSets \in [Calls -> SUBSET Records]
           /\ \A i \in Inputs : SrcSets[i] = Range(src[i])
           /\ \A c \in Calls : BatchSets[c] = Range(batch[c])
           /\ \A f \in Hands : HandSets[f] = Range(hand[f])
           /\ \A f \in Hands : fan[f] # "send" => HandSets[f] = {}
           /\ \A f \in Hands : fan[f] = "send" =>
                 \E r \in Records : hand[f] = <<r>> /\ hand[f][1] = r /\ HandSets[f] = {r} /\ Input(r) = f[2]
           /\ Owned(SrcSets, HandSets)
<1>1. /\ src \in [Inputs -> Seq(Records)] /\ hand \in [Hands -> Seq(Records)] /\ batch \in [Calls -> Seq(Records)]
  BY DEF WriterInv, WriterTypeOK, Hands
<1>2. /\ SrcSets \in [Inputs -> SUBSET Records] /\ HandSets \in [Hands -> SUBSET Records]
      /\ BatchSets \in [Calls -> SUBSET Records]
  <2>1. ASSUME NEW i \in Inputs PROVE Range(src[i]) \subseteq Records
    BY <1>1, RangeIn
  <2>2. ASSUME NEW f \in Hands PROVE Range(hand[f]) \subseteq Records
    BY <1>1, RangeIn
  <2>3. ASSUME NEW c \in Calls PROVE Range(batch[c]) \subseteq Records
    BY <1>1, RangeIn
  <2> QED BY <2>1, <2>2, <2>3 DEF SrcSets, HandSets, BatchSets
<1>3. /\ \A i \in Inputs : SrcSets[i] = Range(src[i])
      /\ \A c \in Calls : BatchSets[c] = Range(batch[c])
      /\ \A f \in Hands : HandSets[f] = Range(hand[f])
  BY DEF SrcSets, HandSets, BatchSets
<1>4. \A f \in Hands : fan[f] # "send" => HandSets[f] = {}
  BY <1>3, NothingQueued DEF WriterInv, HandsFull
<1>5. ASSUME NEW f \in Hands, fan[f] = "send"
      PROVE  \E r \in Records : hand[f] = <<r>> /\ hand[f][1] = r /\ HandSets[f] = {r} /\ Input(r) = f[2]
  <2>1. PICK r \in Records : hand[f] = <<r>> /\ Input(r) = f[2]
    BY <1>5 DEF WriterInv, HandsFull
  <2>2. Range(<<r>>) = {r} /\ <<r>>[1] = r
    BY RangeOne
  <2> QED BY <1>3, <2>1, <2>2
<1>6. Owned(SrcSets, HandSets)
  <2>1. \A i \in Inputs : \A r \in SrcSets[i] : Input(r) = i
    BY <1>3 DEF WriterInv, Singly
  <2>2. \A f \in Hands : \A r \in HandSets[f] : Input(r) = f[2]
    BY <1>4, <1>5
  <2> QED BY <2>1, <2>2 DEF Owned
<1> QED BY <1>2, <1>3, <1>4, <1>5, <1>6

\* With a single start, only the goroutines of that start hold anything.
LEMMA FirstHands ==
    ASSUME WriterInv, Once, NEW f \in Hands, fan[f] # "off"
    PROVE  f[1] = 1 /\ f[2] \in Inputs /\ f = <<1, f[2]>>
<1>1. f[1] \in Calls /\ f[2] \in Inputs /\ f = <<f[1], f[2]>>
  BY DEF Hands
<1>2. f[1] = 1
  BY <1>1, CallsFinite, WriterConstants DEF Once, WriterInv, HandsStarted, Calls
<1> QED BY <1>1, <1>2

LEMMA StepFanReceive ==
    ASSUME WriterInv, NEW c \in Calls, NEW i \in Inputs, FanReceive(c, i)
    PROVE  WriterInv'
<1> DEFINE f == <<c, i>>
           r == Head(src[i])
<1>1. /\ f \in Hands /\ f[1] = c /\ f[2] = i /\ fan[f] = "recv" /\ src[i] # <<>>
      /\ hand' = [hand EXCEPT ![f] = <<r>>] /\ src' = [src EXCEPT ![i] = Tail(@)]
      /\ fan' = [fan EXCEPT ![f] = "send"]
      /\ UNCHANGED <<kind, direct, stopped, closed, merged, done, isServing, loop, result, batch, final,
                     attempt, stored, written, retried, lost>>
  BY DEF FanReceive, fixed, flushVars, Hands
<1>2. /\ src \in [Inputs -> Seq(Records)] /\ hand \in [Hands -> Seq(Records)] /\ src[i] \in Seq(Records)
      /\ fan \in [Hands -> {"off", "recv", "send", "done"}]
      /\ IsInjective(src[i]) /\ Sorted(src[i]) /\ \A q \in Range(src[i]) : Input(q) = i
  BY DEF WriterInv, WriterTypeOK, Singly, Hands
<1>3. /\ r \in Records /\ Tail(src[i]) \in Seq(Records) /\ r \in Range(src[i])
      /\ Range(Tail(src[i])) = Range(src[i]) \ {r} /\ IsInjective(Tail(src[i]))
      /\ Sorted(Tail(src[i])) /\ Sooner({r}, Range(src[i]) \ {r})
  <2> DEFINE s == src[i]
  <2>1. s \in Seq(Records) /\ s # <<>> /\ IsInjective(s) /\ Sorted(s)
    BY <1>1, <1>2
  <2> HIDE DEF s
  <2>2. /\ Head(s) \in Records /\ Tail(s) \in Seq(Records) /\ Head(s) \in Range(s)
        /\ Range(Tail(s)) = Range(s) \ {Head(s)} /\ IsInjective(Tail(s))
        /\ Sorted(Tail(s)) /\ Sooner({Head(s)}, Range(Tail(s)))
    BY <2>1, InFront
  <2> QED BY <2>2 DEF s
<1> HIDE DEF f, r
<1>4. /\ \A g \in Hands : fan'[g] = IF g = f THEN "send" ELSE fan[g]
      /\ \A g \in Hands : hand'[g] = IF g = f THEN <<r>> ELSE hand[g]
      /\ \A j \in Inputs : src'[j] = IF j = i THEN Tail(src[i]) ELSE src[j]
  BY <1>1, <1>2
<1>5. <<r>> \in Seq(Records)
  BY <1>3
<1>6. WriterTypeOK'
  <2>1. src' \in [Inputs -> Seq(Records)] /\ hand' \in [Hands -> Seq(Records)] /\ fan' \in [Hands -> {"off", "recv", "send", "done"}]
    BY <1>1, <1>2, <1>3, <1>5
  <2> QED BY <1>1, <2>1 DEF WriterInv, WriterTypeOK, Hands
<1>7. HandsFull'
  BY <1>1, <1>2, <1>3, <1>4 DEF WriterInv, HandsFull
<1>8. HandsStarted'
  BY <1>1, <1>4 DEF WriterInv, HandsStarted
<1>9. OneLoop'
  BY <1>1 DEF WriterInv, OneLoop, Serves, Batch, Slot
<1>10. Singly'
  BY <1>1, <1>2, <1>3, <1>4 DEF WriterInv, Singly, WrittenOnce
<1>11. /\ SrcSets' = [SrcSets EXCEPT ![i] = @ \ {r}] /\ HandSets' = [HandSets EXCEPT ![f] = {r}]
       /\ BatchSets' = BatchSets /\ Again' = Again
  <2>1. SrcSets' = [SrcSets EXCEPT ![i] = @ \ {r}]
    BY <1>3, <1>4 DEF SrcSets
  <2>2. HandSets' = [HandSets EXCEPT ![f] = {r}]
    <3>1. Range(<<r>>) = {r}
      BY RangeOne
    <3>2. f \in Hands /\ \A g \in Hands : Range(hand'[g]) = IF g = f THEN {r} ELSE Range(hand[g])
      <4> DEFINE one == <<r>>
      <4>1. f \in Hands /\ Range(one) = {r} /\ \A g \in Hands : hand'[g] = IF g = f THEN one ELSE hand[g]
        BY <1>1, <1>4, <3>1
      <4> HIDE DEF one
      <4> QED BY <4>1
    <3> QED BY <3>2 DEF HandSets
  <2> QED BY <1>1, <2>1, <2>2 DEF BatchSets, Again
<1>12. r \in SrcSets[i] /\ HandSets[f] = {} /\ Again \in BOOLEAN
  BY <1>1, <1>3, SetsNow DEF Again
<1>13. Placement'
  <2>1. Placed([SrcSets EXCEPT ![i] = @ \ {r}], [HandSets EXCEPT ![f] = {r}], Range(merged), BatchSets, Range(written), lost, Again)
    <3>1. Placed(SrcSets, HandSets, Range(merged), BatchSets, Range(written), lost, Again)
      BY DEF WriterInv, Placement
    <3>2. f \in Hands /\ Again \in BOOLEAN /\ r \in SrcSets[i] /\ HandSets[f] = {}
      BY <1>1, <1>12
    <3> QED BY <3>1, <3>2, SrcToHand
  <2> QED BY <1>1, <1>11, <2>1 DEF Placement
<1>14. Lines'
  <2> SUFFICES ASSUME Once, ~retried
               PROVE  InLine(SrcSets', HandSets', Range(merged), Range(batch[1]), Range(written), stored[1])
    BY <1>1 DEF WriterInv, Lines, Once
  <2>1. f = <<1, i>>
    BY <1>1, FirstHands
  <2>2. InLine(SrcSets, HandSets, Range(merged), Range(batch[1]), Range(written), stored[1])
    BY DEF WriterInv, Lines
  <2>3. Sooner({r}, SrcSets[i] \ {r})
    BY <1>3, SetsNow
  <2>4. SrcSets \in [Inputs -> SUBSET Records] /\ HandSets \in [Hands -> SUBSET Records]
    BY SetsNow
  <2>5. InLine([SrcSets EXCEPT ![i] = @ \ {r}], [HandSets EXCEPT ![<<1, i>>] = {r}],
               Range(merged), Range(batch[1]), Range(written), stored[1])
    BY <1>1, <1>12, <2>1, <2>2, <2>3, <2>4, LineReceive
  <2> QED BY <1>11, <2>1, <2>5
<1>15. S3Errors'
  BY <1>1, ErrorsKept DEF WriterInv
<1> QED BY <1>6, <1>7, <1>8, <1>9, <1>10, <1>13, <1>14, <1>15 DEF WriterInv

LEMMA PlacedNow ==
    ASSUME WriterInv
    PROVE  /\ Placed(SrcSets, HandSets, Range(merged), BatchSets, Range(written), lost, Again)
           /\ Again \in BOOLEAN
  BY DEF WriterInv, Placement, Again

\* A goroutine parts with the record in its hand.
GivesHand(f, x) ==
    /\ fan[f] = "send" /\ fan' = [fan EXCEPT ![f] = x] /\ hand' = [hand EXCEPT ![f] = <<>>]
    /\ direct' = direct /\ \A c \in Calls : loop[c] # "off" => loop'[c] # "off"

LEMMA HandGiven ==
    ASSUME WriterInv, NEW f \in Hands, NEW x \in {"recv", "done"}, GivesHand(f, x)
    PROVE  /\ hand[f][1] \in Records /\ HandSets[f] = {hand[f][1]}
           /\ HandSets' = [HandSets EXCEPT ![f] = {}]
           /\ hand' \in [Hands -> Seq(Records)] /\ fan' \in [Hands -> {"off", "recv", "send", "done"}]
           /\ HandsFull' /\ HandsStarted'
<1>1. /\ hand \in [Hands -> Seq(Records)] /\ fan \in [Hands -> {"off", "recv", "send", "done"}]
      /\ <<>> \in Seq(Records)
  BY DEF WriterInv, WriterTypeOK, Hands
<1>2. /\ \A g \in Hands : fan'[g] = IF g = f THEN x ELSE fan[g]
      /\ \A g \in Hands : hand'[g] = IF g = f THEN <<>> ELSE hand[g]
  BY <1>1 DEF GivesHand
<1>3. /\ hand' \in [Hands -> Seq(Records)] /\ fan' \in [Hands -> {"off", "recv", "send", "done"}]
  BY <1>1 DEF GivesHand
<1>4. hand[f][1] \in Records /\ HandSets[f] = {hand[f][1]}
  BY SetsNow DEF GivesHand
<1>5. HandSets' = [HandSets EXCEPT ![f] = {}]
  <2>1. \A g \in Hands : Range(hand'[g]) = IF g = f THEN {} ELSE Range(hand[g])
    <3> DEFINE none == <<>>
    <3>1. Range(none) = {} /\ \A g \in Hands : hand'[g] = IF g = f THEN none ELSE hand[g]
      BY <1>2, NothingQueued
    <3> HIDE DEF none
    <3> QED BY <3>1
  <2> QED BY <2>1 DEF HandSets
<1>6. HandsFull'
  <2> SUFFICES ASSUME NEW g \in Hands
               PROVE  IF fan'[g] = "send" THEN \E r \in Records : hand'[g] = <<r>> /\ Input(r) = g[2]
                      ELSE hand'[g] = <<>>
    BY DEF HandsFull
  <2>1. CASE g = f
    BY <1>2, <2>1
  <2>2. CASE g # f
    BY <1>2, <2>2 DEF WriterInv, HandsFull
  <2> QED BY <2>1, <2>2
<1>7. HandsStarted'
  <2>1. \A g \in Hands : g[1] \in Calls
    BY DEF Hands
  <2> QED BY <1>2, <2>1 DEF WriterInv, HandsStarted, GivesHand
<1> QED BY <1>3, <1>4, <1>5, <1>6, <1>7

FanSends(c, i) ==
    /\ kind # "postgres" /\ fan[<<c, i>>] = "send" /\ RoomMerged
    /\ merged' = Append(merged, hand[<<c, i>>][1]) /\ hand' = [hand EXCEPT ![<<c, i>>] = <<>>]
    /\ fan' = [fan EXCEPT ![<<c, i>>] = "recv"]
    /\ UNCHANGED <<fixed, src, closed, done, isServing, loop, result, batch, final, flushVars, lost>>

LEMMA StepFanSend ==
    ASSUME WriterInv, NEW c \in Calls, NEW i \in Inputs, FanSends(c, i)
    PROVE  WriterInv'
<1> DEFINE f == <<c, i>>
           r == hand[f][1]
<1>1. /\ kind # "postgres" /\ f \in Hands /\ f[1] = c /\ f[2] = i /\ fan[f] = "send" /\ fan' = [fan EXCEPT ![f] = "recv"]
      /\ merged' = Append(merged, r) /\ hand' = [hand EXCEPT ![f] = <<>>] /\ Len(merged) < MaxRecs
      /\ UNCHANGED <<kind, direct, stopped, src, closed, done, isServing, loop, result, batch, final,
                     attempt, stored, written, retried, lost>>
  BY DEF FanSends, fixed, flushVars, Hands, RoomMerged
<1> HIDE DEF f
<1>2. /\ r \in Records /\ HandSets[f] = {r} /\ HandSets' = [HandSets EXCEPT ![f] = {}]
      /\ hand' \in [Hands -> Seq(Records)] /\ fan' \in [Hands -> {"off", "recv", "send", "done"}]
      /\ HandsFull' /\ HandsStarted'
  BY <1>1, HandGiven DEF GivesHand
<1> HIDE DEF r
<1>3. merged \in Seq(Records) /\ IsInjective(merged) /\ MaxRecs \in Nat /\ Len(merged) \in Nat
  BY WriterConstants DEF WriterInv, WriterTypeOK, Singly
<1>4. /\ merged' \in Seq(Records) /\ Len(merged') = Len(merged) + 1
      /\ Range(merged') = Range(merged) \union {r}
      /\ r \notin Range(merged) => IsInjective(merged')
      /\ Sorted(merged) /\ Sooner(Range(merged), {r}) => Sorted(merged')
  <2>1. r \in Records /\ merged' = Append(merged, r)
    BY <1>1, <1>2
  <2>2. Longer(merged, r, merged')
    BY <2>1 DEF Longer
  <2>3. r \in Records /\ merged \in Seq(Records) /\ IsInjective(merged)
    BY <1>3, <2>1
  <2> QED BY <2>2, <2>3, Behind
<1>5. WriterTypeOK'
  BY <1>1, <1>2, <1>3, <1>4 DEF WriterInv, WriterTypeOK, Hands
<1>6. OneLoop'
  BY <1>1 DEF WriterInv, OneLoop, Serves, Batch, Slot
<1>7. SrcSets' = SrcSets /\ BatchSets' = BatchSets /\ Again' = Again
  BY <1>1 DEF SrcSets, BatchSets, Again
<1>8. Placement' /\ r \notin Range(merged)
  <2>1. /\ Placed(SrcSets, [HandSets EXCEPT ![f] = {}], Range(merged), BatchSets, Range(written), lost \union {r}, Again)
        /\ r \notin lost
    <3>1. f \in Hands /\ HandSets[f] = {r}
      BY <1>1, <1>2
    <3>2. /\ Placed(SrcSets, HandSets, Range(merged), BatchSets, Range(written), lost, Again)
          /\ Again \in BOOLEAN
      BY PlacedNow
    <3> QED BY <3>1, <3>2, HandToLost
  <2>2. /\ Placed(SrcSets, [HandSets EXCEPT ![f] = {}], Range(merged) \union {r}, BatchSets, Range(written), lost, Again)
        /\ r \notin Range(merged)
    BY <2>1, PlacedNow, LostToMerged
  <2> QED BY <1>1, <1>2, <1>4, <1>7, <2>2 DEF Placement
<1>9. Singly'
  BY <1>1, <1>4, <1>8 DEF WriterInv, Singly, WrittenOnce
<1>10. Lines'
  <2> SUFFICES ASSUME Once, ~retried
               PROVE  /\ Sorted(merged')
                      /\ InLine(SrcSets, HandSets', Range(merged'), Range(batch[1]), Range(written), stored[1])
    BY <1>1, <1>7 DEF WriterInv, Lines, Once
  <2>1. f = <<1, i>>
    BY <1>1, FirstHands
  <2>2. /\ Sorted(merged) /\ InLine(SrcSets, HandSets, Range(merged), Range(batch[1]), Range(written), stored[1])
    BY DEF WriterInv, Lines
  <2>3. Sooner(Range(merged), {r})
    BY <1>2, <2>1, <2>2 DEF InLine
  <2>4. SrcSets \in [Inputs -> SUBSET Records] /\ HandSets \in [Hands -> SUBSET Records] /\ Owned(SrcSets, HandSets)
    BY SetsNow
  <2>5. HandSets[<<1, i>>] = {r}
    BY <1>2, <2>1
  <2>6. InLine(SrcSets, [HandSets EXCEPT ![<<1, i>>] = {}], Range(merged) \union {r}, Range(batch[1]), Range(written), stored[1])
    BY <2>2, <2>4, <2>5, LineSend
  <2> QED BY <1>2, <1>4, <2>1, <2>2, <2>3, <2>6
<1>11. S3Errors'
  BY <1>1, ErrorsKept DEF WriterInv
<1> QED BY <1>2, <1>5, <1>6, <1>8, <1>9, <1>10, <1>11 DEF WriterInv

FanGivesUp(c, i) ==
    /\ fan[<<c, i>>] = "send" /\ done[c]
    /\ lost' = lost \union {hand[<<c, i>>][1]} /\ hand' = [hand EXCEPT ![<<c, i>>] = <<>>]
    /\ fan' = [fan EXCEPT ![<<c, i>>] = "done"] /\ merged' = merged
    /\ UNCHANGED <<fixed, src, closed, done, isServing, loop, result, batch, final, flushVars>>

LEMMA StepFanGivesUp ==
    ASSUME WriterInv, NEW c \in Calls, NEW i \in Inputs, FanGivesUp(c, i)
    PROVE  WriterInv'
<1> DEFINE f == <<c, i>>
           r == hand[f][1]
<1>1. /\ f \in Hands /\ fan[f] = "send" /\ done[c] /\ fan' = [fan EXCEPT ![f] = "done"]
      /\ lost' = lost \union {r} /\ hand' = [hand EXCEPT ![f] = <<>>]
      /\ UNCHANGED <<kind, direct, stopped, src, closed, merged, done, isServing, loop, result, batch, final,
                     attempt, stored, written, retried>>
  BY DEF FanGivesUp, fixed, flushVars, Hands
<1> HIDE DEF f
<1>2. /\ r \in Records /\ HandSets[f] = {r} /\ HandSets' = [HandSets EXCEPT ![f] = {}]
      /\ hand' \in [Hands -> Seq(Records)] /\ fan' \in [Hands -> {"off", "recv", "send", "done"}]
      /\ HandsFull' /\ HandsStarted'
  BY <1>1, HandGiven DEF GivesHand
<1> HIDE DEF r
<1>3. WriterTypeOK'
  BY <1>1, <1>2 DEF WriterInv, WriterTypeOK, Hands
<1>4. OneLoop'
  BY <1>1 DEF WriterInv, OneLoop, Serves, Batch, Slot
<1>5. SrcSets' = SrcSets /\ BatchSets' = BatchSets /\ Again' = Again
  BY <1>1 DEF SrcSets, BatchSets, Again
<1>6. Placement'
  <2>1. Placed(SrcSets, [HandSets EXCEPT ![f] = {}], Range(merged), BatchSets, Range(written), lost \union {r}, Again)
    <3>1. f \in Hands /\ HandSets[f] = {r}
      BY <1>1, <1>2
    <3>2. /\ Placed(SrcSets, HandSets, Range(merged), BatchSets, Range(written), lost, Again)
          /\ Again \in BOOLEAN
      BY PlacedNow
    <3> QED BY <3>1, <3>2, HandToLost
  <2> QED BY <1>1, <1>2, <1>5, <2>1 DEF Placement
<1>7. Singly'
  BY <1>1 DEF WriterInv, Singly, WrittenOnce
<1>8. Lines'
  <2> SUFFICES ASSUME Once, ~retried
               PROVE  InLine(SrcSets, HandSets', Range(merged), Range(batch[1]), Range(written), stored[1])
    BY <1>1, <1>5 DEF WriterInv, Lines, Once
  <2>1. InLine(SrcSets, HandSets, Range(merged), Range(batch[1]), Range(written), stored[1])
    BY DEF WriterInv, Lines
  <2>2. \A j \in Inputs : HandSets'[<<1, j>>] \subseteq HandSets[<<1, j>>]
    <3>1. \A g \in Hands : HandSets'[g] \subseteq HandSets[g]
      BY <1>1, <1>2, SetsNow
    <3> QED BY <3>1, CallsFinite DEF Hands
  <2> QED BY <2>1, <2>2, LineShrink
<1>9. S3Errors'
  BY <1>1 DEF S3Errors
<1> QED BY <1>2, <1>3, <1>4, <1>6, <1>7, <1>8, <1>9 DEF WriterInv

\* A record comes out of the channel, from its buffer or out of a hand.
Draws(r) ==
    /\ Received(r) /\ UNCHANGED <<kind, direct, stopped, src, closed, done, final, attempt, stored, written, retried>>
    /\ \A c \in Calls : loop[c] # "off" => loop'[c] # "off"

LEMMA Drawn ==
    ASSUME WriterInv, NEW r \in Records, Draws(r)
    PROVE  /\ Placed(SrcSets, HandSets', Range(merged'), BatchSets, Range(written), lost \union {r}, Again)
           /\ r \notin lost
           /\ hand' \in [Hands -> Seq(Records)] /\ fan' \in [Hands -> {"off", "recv", "send", "done"}]
           /\ HandsFull' /\ HandsStarted'
           /\ merged' \in Seq(Records) /\ Len(merged') <= MaxRecs /\ IsInjective(merged')
           /\ kind = "postgres" => merged' = <<>>
           /\ Once /\ ~retried =>
                /\ Sorted(merged') /\ Sooner(Range(batch[1]), {r})
                /\ InLine(SrcSets, HandSets', Range(merged'), Range(batch[1]) \union {r}, Range(written), stored[1])
<1>1. /\ Placed(SrcSets, HandSets, Range(merged), BatchSets, Range(written), lost, Again)
      /\ Again \in BOOLEAN
  BY PlacedNow
<1>2. CASE Buffered(r)
  <2>1. /\ kind # "postgres" /\ merged # <<>> /\ r = Head(merged) /\ merged' = Tail(merged) /\ fan' = fan /\ hand' = hand
        /\ direct' = direct
    BY <1>2 DEF Buffered, Draws
  <2>2. merged \in Seq(Records) /\ IsInjective(merged) /\ Len(merged) <= MaxRecs /\ MaxRecs \in Nat
    BY WriterConstants DEF WriterInv, WriterTypeOK, Singly
  <2>3. /\ r \in Range(merged) /\ Range(merged') = Range(merged) \ {r} /\ IsInjective(merged')
        /\ merged' \in Seq(Records) /\ Len(merged') = Len(merged) - 1 /\ Len(merged) \in Nat
        /\ Sorted(merged) => Sorted(merged') /\ Sooner({r}, Range(merged'))
    <3>1. /\ Head(merged) \in Range(merged) /\ Range(Tail(merged)) = Range(merged) \ {Head(merged)}
          /\ IsInjective(Tail(merged)) /\ Tail(merged) \in Seq(Records) /\ Len(Tail(merged)) = Len(merged) - 1
          /\ Len(merged) \in Nat
          /\ Sorted(merged) => Sorted(Tail(merged)) /\ Sooner({Head(merged)}, Range(Tail(merged)))
      BY <2>1, <2>2, InFront
    <3> QED BY <2>1, <3>1
  <2>4. HandSets' = HandSets
    BY <2>1 DEF HandSets
  <2>5. HandsFull' /\ HandsStarted'
    <3>1. \A f \in Hands : f[1] \in Calls
      BY DEF Hands
    <3> QED BY <2>1, <3>1 DEF WriterInv, HandsFull, HandsStarted, Draws
  <2>6. /\ Placed(SrcSets, HandSets', Range(merged'), BatchSets, Range(written), lost \union {r}, Again)
        /\ r \notin lost
    <3>1. /\ Placed(SrcSets, HandSets, Range(merged) \ {r}, BatchSets, Range(written), lost \union {r}, Again)
          /\ r \notin lost
      BY <1>1, <2>3, MergedToLost
    <3> QED BY <2>3, <2>4, <3>1
  <2>7. ASSUME Once, ~retried
        PROVE  /\ Sorted(merged') /\ Sooner(Range(batch[1]), {r})
               /\ InLine(SrcSets, HandSets', Range(merged'), Range(batch[1]) \union {r}, Range(written), stored[1])
    <3>1. Sorted(merged) /\ InLine(SrcSets, HandSets, Range(merged), Range(batch[1]), Range(written), stored[1])
      BY <2>7 DEF WriterInv, Lines
    <3>2. Sorted(merged') /\ Sooner({r}, Range(merged) \ {r}) /\ r \in Range(merged)
      BY <2>3, <3>1
    <3>3. Sooner(Range(batch[1]), Range(merged))
      BY <3>1 DEF InLine
    <3>4. Sooner(Range(batch[1]), {r})
      BY <3>2, <3>3 DEF Sooner
    <3>5. InLine(SrcSets, HandSets, Range(merged) \ {r}, Range(batch[1]) \union {r}, Range(written), stored[1])
      BY <3>1, <3>2, LineTake
    <3> QED BY <2>3, <2>4, <3>2, <3>4, <3>5
  <2>8. hand' \in [Hands -> Seq(Records)] /\ fan' \in [Hands -> {"off", "recv", "send", "done"}]
    BY <2>1 DEF WriterInv, WriterTypeOK, Hands
  <2>9. Len(merged') <= MaxRecs
    BY <2>2, <2>3
  <2> QED BY <2>1, <2>3, <2>5, <2>6, <2>7, <2>8, <2>9
<1>3. CASE HandedOver(r)
  <2>1. PICK f \in Hands : fan[f] = "send" /\ r = hand[f][1] /\ fan' = [fan EXCEPT ![f] = "recv"]
                           /\ hand' = [hand EXCEPT ![f] = <<>>]
    BY <1>3 DEF HandedOver, Hands
  <2>2. kind = "postgres" /\ merged' = merged /\ merged = <<>>
    BY <1>3 DEF HandedOver, WriterInv, OneLoop
  <2>3. GivesHand(f, "recv")
    BY <2>1 DEF GivesHand, Draws
  <2>4. /\ HandSets[f] = {r} /\ HandSets' = [HandSets EXCEPT ![f] = {}]
        /\ hand' \in [Hands -> Seq(Records)] /\ fan' \in [Hands -> {"off", "recv", "send", "done"}]
        /\ HandsFull' /\ HandsStarted'
    BY <2>1, <2>3, HandGiven
  <2>5. /\ Placed(SrcSets, HandSets', Range(merged'), BatchSets, Range(written), lost \union {r}, Again)
        /\ r \notin lost
    <3>1. HandSets[f] = {r}
      BY <2>4
    <3>2. /\ Placed(SrcSets, [HandSets EXCEPT ![f] = {}], Range(merged), BatchSets, Range(written), lost \union {r}, Again)
          /\ r \notin lost
      BY <1>1, <3>1, HandToLost
    <3> QED BY <2>2, <2>4, <3>2
  <2>6. /\ merged' \in Seq(Records) /\ Len(merged') <= MaxRecs /\ IsInjective(merged') /\ Sorted(merged')
    BY <2>2, NothingQueued DEF WriterInv, WriterTypeOK, Singly
  <2>7. ASSUME Once, ~retried
        PROVE  /\ Sooner(Range(batch[1]), {r})
               /\ InLine(SrcSets, HandSets', Range(merged'), Range(batch[1]) \union {r}, Range(written), stored[1])
    <3> DEFINE i == f[2]
    <3>1. i \in Inputs /\ f = <<1, i>>
      BY <2>1, <2>7, FirstHands
    <3> HIDE DEF i
    <3>2. InLine(SrcSets, HandSets, Range(merged), Range(batch[1]), Range(written), stored[1])
      BY <2>7 DEF WriterInv, Lines
    <3>3. SrcSets \in [Inputs -> SUBSET Records] /\ HandSets \in [Hands -> SUBSET Records] /\ Owned(SrcSets, HandSets)
      BY SetsNow
    <3>4. HandSets[<<1, i>>] = {r}
      BY <2>4, <3>1
    <3>5. InLine(SrcSets, [HandSets EXCEPT ![<<1, i>>] = {}], Range(merged) \union {r}, Range(batch[1]), Range(written), stored[1])
      BY <3>1, <3>2, <3>3, <3>4, LineSend
    <3>6. Range(merged) = {} /\ Range(merged') = {}
      BY <2>2, NothingQueued
    <3>7. InLine(SrcSets, HandSets', {r}, Range(batch[1]), Range(written), stored[1])
      BY <2>4, <3>1, <3>5, <3>6
    <3>8. Sooner({r}, {r} \ {r}) /\ Sooner(Range(batch[1]), {r})
      BY <3>7 DEF Sooner, InLine
    <3>9. InLine(SrcSets, HandSets', {r} \ {r}, Range(batch[1]) \union {r}, Range(written), stored[1])
      BY <3>7, <3>8, LineTake
    <3>10. {r} \ {r} = Range(merged')
      BY <3>6
    <3> QED BY <3>8, <3>9, <3>10
  <2> QED BY <2>2, <2>4, <2>5, <2>6, <2>7
<1> QED BY <1>2, <1>3 DEF Draws, Received

Collects(c, r, to) ==
    /\ Draws(r) /\ loop[c] = "loop" /\ batch' = [batch EXCEPT ![Slot(c)] = Append(@, r)]
    /\ to \in {"loop", "flush"} /\ loop' = [loop EXCEPT ![c] = to] /\ UNCHANGED <<result, isServing, lost>>

\* While a loop collects, no object of the client is half way.
LEMMA NoneStored ==
    ASSUME WriterInv, NEW c \in Calls, loop[c] = "loop"
    PROVE  \A d \in Calls : ~stored[d]
  BY DEF WriterInv, OneLoop, Serves

LEMMA SlotIn == ASSUME NEW c \in Calls PROVE Slot(c) \in Calls /\ (c = 1 => Slot(c) = 1)
  BY CallsFinite DEF Slot

LEMMA StepCollect ==
    ASSUME WriterInv, NEW c \in Calls, NEW r \in Records, NEW to, Collects(c, r, to)
    PROVE  WriterInv'
<1> DEFINE s == Slot(c)
           b == Append(batch[s], r)
<1>1. /\ Draws(r) /\ loop[c] = "loop" /\ batch' = [batch EXCEPT ![s] = b] /\ loop' = [loop EXCEPT ![c] = to]
      /\ to \in {"loop", "flush"}
      /\ UNCHANGED <<kind, direct, stopped, src, closed, done, isServing, result, final,
                     attempt, stored, written, retried, lost>>
  BY DEF Collects, Draws
<1>2. s \in Calls /\ (c = 1 => s = 1) /\ s = IF kind = "s3" THEN 1 ELSE c
  BY SlotIn DEF Slot
<1> HIDE DEF s
<1>3. /\ batch \in [Calls -> Seq(Records)] /\ IsInjective(batch[s]) /\ loop \in [Calls -> {"off", "enter", "loop", "flush", "over"}]
  BY <1>2 DEF WriterInv, WriterTypeOK, Singly
<1>4. /\ b \in Seq(Records) /\ b # <<>>
      /\ Range(b) = Range(batch[s]) \union {r}
      /\ r \notin Range(batch[s]) => IsInjective(b)
      /\ Sorted(batch[s]) /\ Sooner(Range(batch[s]), {r}) => Sorted(b)
  <2>1. batch[s] \in Seq(Records) /\ Longer(batch[s], r, b)
    BY <1>2, <1>3 DEF Longer
  <2> DEFINE q == batch[s]
  <2>2. q \in Seq(Records) /\ Longer(q, r, b) /\ IsInjective(q) /\ r \in Records
    BY <1>3, <2>1
  <2> HIDE DEF b, q
  <2>3. Range(b) = Range(q) \union {r}
    BY <2>2, RangeBehind
  <2>5. r \notin Range(q) => IsInjective(b)
    BY <2>2, Behind
  <2>6. Sorted(q) /\ Sooner(Range(q), {r}) => Sorted(b)
    BY <2>2, Behind
  <2>4. b # <<>> /\ b \in Seq(Records)
    BY <2>2 DEF Longer
  <2> QED BY <2>3, <2>4, <2>5, <2>6 DEF q
<1> HIDE DEF b
<1>5. /\ Placed(SrcSets, HandSets', Range(merged'), BatchSets, Range(written), lost \union {r}, Again)
      /\ r \notin lost
      /\ hand' \in [Hands -> Seq(Records)] /\ fan' \in [Hands -> {"off", "recv", "send", "done"}]
      /\ HandsFull' /\ HandsStarted'
      /\ merged' \in Seq(Records) /\ Len(merged') <= MaxRecs /\ IsInjective(merged')
      /\ kind = "postgres" => merged' = <<>>
      /\ Once /\ ~retried =>
           /\ Sorted(merged') /\ Sooner(Range(batch[1]), {r})
           /\ InLine(SrcSets, HandSets', Range(merged'), Range(batch[1]) \union {r}, Range(written), stored[1])
  BY <1>1, Drawn
<1>6. /\ \A d \in Calls : batch'[d] = IF d = s THEN b ELSE batch[d]
      /\ \A d \in Calls : loop'[d] = IF d = c THEN to ELSE loop[d]
      /\ batch' \in [Calls -> Seq(Records)] /\ loop' \in [Calls -> {"off", "enter", "loop", "flush", "over"}]
  BY <1>1, <1>2, <1>3, <1>4
<1>7. WriterTypeOK'
  BY <1>1, <1>5, <1>6 DEF WriterInv, WriterTypeOK, Hands
<1>8. OneLoop'
  <2>1. \A d \in Calls : ~stored[d]
    BY <1>1, NoneStored
  <2>2. kind # "postgres" => /\ \A d \in Calls : Serves(d)' => isServing
                             /\ \A d, e \in Calls : Serves(d)' /\ Serves(e)' => d = e
    BY <1>1, <1>6 DEF WriterInv, OneLoop, Serves
  <2>3. \A d \in Calls : loop'[d] = "flush" => Batch(d)' # <<>>
    BY <1>1, <1>2, <1>4, <1>6 DEF WriterInv, OneLoop, Batch, Slot
  <2>4. \A d \in Calls : batch'[d] # <<>> => IF kind = "s3" THEN d = 1 ELSE Serves(d)'
    BY <1>1, <1>2, <1>6 DEF WriterInv, OneLoop, Serves
  <2>5. \A d \in Calls : loop'[d] # "over" => result[d] = "none"
    BY <1>1, <1>6 DEF WriterInv, OneLoop
  <2> QED BY <1>1, <1>5, <2>1, <2>2, <2>3, <2>4, <2>5 DEF OneLoop
<1>9. SrcSets' = SrcSets /\ Again' = Again /\ BatchSets' = [BatchSets EXCEPT ![s] = @ \union {r}]
  <2>1. SrcSets' = SrcSets /\ Again' = Again
    BY <1>1 DEF SrcSets, Again
  <2>2. BatchSets' = [BatchSets EXCEPT ![s] = @ \union {r}]
    BY <1>2, <1>4, <1>6 DEF BatchSets
  <2> QED BY <2>1, <2>2
<1>10. /\ Placed(SrcSets, HandSets', Range(merged'), [BatchSets EXCEPT ![s] = @ \union {r}], Range(written), lost, Again)
       /\ r \notin Range(batch[s])
  <2>1. /\ Placed(SrcSets, HandSets', Range(merged'), BatchSets, Range(written), lost \union {r}, Again)
        /\ r \notin lost /\ Again \in BOOLEAN
    BY <1>5, PlacedNow
  <2>3. s \in Calls
    BY <1>2
  <2>2. /\ Placed(SrcSets, HandSets', Range(merged'), [BatchSets EXCEPT ![s] = @ \union {r}], Range(written), lost, Again)
    BY <2>3, <2>1, LostToBatch
  <2>4. r \notin BatchSets[s]
    BY <2>3, <2>1 DEF Placed, Apart
  <2> QED BY <1>2, <2>2, <2>4, SetsNow
<1>11. Placement'
  BY <1>1, <1>9, <1>10 DEF Placement
<1>12. Singly'
  BY <1>1, <1>4, <1>5, <1>6, <1>10 DEF WriterInv, Singly, WrittenOnce
<1>13. Lines'
  <2> SUFFICES ASSUME Once', ~retried
               PROVE  /\ Sorted(batch'[1]) /\ Sorted(merged') /\ Sorted(written)
                      /\ InLine(SrcSets, HandSets', Range(merged'), Range(batch'[1]), Range(written), stored[1])
    BY <1>1, <1>9 DEF Lines
  <2>1. c = 1 /\ Once
    BY <1>1, <1>6, CallsFinite, WriterConstants DEF Once, Calls
  <2>2. Sorted(batch[1]) /\ Sorted(written)
    BY <2>1 DEF WriterInv, Lines
  <2>3. s = 1 /\ batch'[1] = b /\ 1 \in Calls
    BY <1>2, <1>6, <2>1
  <2> QED BY <1>4, <1>5, <2>1, <2>2, <2>3
<1>14. S3Errors'
  BY <1>1, ErrorsKept DEF WriterInv
<1> QED BY <1>5, <1>7, <1>8, <1>11, <1>12, <1>13, <1>14 DEF WriterInv

\* kafka: a record that is skipped.
Skips(c, r) == Draws(r) /\ lost' = lost \union {r} /\ kind # "s3" /\ UNCHANGED <<batch, loop, result, isServing>>

LEMMA StepSkip ==
    ASSUME WriterInv, NEW c \in Calls, NEW r \in Records, Skips(c, r)
    PROVE  WriterInv'
<1>1. /\ Draws(r) /\ lost' = lost \union {r} /\ kind # "s3"
      /\ UNCHANGED <<kind, direct, stopped, src, closed, done, isServing, result, final, batch, loop,
                     attempt, stored, written, retried>>
  BY DEF Skips, Draws
<1>2. /\ Placed(SrcSets, HandSets', Range(merged'), BatchSets, Range(written), lost \union {r}, Again)
      /\ hand' \in [Hands -> Seq(Records)] /\ fan' \in [Hands -> {"off", "recv", "send", "done"}]
      /\ HandsFull' /\ HandsStarted'
      /\ merged' \in Seq(Records) /\ Len(merged') <= MaxRecs /\ IsInjective(merged')
      /\ kind = "postgres" => merged' = <<>>
      /\ Once /\ ~retried =>
           /\ Sorted(merged')
           /\ InLine(SrcSets, HandSets', Range(merged'), Range(batch[1]) \union {r}, Range(written), stored[1])
  BY <1>1, Drawn
<1>3. WriterTypeOK'
  BY <1>1, <1>2 DEF WriterInv, WriterTypeOK, Hands
<1>4. OneLoop'
  BY <1>1, <1>2 DEF WriterInv, OneLoop, Serves, Batch, Slot
<1>5. SrcSets' = SrcSets /\ BatchSets' = BatchSets /\ Again' = Again
  BY <1>1 DEF SrcSets, BatchSets, Again
<1>6. Placement'
  BY <1>1, <1>2, <1>5 DEF Placement
<1>7. Singly'
  BY <1>1, <1>2 DEF WriterInv, Singly, WrittenOnce
<1>8. Lines'
  <2> SUFFICES ASSUME Once, ~retried
               PROVE  InLine(SrcSets, HandSets', Range(merged'), Range(batch[1]), Range(written), stored[1])
    BY <1>1, <1>2, <1>5 DEF WriterInv, Lines, Once
  <2>1. InLine(SrcSets, HandSets', Range(merged'), Range(batch[1]) \union {r}, Range(written), stored[1])
    BY <1>2
  <2> QED BY <2>1, LineShrink
<1>9. S3Errors'
  BY <1>1 DEF S3Errors
<1> QED BY <1>2, <1>3, <1>4, <1>6, <1>7, <1>8, <1>9 DEF WriterInv

\* A serving loop goes on or returns.
LoopMoves(c) ==
    /\ Serves(c) /\ kind' = kind
    /\ \/ /\ loop' = [loop EXCEPT ![c] = "over"] /\ isServing' = (IF kind = "postgres" THEN isServing ELSE FALSE)
          /\ \E v \in {"nil", "err"} : result' = [result EXCEPT ![c] = v]
       \/ loop' = [loop EXCEPT ![c] = "loop"] /\ UNCHANGED <<result, isServing>>
       \/ UNCHANGED <<loop, result, isServing>>

LEMMA LoopMoved ==
    ASSUME WriterInv, NEW c \in Calls, LoopMoves(c)
    PROVE  /\ loop' \in [Calls -> {"off", "enter", "loop", "flush", "over"}]
           /\ result' \in [Calls -> {"none", "nil", "err"}] /\ isServing' \in BOOLEAN
           /\ kind # "postgres" => /\ \A d \in Calls : Serves(d)' => isServing'
                                   /\ \A d, e \in Calls : Serves(d)' /\ Serves(e)' => d = e
           /\ \A d \in Calls : loop'[d] # "over" => result'[d] = "none"
           /\ \A d \in Calls : loop[d] # "off" => loop'[d] # "off"
           /\ \A d \in Calls : d # c => loop'[d] = loop[d]
           /\ \A d \in Calls : result[d] = "err" => result'[d] = "err"
           /\ Once' => Once /\ c = 1
<1>1. /\ loop \in [Calls -> {"off", "enter", "loop", "flush", "over"}] /\ result \in [Calls -> {"none", "nil", "err"}]
      /\ isServing \in BOOLEAN /\ loop[c] \in {"loop", "flush"} /\ result[c] = "none"
      /\ \A d \in Calls : loop[d] # "over" => result[d] = "none"
  BY DEF WriterInv, WriterTypeOK, LoopMoves, Serves, OneLoop
<1>2. /\ loop' \in [Calls -> {"off", "enter", "loop", "flush", "over"}]
      /\ result' \in [Calls -> {"none", "nil", "err"}] /\ isServing' \in BOOLEAN
  BY <1>1 DEF LoopMoves
<1>3. /\ \A d \in Calls : d # c => loop'[d] = loop[d] /\ result'[d] = result[d]
      /\ loop'[c] \in {"over", "loop", "flush"} /\ (loop'[c] # "over" => result'[c] = "none")
      /\ loop'[c] # "over" => isServing' = isServing
      /\ isServing' = isServing \/ (loop'[c] = "over" /\ isServing' = FALSE)
  BY <1>1 DEF LoopMoves
<1>4. kind # "postgres" => /\ \A d \in Calls : Serves(d)' => isServing'
                           /\ \A d, e \in Calls : Serves(d)' /\ Serves(e)' => d = e
  <2>1. \A d \in Calls : Serves(d)' => Serves(d) /\ (d = c => loop'[c] # "over")
    BY <1>1, <1>3 DEF Serves
  <2>2. kind # "postgres" => \A d \in Calls : Serves(d) => d = c /\ isServing
    BY DEF WriterInv, OneLoop, LoopMoves
  <2> QED BY <1>3, <2>1, <2>2
<1>5. Once' => Once /\ c = 1
  <2>1. \A d \in Calls : d \in Nat /\ d >= 1 /\ (loop[d] # "off" => loop'[d] # "off") /\ (loop'[d] # "off" => loop[d] # "off")
    BY <1>1, <1>3, WriterConstants DEF Calls
  <2>2. loop[c] # "off"
    BY <1>1
  <2> QED BY <2>1, <2>2 DEF Once
<1>6. /\ \A d \in Calls : loop'[d] # "over" => result'[d] = "none"
      /\ \A d \in Calls : loop[d] # "off" => loop'[d] # "off"
      /\ \A d \in Calls : result[d] = "err" => result'[d] = "err"
  BY <1>1, <1>3
<1> QED BY <1>2, <1>3, <1>4, <1>5, <1>6

\* s3: writeOne fails, the call returns its error.
S3Rejects(c, r) ==
    /\ Draws(r) /\ kind = "s3" /\ loop[c] = "loop" /\ lost' = lost \union {r} /\ batch' = batch
    /\ loop' = [loop EXCEPT ![c] = "over"] /\ result' = [result EXCEPT ![c] = "err"] /\ isServing' = FALSE

LEMMA StepS3Rejects ==
    ASSUME WriterInv, NEW c \in Calls, NEW r \in Records, S3Rejects(c, r)
    PROVE  WriterInv'
<1>1. /\ Draws(r) /\ kind = "s3" /\ loop[c] = "loop" /\ lost' = lost \union {r}
      /\ loop' = [loop EXCEPT ![c] = "over"] /\ result' = [result EXCEPT ![c] = "err"] /\ isServing' = FALSE
      /\ UNCHANGED <<kind, direct, stopped, src, closed, done, final, batch, attempt, stored, written, retried>>
  BY DEF S3Rejects, Draws
<1>2. /\ Placed(SrcSets, HandSets', Range(merged'), BatchSets, Range(written), lost \union {r}, Again)
      /\ r \notin lost
      /\ hand' \in [Hands -> Seq(Records)] /\ fan' \in [Hands -> {"off", "recv", "send", "done"}]
      /\ HandsFull' /\ HandsStarted'
      /\ merged' \in Seq(Records) /\ Len(merged') <= MaxRecs /\ IsInjective(merged')
      /\ Once /\ ~retried =>
           /\ Sorted(merged')
           /\ InLine(SrcSets, HandSets', Range(merged'), Range(batch[1]) \union {r}, Range(written), stored[1])
  BY <1>1, Drawn
<1>3. /\ loop' \in [Calls -> {"off", "enter", "loop", "flush", "over"}]
      /\ result' \in [Calls -> {"none", "nil", "err"}]
      /\ \A d \in Calls : Serves(d)' => isServing'
      /\ \A d, e \in Calls : Serves(d)' /\ Serves(e)' => d = e
      /\ \A d \in Calls : loop'[d] # "over" => result'[d] = "none"
      /\ \A d \in Calls : d # c => loop'[d] = loop[d]
      /\ Once' => Once
  <2>1. LoopMoves(c)
    BY <1>1 DEF LoopMoves, Serves
  <2> QED BY <1>1, <2>1, LoopMoved
<1>4. WriterTypeOK'
  BY <1>1, <1>2, <1>3 DEF WriterInv, WriterTypeOK, Hands
<1>5. OneLoop'
  <2>1. \A d \in Calls : ~stored[d]
    BY <1>1, NoneStored
  <2>2. \A d \in Calls : loop'[d] # "flush"
    BY <1>1, <1>3 DEF WriterInv, OneLoop, WriterTypeOK, Serves
  <2>3. \A d \in Calls : batch[d] # <<>> => d = 1
    BY <1>1 DEF WriterInv, OneLoop
  <2> QED BY <1>1, <1>3, <2>1, <2>2, <2>3 DEF OneLoop
<1>6. SrcSets' = SrcSets /\ BatchSets' = BatchSets /\ Again' = Again
  BY <1>1 DEF SrcSets, BatchSets, Again
<1>7. Placement'
  BY <1>1, <1>2, <1>6 DEF Placement
<1>8. Singly'
  BY <1>1, <1>2 DEF WriterInv, Singly, WrittenOnce
<1>9. Lines'
  <2> SUFFICES ASSUME Once, ~retried
               PROVE  InLine(SrcSets, HandSets', Range(merged'), Range(batch[1]), Range(written), stored[1])
    BY <1>1, <1>2, <1>3, <1>6 DEF WriterInv, Lines
  <2>1. InLine(SrcSets, HandSets', Range(merged'), Range(batch[1]) \union {r}, Range(written), stored[1])
    BY <1>2
  <2> QED BY <2>1, LineShrink
<1>10. S3Errors'
  <2> SUFFICES ASSUME \A d \in Calls : ~done[d]
               PROVE  IsFiniteSet(lost') /\ Cardinality(lost') <= Cardinality(Failures')
    BY <1>1 DEF S3Errors
  <2>1. IsFiniteSet(lost) /\ Cardinality(lost) <= Cardinality(Failures)
    BY <1>1 DEF WriterInv, S3Errors
  <2>2. Failures' = Failures \union {c} /\ c \notin Failures /\ Failures \subseteq Calls
    <3>1. result \in [Calls -> {"none", "nil", "err"}] /\ result[c] = "none"
      BY <1>1 DEF WriterInv, OneLoop, WriterTypeOK
    <3> QED BY <1>1, <3>1 DEF Failures
  <2>3. IsFiniteSet(Failures)
    BY <2>2, CallsFinite, FS_Subset
  <2>4. IsFiniteSet(lost') /\ Cardinality(lost') = Cardinality(lost) + 1
    BY <1>1, <1>2, <2>1, FS_AddElement
  <2>5. Cardinality(Failures') = Cardinality(Failures) + 1
    BY <2>2, <2>3, FS_AddElement
  <2>6. Cardinality(lost) \in Nat /\ Cardinality(Failures) \in Nat
    BY <2>1, <2>3, FS_CardinalityType
  <2> QED BY <2>1, <2>4, <2>5, <2>6
<1> QED BY <1>2, <1>4, <1>5, <1>7, <1>8, <1>9, <1>10 DEF WriterInv

\* postgres: the batch goes with the record that cannot be encoded.
PgRejects(c, r) ==
    /\ Draws(r) /\ kind = "postgres" /\ loop[c] = "loop" /\ lost' = (lost \union {r}) \union Range(batch[c])
    /\ batch' = [batch EXCEPT ![c] = <<>>] /\ loop' = [loop EXCEPT ![c] = "over"]
    /\ result' = [result EXCEPT ![c] = "err"] /\ isServing' = isServing

\* The batch of a call is emptied.
Empties(c, b) == b = [batch EXCEPT ![c] = <<>>]

LEMMA Emptied ==
    ASSUME WriterInv, NEW c \in Calls, NEW b, Empties(c, b)
    PROVE  /\ b \in [Calls -> Seq(Records)]
           /\ \A d \in Calls : b[d] = IF d = c THEN <<>> ELSE batch[d]
           /\ [d \in Calls |-> Range(b[d])] = [BatchSets EXCEPT ![c] = {}]
           /\ \A d \in Calls : IsInjective(b[d])
           /\ \A d \in Calls : Range(b[d]) \subseteq Range(batch[d]) /\ (Sorted(batch[d]) => Sorted(b[d]))
<1>1. batch \in [Calls -> Seq(Records)] /\ \A d \in Calls : IsInjective(batch[d])
  BY DEF WriterInv, WriterTypeOK, Singly
<1> DEFINE none == <<>>
<1>2. none \in Seq(Records) /\ Range(none) = {} /\ IsInjective(none) /\ Sorted(none) /\ b = [batch EXCEPT ![c] = none]
  BY NothingQueued DEF Empties
<1> HIDE DEF none
<1>3. b \in [Calls -> Seq(Records)] /\ \A d \in Calls : b[d] = IF d = c THEN none ELSE batch[d]
  BY <1>1, <1>2
<1>4. [d \in Calls |-> Range(b[d])] = [BatchSets EXCEPT ![c] = {}]
  BY <1>2, <1>3 DEF BatchSets
<1>5. \A d \in Calls : IsInjective(b[d])
  BY <1>1, <1>2, <1>3
<1>6. \A d \in Calls : Range(b[d]) \subseteq Range(batch[d]) /\ (Sorted(batch[d]) => Sorted(b[d]))
  BY <1>2, <1>3
<1> QED BY <1>3, <1>4, <1>5, <1>6 DEF none

LEMMA StepPgRejects ==
    ASSUME WriterInv, NEW c \in Calls, NEW r \in Records, PgRejects(c, r)
    PROVE  WriterInv'
<1>1. /\ Draws(r) /\ kind = "postgres" /\ loop[c] = "loop" /\ lost' = (lost \union {r}) \union Range(batch[c])
      /\ batch' = [batch EXCEPT ![c] = <<>>]
      /\ loop' = [loop EXCEPT ![c] = "over"] /\ result' = [result EXCEPT ![c] = "err"]
      /\ UNCHANGED <<kind, direct, stopped, src, closed, done, final, isServing, attempt, stored, written, retried>>
  BY DEF PgRejects, Draws
<1>2. /\ Placed(SrcSets, HandSets', Range(merged'), BatchSets, Range(written), lost \union {r}, Again)
      /\ r \notin lost
      /\ hand' \in [Hands -> Seq(Records)] /\ fan' \in [Hands -> {"off", "recv", "send", "done"}]
      /\ HandsFull' /\ HandsStarted'
      /\ merged' \in Seq(Records) /\ Len(merged') <= MaxRecs /\ IsInjective(merged') /\ merged' = <<>>
      /\ Once /\ ~retried =>
           /\ Sorted(merged')
           /\ InLine(SrcSets, HandSets', Range(merged'), Range(batch[1]) \union {r}, Range(written), stored[1])
  BY <1>1, Drawn
<1>3. /\ loop' \in [Calls -> {"off", "enter", "loop", "flush", "over"}]
      /\ result' \in [Calls -> {"none", "nil", "err"}]
      /\ \A d \in Calls : loop'[d] # "over" => result'[d] = "none"
      /\ \A d \in Calls : d # c => loop'[d] = loop[d]
      /\ Once' => Once
  <2>1. LoopMoves(c)
    BY <1>1 DEF LoopMoves, Serves
  <2> QED BY <2>1, LoopMoved
<1>4. /\ batch' \in [Calls -> Seq(Records)]
      /\ \A d \in Calls : batch'[d] = IF d = c THEN <<>> ELSE batch[d]
      /\ [d \in Calls |-> Range(batch'[d])] = [BatchSets EXCEPT ![c] = {}]
      /\ \A d \in Calls : IsInjective(batch'[d])
      /\ \A d \in Calls : Range(batch'[d]) \subseteq Range(batch[d]) /\ (Sorted(batch[d]) => Sorted(batch'[d]))
  <2>1. Empties(c, batch')
    BY <1>1 DEF Empties
  <2> QED BY <2>1, Emptied
<1>5. Range(batch[c]) \subseteq Records /\ BatchSets[c] = Range(batch[c])
  BY SetsNow
<1>6. WriterTypeOK'
  <2>1. lost' \subseteq Records
    BY <1>1, <1>5 DEF WriterInv, WriterTypeOK
  <2> QED BY <1>1, <1>2, <1>3, <1>4, <2>1 DEF WriterInv, WriterTypeOK, Hands
<1>7. OneLoop'
  <2>1. \A d \in Calls : ~stored[d]
    BY <1>1 DEF WriterInv, OneLoop
  <2>2. \A d \in Calls : loop'[d] = "flush" => batch'[d] # <<>>
    BY <1>1, <1>3, <1>4 DEF WriterInv, OneLoop, Batch, Slot, WriterTypeOK
  <2>3. \A d \in Calls : batch'[d] # <<>> => Serves(d)'
    BY <1>1, <1>3, <1>4 DEF WriterInv, OneLoop, Serves
  <2> QED BY <1>1, <1>2, <1>3, <2>1, <2>2, <2>3 DEF OneLoop, Batch, Slot
<1>8. SrcSets' = SrcSets /\ BatchSets' = [BatchSets EXCEPT ![c] = {}] /\ Again' = FALSE /\ Again = FALSE
  BY <1>1, <1>4 DEF SrcSets, BatchSets, Again
<1>9. Placement'
  <2>1. Placed(SrcSets, HandSets', Range(merged'), BatchSets, Range(written), lost \union {r}, FALSE)
    BY <1>2, <1>8
  <2>5. Range(batch[c]) \subseteq BatchSets[c]
    BY <1>5
  <2>2. Placed(SrcSets, HandSets', Range(merged'), [BatchSets EXCEPT ![c] = @ \ Range(batch[c])], Range(written),
               (lost \union {r}) \union Range(batch[c]), FALSE)
    <3> DEFINE X == Range(batch[c])
               L == lost \union {r}
    <3>1. X \subseteq BatchSets[c] /\ Placed(SrcSets, HandSets', Range(merged'), BatchSets, Range(written), L, FALSE)
      BY <2>1, <2>5
    <3> HIDE DEF X, L
    <3>2. Placed(SrcSets, HandSets', Range(merged'), [BatchSets EXCEPT ![c] = @ \ X], Range(written), L \union X, FALSE)
      BY <3>1, BatchToLost
    <3> QED BY <3>2 DEF X, L
  <2>3. BatchSets[c] \ Range(batch[c]) = {}
    BY <1>5
  <2>4. Placed(SrcSets, HandSets', Range(merged'), [BatchSets EXCEPT ![c] = {}], Range(written), lost', FALSE)
    BY <1>1, <2>2, <2>3
  <2> QED BY <1>1, <1>8, <2>4 DEF Placement
<1>10. Singly'
  BY <1>1, <1>2, <1>4 DEF WriterInv, Singly, WrittenOnce
<1>11. Lines'
  <2> SUFFICES ASSUME Once, ~retried
               PROVE  /\ Sorted(batch'[1])
                      /\ InLine(SrcSets, HandSets', Range(merged'), Range(batch'[1]), Range(written), stored[1])
    BY <1>1, <1>2, <1>3, <1>8 DEF WriterInv, Lines
  <2>1. InLine(SrcSets, HandSets', Range(merged'), Range(batch[1]) \union {r}, Range(written), stored[1])
    BY <1>2
  <2>2. Range(batch'[1]) \subseteq Range(batch[1]) \union {r} /\ Sorted(batch'[1])
    BY <1>4, CallsFinite DEF WriterInv, Lines
  <2> QED BY <2>1, <2>2, LineShrink
<1>12. S3Errors'
  BY <1>1 DEF S3Errors
<1> QED BY <1>2, <1>6, <1>7, <1>9, <1>10, <1>11, <1>12 DEF WriterInv

\* kafka and postgres: of the batch of a call, the records X are written, those of g given
\* up, and k stays.
Unloads(c, X, k, g) ==
    /\ kind # "s3" /\ LoopMoves(c) /\ (k # <<>> => Serves(c)') /\ (loop'[c] = "flush" => k # <<>>)
    /\ X \subseteq Range(batch[c]) /\ g \subseteq Range(batch[c]) /\ X \intersect g = {}
    /\ k \in Seq(Records) /\ Range(k) = Range(batch[c]) \ (X \union g) /\ IsInjective(k)
    /\ Sorted(batch[c]) => Sorted(k) /\ Sooner(X, Range(batch[c]) \ X)
    /\ written' \in Seq(Records) /\ Range(written') = Range(written) \union X
    /\ (\A q \in X : q \notin Range(written)) => IsInjective(written')
    /\ Sorted(written) /\ Sorted(batch[c]) /\ Sooner(Range(written), X) => Sorted(written')
    /\ batch' = [batch EXCEPT ![c] = k] /\ lost' = lost \union g
    /\ UNCHANGED <<direct, stopped, src, fan, hand, closed, merged, done, final, attempt, stored, retried>>

LEMMA StepUnload ==
    ASSUME WriterInv, NEW c \in Calls, NEW X, NEW k, NEW g, Unloads(c, X, k, g)
    PROVE  WriterInv'
<1>1. /\ kind # "s3" /\ LoopMoves(c) /\ (k # <<>> => Serves(c)') /\ (loop'[c] = "flush" => k # <<>>)
      /\ batch' = [batch EXCEPT ![c] = k] /\ lost' = lost \union g /\ kind' = kind
      /\ UNCHANGED <<direct, stopped, src, fan, hand, closed, merged, done, final, attempt, stored, retried>>
  BY DEF Unloads, LoopMoves
<1>2. /\ X \subseteq Range(batch[c]) /\ g \subseteq Range(batch[c]) /\ X \intersect g = {}
      /\ k \in Seq(Records) /\ Range(k) = Range(batch[c]) \ (X \union g) /\ IsInjective(k)
      /\ Sorted(batch[c]) => Sorted(k) /\ Sooner(X, Range(batch[c]) \ X)
      /\ written' \in Seq(Records) /\ Range(written') = Range(written) \union X
      /\ (\A q \in X : q \notin Range(written)) => IsInjective(written')
      /\ Sorted(written) /\ Sorted(batch[c]) /\ Sooner(Range(written), X) => Sorted(written')
  BY DEF Unloads
<1>3. /\ loop' \in [Calls -> {"off", "enter", "loop", "flush", "over"}]
      /\ result' \in [Calls -> {"none", "nil", "err"}] /\ isServing' \in BOOLEAN
      /\ kind # "postgres" => /\ \A d \in Calls : Serves(d)' => isServing'
                              /\ \A d, e \in Calls : Serves(d)' /\ Serves(e)' => d = e
      /\ \A d \in Calls : loop'[d] # "over" => result'[d] = "none"
      /\ \A d \in Calls : loop[d] # "off" => loop'[d] # "off"
      /\ \A d \in Calls : d # c => loop'[d] = loop[d]
      /\ Once' => Once /\ c = 1
  BY <1>1, LoopMoved
<1>4. /\ BatchSets[c] = Range(batch[c]) /\ Range(batch[c]) \subseteq Records
      /\ batch \in [Calls -> Seq(Records)]
  BY SetsNow DEF WriterInv, WriterTypeOK
<1>5. /\ \A d \in Calls : batch'[d] = IF d = c THEN k ELSE batch[d]
      /\ batch' \in [Calls -> Seq(Records)]
  BY <1>1, <1>2, <1>4
<1>6. WriterTypeOK'
  <2>1. lost' \subseteq Records
    BY <1>1, <1>2, <1>4 DEF WriterInv, WriterTypeOK
  <2> QED BY <1>1, <1>2, <1>3, <1>5, <2>1 DEF WriterInv, WriterTypeOK
<1>7. HandsFull' /\ HandsStarted'
  <2>1. \A f \in Hands : f[1] \in Calls
    BY DEF Hands
  <2> QED BY <1>1, <1>3, <2>1 DEF WriterInv, HandsFull, HandsStarted
<1>8. OneLoop'
  <2>1. \A d \in Calls : ~stored[d]
    BY <1>1 DEF WriterInv, OneLoop
  <2>2. \A d \in Calls : loop'[d] = "flush" => batch'[d] # <<>>
    BY <1>1, <1>3, <1>5 DEF WriterInv, OneLoop, Batch, Slot
  <2>3. \A d \in Calls : batch'[d] # <<>> => Serves(d)'
    BY <1>1, <1>3, <1>5 DEF WriterInv, OneLoop, Serves
  <2>4. kind = "postgres" => merged = <<>>
    BY DEF WriterInv, OneLoop
  <2> QED BY <1>1, <1>3, <2>1, <2>2, <2>3, <2>4 DEF OneLoop, Batch, Slot
<1>9. SrcSets' = SrcSets /\ HandSets' = HandSets /\ Again' = FALSE /\ Again = FALSE
  BY <1>1 DEF SrcSets, HandSets, Again
<1>10. BatchSets' = [BatchSets EXCEPT ![c] = @ \ (X \union g)]
  BY <1>2, <1>4, <1>5 DEF BatchSets
<1>11. Placement' /\ \A q \in X : q \notin Range(written)
  <2> DEFINE Y == X \union g
             L == lost \union g
  <2>1. Placed(SrcSets, HandSets, Range(merged), BatchSets, Range(written), lost, FALSE)
    BY <1>9, PlacedNow
  <2>2. Y \subseteq BatchSets[c] /\ X \subseteq Y /\ g \subseteq Y
    BY <1>2, <1>4
  <2> HIDE DEF Y
  <2>3. /\ Placed(SrcSets, HandSets, Range(merged), [BatchSets EXCEPT ![c] = @ \ Y], Range(written), lost \union Y, FALSE)
        /\ \A q \in Y : q \notin lost /\ q \notin Range(written)
    BY <2>1, <2>2, BatchToLost
  <2>4. lost \union Y = L \union X /\ \A q \in X : q \notin L
    BY <1>2, <2>2, <2>3 DEF Y
  <2> HIDE DEF L
  <2>5. Placed(SrcSets, HandSets, Range(merged), [BatchSets EXCEPT ![c] = @ \ Y], Range(written), L \union X, FALSE)
    BY <2>3, <2>4
  <2>6. Placed(SrcSets, HandSets, Range(merged), [BatchSets EXCEPT ![c] = @ \ Y], Range(written) \union X, L, FALSE)
    BY <2>4, <2>5, LostToWritten
  <2>7. Placed(SrcSets, HandSets, Range(merged), BatchSets', Range(written'), lost', FALSE)
    BY <1>1, <1>2, <1>10, <2>6 DEF Y, L
  <2> QED BY <1>1, <1>9, <2>2, <2>3, <2>7 DEF Placement
<1>12. Singly'
  <2>1. IsInjective(written')
    BY <1>2, <1>11
  <2> QED BY <1>1, <1>2, <1>5, <2>1 DEF WriterInv, Singly, WrittenOnce
<1>13. Lines'
  <2> SUFFICES ASSUME Once', ~retried
               PROVE  /\ Sorted(written') /\ Sorted(batch'[1]) /\ Sorted(merged)
                      /\ InLine(SrcSets, HandSets, Range(merged), Range(batch'[1]), Range(written'), stored[1])
    BY <1>1, <1>9 DEF Lines
  <2>1. c = 1 /\ Once
    BY <1>3
  <2>2. /\ Sorted(written) /\ Sorted(batch[c]) /\ Sorted(merged)
        /\ InLine(SrcSets, HandSets, Range(merged), Range(batch[c]), Range(written), stored[1])
    BY <2>1 DEF WriterInv, Lines
  <2>3. stored[1] = FALSE
    BY <1>1, CallsFinite DEF WriterInv, OneLoop, WriterTypeOK
  <2>4. InLine(SrcSets, HandSets, Range(merged), Range(batch[c]), Range(written), FALSE)
    BY <2>2, <2>3
  <2>5. Sooner(X, Range(batch[c]) \ X) /\ Sooner(Range(written), X) /\ X \subseteq Range(batch[c])
    <3>1. Sooner(Range(written), Range(batch[c]))
      BY <2>4 DEF InLine
    <3> QED BY <1>2, <2>2, <3>1, Shrinks
  <2>6. InLine(SrcSets, HandSets, Range(merged), Range(batch[c]) \ X, Range(written) \union X, FALSE)
    BY <2>4, <2>5, LineWrite
  <2>7. Range(k) \subseteq Range(batch[c]) \ X
    BY <1>2
  <2>8. InLine(SrcSets, HandSets, Range(merged), Range(k), Range(written) \union X, FALSE)
    BY <2>6, <2>7, LineShrink
  <2>9. batch'[1] = k
    BY <1>5, <2>1
  <2> QED BY <1>2, <2>2, <2>3, <2>5, <2>8, <2>9
<1>14. S3Errors'
  BY <1>1 DEF S3Errors
<1> QED BY <1>6, <1>7, <1>8, <1>11, <1>12, <1>13, <1>14 DEF WriterInv

\* s3: what an attempt that stores the object leaves in the bucket.
LEMMA Stores ==
    ASSUME WriterInv, NEW c \in Calls, kind = "s3", loop[c] = "flush", NEW w, w = Store(c)
    PROVE  /\ w \in Seq(Records) /\ Range(w) = Range(written) \union Range(batch[1])
           /\ ~retried => IsInjective(w)
           /\ Placed(SrcSets, HandSets, Range(merged), BatchSets, Range(w), lost, TRUE)
           /\ Once /\ ~retried =>
                /\ Sorted(w) /\ InLine(SrcSets, HandSets, Range(merged), Range(batch[1]), Range(w), TRUE)
<1>1. /\ 1 \in Calls /\ BatchSets[1] = Range(batch[1]) /\ batch[1] \in Seq(Records) /\ written \in Seq(Records)
      /\ IsInjective(batch[1]) /\ (~retried => IsInjective(written))
  BY CallsFinite, SetsNow DEF WriterInv, WriterTypeOK, Singly, WrittenOnce
<1>2. \A d \in Calls : stored[d] => d = c
  BY DEF WriterInv, OneLoop, Serves
<1>3. stored[c] => Range(batch[1]) \subseteq Range(written)
  BY DEF WriterInv, OneLoop
<1>4. IF stored[c] THEN w = written ELSE w = written \o batch[1]
  BY DEF Store, Batch, Slot
<1>5. w \in Seq(Records) /\ Range(w) = Range(written) \union Range(batch[1])
  <2>1. CASE stored[c]
    BY <1>1, <1>3, <1>4, <2>1
  <2>2. CASE ~stored[c]
    <3>1. Both(written, batch[1], w)
      BY <1>4, <2>2 DEF Both
    <3> QED BY <1>1, <3>1, Joined
  <2> QED BY <2>1, <2>2
<1>6. ASSUME ~retried PROVE IsInjective(w)
  <2>1. CASE stored[c]
    BY <1>1, <1>4, <1>6, <2>1
  <2>2. CASE ~stored[c]
    <3>1. Both(written, batch[1], w)
      BY <1>4, <2>2 DEF Both
    <3>2. Again = FALSE
      BY <1>2, <1>6, <2>2 DEF Again
    <3>3. \A r \in Range(written) : r \notin Range(batch[1])
      BY <1>1, <3>2, PlacedNow DEF Placed, NotWritten
    <3> QED BY <1>1, <1>6, <3>1, <3>3, Joined
  <2> QED BY <2>1, <2>2
<1>7. Placed(SrcSets, HandSets, Range(merged), BatchSets, Range(w), lost, TRUE)
  <2>1. Placed(SrcSets, HandSets, Range(merged), BatchSets, Range(written), lost, Again) /\ Again \in BOOLEAN
    BY PlacedNow
  <2>2. 1 \in Calls
    BY <1>1
  <2>3. Placed(SrcSets, HandSets, Range(merged), BatchSets, Range(written) \union BatchSets[1], lost, TRUE)
    BY <2>1, <2>2, StoredKept
  <2> QED BY <1>1, <1>5, <2>3
<1>8. ASSUME Once, ~retried
      PROVE  Sorted(w) /\ InLine(SrcSets, HandSets, Range(merged), Range(batch[1]), Range(w), TRUE)
  <2>1. /\ Sorted(written) /\ Sorted(batch[1])
        /\ InLine(SrcSets, HandSets, Range(merged), Range(batch[1]), Range(written), stored[1])
    BY <1>8 DEF WriterInv, Lines
  <2>2. InLine(SrcSets, HandSets, Range(merged), Range(batch[1]), Range(written) \union Range(batch[1]), TRUE)
    BY <2>1, LineStore
  <2>3. c = 1
    BY <1>8, WriterConstants DEF Once, Calls
  <2>4. Sorted(w)
    <3>1. CASE stored[c]
      BY <1>4, <2>1, <3>1
    <3>2. CASE ~stored[c]
      <4>1. Both(written, batch[1], w)
        BY <1>4, <3>2 DEF Both
      <4>2. Sooner(Range(written), Range(batch[1]))
        BY <2>1, <2>3, <3>2 DEF InLine
      <4> QED BY <1>1, <2>1, <4>1, <4>2, Joined
    <3> QED BY <3>1, <3>2
  <2> QED BY <1>5, <2>2, <2>4
<1> QED BY <1>5, <1>6, <1>7, <1>8

\* What both outcomes of a put leave alone.
S3Keeps(c) ==
    /\ kind = "s3" /\ loop[c] = "flush" /\ LoopMoves(c)
    /\ UNCHANGED <<direct, stopped, src, fan, hand, closed, merged, done, final, lost>>

LEMMA S3Kept ==
    ASSUME WriterInv, NEW c \in Calls, S3Keeps(c)
    PROVE  /\ kind' = "s3" /\ SrcSets' = SrcSets /\ HandSets' = HandSets /\ HandsFull' /\ HandsStarted' /\ S3Errors'
           /\ loop' \in [Calls -> {"off", "enter", "loop", "flush", "over"}]
           /\ result' \in [Calls -> {"none", "nil", "err"}] /\ isServing' \in BOOLEAN
           /\ \A d \in Calls : Serves(d)' => isServing'
           /\ \A d, e \in Calls : Serves(d)' /\ Serves(e)' => d = e
           /\ \A d \in Calls : loop'[d] # "over" => result'[d] = "none"
           /\ \A d \in Calls : loop'[d] = "flush" => d = c
           /\ \A d \in Calls : stored[d] => d = c
           /\ Once' => Once /\ c = 1
<1>1. /\ kind = "s3" /\ kind' = kind /\ loop[c] = "flush" /\ LoopMoves(c)
      /\ UNCHANGED <<direct, stopped, src, fan, hand, closed, merged, done, final, lost>>
  BY DEF S3Keeps, LoopMoves
<1>2. /\ loop' \in [Calls -> {"off", "enter", "loop", "flush", "over"}]
      /\ result' \in [Calls -> {"none", "nil", "err"}] /\ isServing' \in BOOLEAN
      /\ kind # "postgres" => /\ \A d \in Calls : Serves(d)' => isServing'
                              /\ \A d, e \in Calls : Serves(d)' /\ Serves(e)' => d = e
      /\ \A d \in Calls : loop'[d] # "over" => result'[d] = "none"
      /\ \A d \in Calls : loop[d] # "off" => loop'[d] # "off"
      /\ \A d \in Calls : d # c => loop'[d] = loop[d]
      /\ \A d \in Calls : result[d] = "err" => result'[d] = "err"
      /\ Once' => Once /\ c = 1
  BY <1>1, LoopMoved
<1>3. \A d \in Calls : Serves(d) => d = c
  BY <1>1 DEF WriterInv, OneLoop, Serves
<1>4. /\ \A d \in Calls : loop'[d] = "flush" => d = c
      /\ \A d \in Calls : stored[d] => d = c
  BY <1>2, <1>3 DEF Serves, WriterInv, OneLoop
<1>5. HandsFull' /\ HandsStarted'
  <2>1. \A f \in Hands : f[1] \in Calls
    BY DEF Hands
  <2> QED BY <1>1, <1>2, <2>1 DEF WriterInv, HandsFull, HandsStarted
<1>6. SrcSets' = SrcSets /\ HandSets' = HandSets
  BY <1>1 DEF SrcSets, HandSets
<1>7. S3Errors'
  <2>1. S3Errors /\ kind' = kind /\ lost' = lost /\ \A d \in Calls : done'[d] \/ ~done[d]
    BY <1>1 DEF WriterInv
  <2> QED BY <1>2, <2>1, ErrorsKept
<1> QED BY <1>1, <1>2, <1>4, <1>5, <1>6, <1>7

PutsOK(c) ==
    /\ S3Keeps(c) /\ written' = Store(c) /\ batch' = [batch EXCEPT ![1] = <<>>]
    /\ stored' = [stored EXCEPT ![c] = FALSE] /\ attempt' = [attempt EXCEPT ![c] = 0]
    /\ loop'[c] # "flush" /\ retried' = retried

LEMMA StepPutOK ==
    ASSUME WriterInv, NEW c \in Calls, PutsOK(c)
    PROVE  WriterInv'
<1>1. /\ S3Keeps(c) /\ batch' = [batch EXCEPT ![1] = <<>>] /\ kind = "s3" /\ loop[c] = "flush"
      /\ stored' = [stored EXCEPT ![c] = FALSE] /\ attempt' = [attempt EXCEPT ![c] = 0]
      /\ loop'[c] # "flush" /\ written' = Store(c)
      /\ UNCHANGED <<direct, stopped, src, fan, hand, closed, merged, done, final, lost, retried>>
  BY DEF PutsOK, S3Keeps
<1>2. /\ kind' = "s3" /\ SrcSets' = SrcSets /\ HandSets' = HandSets /\ HandsFull' /\ HandsStarted' /\ S3Errors'
      /\ loop' \in [Calls -> {"off", "enter", "loop", "flush", "over"}]
      /\ result' \in [Calls -> {"none", "nil", "err"}] /\ isServing' \in BOOLEAN
      /\ \A d \in Calls : Serves(d)' => isServing'
      /\ \A d, e \in Calls : Serves(d)' /\ Serves(e)' => d = e
      /\ \A d \in Calls : loop'[d] # "over" => result'[d] = "none"
      /\ \A d \in Calls : loop'[d] = "flush" => d = c
      /\ \A d \in Calls : stored[d] => d = c
      /\ Once' => Once /\ c = 1
  BY <1>1, S3Kept
<1>3. /\ written' \in Seq(Records) /\ Range(written') = Range(written) \union Range(batch[1])
      /\ ~retried => IsInjective(written')
      /\ Placed(SrcSets, HandSets, Range(merged), BatchSets, Range(written'), lost, TRUE)
      /\ Once /\ ~retried =>
           /\ Sorted(written') /\ InLine(SrcSets, HandSets, Range(merged), Range(batch[1]), Range(written'), TRUE)
  BY <1>1, Stores
<1>4. /\ 1 \in Calls /\ BatchSets[1] = Range(batch[1]) /\ \A d \in Calls : d # 1 => batch[d] = <<>>
  BY <1>1, CallsFinite, SetsNow DEF WriterInv, OneLoop
<1>5. /\ batch' \in [Calls -> Seq(Records)]
      /\ \A d \in Calls : batch'[d] = IF d = 1 THEN <<>> ELSE batch[d]
      /\ [d \in Calls |-> Range(batch'[d])] = [BatchSets EXCEPT ![1] = {}]
      /\ \A d \in Calls : IsInjective(batch'[d])
      /\ \A d \in Calls : Range(batch'[d]) \subseteq Range(batch[d]) /\ (Sorted(batch[d]) => Sorted(batch'[d]))
  <2>1. Empties(1, batch') /\ 1 \in Calls
    BY <1>1, <1>4 DEF Empties
  <2> QED BY <2>1, Emptied
<1>6. \A d \in Calls : stored'[d] = FALSE
  BY <1>1, <1>2 DEF WriterInv, WriterTypeOK
<1>7. WriterTypeOK'
  <2>1. attempt' \in [Calls -> 0..MaxAttempts] /\ stored' \in [Calls -> BOOLEAN] /\ kind' \in WriterKinds
    BY <1>1, <1>2, WriterConstants DEF WriterInv, WriterTypeOK
  <2> QED BY <1>1, <1>2, <1>3, <1>5, <2>1 DEF WriterInv, WriterTypeOK
<1>8. OneLoop'
  <2>1. \A d \in Calls : batch'[d] = <<>>
    BY <1>4, <1>5
  <2>2. \A d \in Calls : loop'[d] # "flush"
    BY <1>1, <1>2
  <2> QED BY <1>2, <1>6, <2>1, <2>2 DEF OneLoop
<1>9. Again' \in BOOLEAN /\ BatchSets' = [BatchSets EXCEPT ![1] = {}]
  BY <1>5 DEF BatchSets, Again
<1>10. Placement'
  <2>1. /\ Placed(SrcSets, HandSets, Range(merged), BatchSets, Range(written'), lost, TRUE)
        /\ 1 \in Calls /\ BatchSets[1] \subseteq Range(written') /\ TRUE \in BOOLEAN
    BY <1>3, <1>4
  <2>2. \A d \in Calls : d # 1 => BatchSets[d] = {}
    BY <1>4, SetsNow, NothingQueued
  <2>3. Placed(SrcSets, HandSets, Range(merged), [BatchSets EXCEPT ![1] = {}], Range(written'), lost, FALSE)
    BY <2>1, <2>2, StoredEmptied
  <2>4. Placed(SrcSets, HandSets, Range(merged), BatchSets', Range(written'), lost, FALSE) /\ FALSE \in BOOLEAN
    BY <1>9, <2>3
  <2>5. Placed(SrcSets, HandSets, Range(merged), BatchSets', Range(written'), lost, Again')
    BY <1>9, <2>4, AgainWeaker
  <2> QED BY <1>1, <1>2, <2>5 DEF Placement
<1>11. Singly'
  BY <1>1, <1>2, <1>3, <1>5 DEF WriterInv, Singly, WrittenOnce
<1>12. Lines'
  <2> SUFFICES ASSUME Once', ~retried
               PROVE  /\ Sorted(written') /\ Sorted(batch'[1]) /\ Sorted(merged)
                      /\ InLine(SrcSets, HandSets, Range(merged), Range(batch'[1]), Range(written'), stored'[1])
    BY <1>1, <1>2 DEF Lines
  <2>1. Once
    BY <1>2
  <2>2. Sorted(merged) /\ Sorted(batch[1])
    BY <2>1 DEF WriterInv, Lines
  <2>3. Sorted(written') /\ InLine(SrcSets, HandSets, Range(merged), Range(batch[1]), Range(written'), TRUE)
    BY <1>3, <2>1
  <2>4. InLine(SrcSets, HandSets, Range(merged), {}, Range(written'), stored'[1])
    BY <2>3, LineEmptied
  <2>5. Range(batch'[1]) = {} /\ Sorted(batch'[1])
    BY <1>4, <1>5, NothingQueued
  <2> QED BY <2>2, <2>3, <2>4, <2>5
<1> QED BY <1>2, <1>7, <1>8, <1>10, <1>11, <1>12 DEF WriterInv

\* A put that failed: it may have stored the object (there), and the flush may be over.
PutsFail(c, there, over) ==
    /\ S3Keeps(c) /\ there \in BOOLEAN /\ over \in BOOLEAN /\ batch' = batch /\ attempt' \in [Calls -> 0..MaxAttempts]
    /\ (there /\ written' = Store(c)) \/ (there = stored[c] /\ written' = written)
    /\ stored[c] => there
    /\ IF over THEN /\ stored' = [stored EXCEPT ![c] = FALSE] /\ retried' = (retried \/ there) /\ loop'[c] = "over"
       ELSE stored' = [stored EXCEPT ![c] = there] /\ UNCHANGED <<retried, loop>>

LEMMA StepPutFails ==
    ASSUME WriterInv, NEW c \in Calls, NEW there, NEW over, PutsFail(c, there, over)
    PROVE  WriterInv'
<1>1. /\ S3Keeps(c) /\ kind = "s3" /\ loop[c] = "flush" /\ there \in BOOLEAN /\ over \in BOOLEAN
      /\ attempt' \in [Calls -> 0..MaxAttempts]
      /\ stored[c] => there
      /\ UNCHANGED <<direct, stopped, src, fan, hand, closed, merged, done, final, lost, batch>>
  BY DEF PutsFail, S3Keeps
<1>2. /\ kind' = "s3" /\ SrcSets' = SrcSets /\ HandSets' = HandSets /\ HandsFull' /\ HandsStarted' /\ S3Errors'
      /\ loop' \in [Calls -> {"off", "enter", "loop", "flush", "over"}]
      /\ result' \in [Calls -> {"none", "nil", "err"}] /\ isServing' \in BOOLEAN
      /\ \A d \in Calls : Serves(d)' => isServing'
      /\ \A d, e \in Calls : Serves(d)' /\ Serves(e)' => d = e
      /\ \A d \in Calls : loop'[d] # "over" => result'[d] = "none"
      /\ \A d \in Calls : loop'[d] = "flush" => d = c
      /\ \A d \in Calls : stored[d] => d = c
      /\ Once' => Once /\ c = 1
  BY <1>1, S3Kept
<1>3. /\ 1 \in Calls /\ written \in Seq(Records) /\ stored \in [Calls -> BOOLEAN] /\ retried \in BOOLEAN
      /\ stored[c] => Range(batch[1]) \subseteq Range(written)
      /\ batch[1] # <<>> /\ \A d \in Calls : batch[d] # <<>> => d = 1
  BY <1>1, CallsFinite DEF WriterInv, OneLoop, WriterTypeOK, Batch, Slot
<1>4. /\ \A d \in Calls : d # c => stored'[d] = FALSE
      /\ IF over THEN stored'[c] = FALSE /\ retried' = (retried \/ there) /\ loop'[c] = "over"
         ELSE stored'[c] = there /\ retried' = retried /\ loop' = loop
      /\ stored' \in [Calls -> BOOLEAN] /\ retried' \in BOOLEAN
  <2>1. \A d \in Calls : d # c => stored[d] = FALSE
    BY <1>2, <1>3
  <2>2. CASE over
    <3>1. stored' = [stored EXCEPT ![c] = FALSE] /\ retried' = (retried \/ there) /\ loop'[c] = "over"
      BY <2>2 DEF PutsFail
    <3> QED BY <1>1, <1>3, <2>1, <2>2, <3>1
  <2>3. CASE ~over
    <3>1. stored' = [stored EXCEPT ![c] = there] /\ retried' = retried /\ loop' = loop
      BY <2>3 DEF PutsFail
    <3> QED BY <1>1, <1>3, <2>1, <2>3, <3>1
  <2> QED BY <1>1, <2>2, <2>3
<1>5. /\ written' \in Seq(Records)
      /\ there => Range(batch[1]) \subseteq Range(written')
      /\ ~retried => IsInjective(written')
      /\ Placed(SrcSets, HandSets, Range(merged), BatchSets, Range(written'), lost, Again')
      /\ Once /\ ~retried' =>
           /\ Sorted(written') /\ InLine(SrcSets, HandSets, Range(merged), Range(batch[1]), Range(written'), stored'[1])
  <2>1. CASE there /\ written' = Store(c)
    <3>1. /\ written' \in Seq(Records) /\ Range(written') = Range(written) \union Range(batch[1])
          /\ ~retried => IsInjective(written')
          /\ Placed(SrcSets, HandSets, Range(merged), BatchSets, Range(written'), lost, TRUE)
          /\ Once /\ ~retried =>
               /\ Sorted(written') /\ InLine(SrcSets, HandSets, Range(merged), Range(batch[1]), Range(written'), TRUE)
      BY <1>1, <2>1, Stores
    <3>2. Again' = TRUE
      BY <1>2, <1>4, <2>1 DEF Again
    <3>3. ASSUME Once, ~retried' PROVE stored'[1] = TRUE /\ ~retried
      <4>1. ~over /\ ~retried
        BY <1>1, <1>3, <1>4, <2>1, <3>3
      <4>2. c = 1
        BY <1>1, <3>3, WriterConstants DEF Once, Calls
      <4> QED BY <1>4, <2>1, <4>1, <4>2
    <3> QED BY <3>1, <3>2, <3>3
  <2>2. CASE there = stored[c] /\ written' = written
    <3>1. Placed(SrcSets, HandSets, Range(merged), BatchSets, Range(written), lost, Again)
      BY PlacedNow
    <3>2. Again' = Again
      BY <1>1, <1>2, <1>3, <1>4, <2>2 DEF Again
    <3>3. ASSUME Once, ~retried'
          PROVE  Sorted(written) /\ InLine(SrcSets, HandSets, Range(merged), Range(batch[1]), Range(written), stored'[1])
      <4>1. c = 1
        BY <1>1, <3>3, WriterConstants DEF Once, Calls
      <4>2. ~retried /\ stored'[1] = stored[1]
        BY <1>1, <1>3, <1>4, <2>2, <3>3, <4>1
      <4> QED BY <3>3, <4>2 DEF WriterInv, Lines
    <3>4. ~retried => IsInjective(written)
      BY DEF WriterInv, Singly, WrittenOnce
    <3> QED BY <1>3, <2>2, <3>1, <3>2, <3>3, <3>4
  <2> QED BY <2>1, <2>2 DEF PutsFail
<1>6. WriterTypeOK'
  <2>1. kind' \in WriterKinds
    BY <1>1, <1>2 DEF WriterInv, WriterTypeOK
  <2> QED BY <1>1, <1>2, <1>4, <1>5, <2>1 DEF WriterInv, WriterTypeOK
<1>7. OneLoop'
  <2>1. \A d \in Calls : loop'[d] = "flush" => Batch(d)' # <<>>
    BY <1>1, <1>2, <1>3 DEF Batch, Slot
  <2>2. \A d \in Calls : stored'[d] => loop'[d] = "flush" /\ Range(batch[1]) \subseteq Range(written')
    BY <1>1, <1>4, <1>5
  <2> QED BY <1>1, <1>2, <1>3, <2>1, <2>2 DEF OneLoop
<1>8. Placement'
  <2>1. BatchSets' = BatchSets
    BY <1>1 DEF BatchSets
  <2> QED BY <1>1, <1>2, <1>5, <2>1 DEF Placement
<1>9. Singly'
  <2>1. WrittenOnce'
    BY <1>2, <1>3, <1>4, <1>5 DEF WrittenOnce
  <2> QED BY <1>1, <2>1 DEF WriterInv, Singly
<1>10. Lines'
  <2> SUFFICES ASSUME Once', ~retried'
               PROVE  /\ Sorted(written') /\ Sorted(batch[1]) /\ Sorted(merged)
                      /\ InLine(SrcSets, HandSets, Range(merged), Range(batch[1]), Range(written'), stored'[1])
    BY <1>1, <1>2 DEF Lines
  <2>1. Once /\ ~retried
    BY <1>1, <1>2, <1>3, <1>4
  <2> QED BY <1>5, <2>1 DEF WriterInv, Lines
<1> QED BY <1>2, <1>6, <1>7, <1>8, <1>9, <1>10 DEF WriterInv

LEMMA FlushEnds ==
    ASSUME WriterInv, NEW c \in Calls, loop[c] = "flush", kind' = kind
    PROVE  /\ Flushed(c) => LoopMoves(c) /\ loop'[c] # "flush"
           /\ FlushFails(c) => LoopMoves(c) /\ loop'[c] = "over"
<1>1. loop \in [Calls -> {"off", "enter", "loop", "flush", "over"}]
  BY DEF WriterInv, WriterTypeOK
<1>2. ASSUME NEW v \in {"nil", "err"}, Return(c, v) PROVE LoopMoves(c) /\ loop'[c] = "over"
  BY <1>1, <1>2 DEF Return, LoopMoves, Serves
<1>3. ASSUME loop' = [loop EXCEPT ![c] = "loop"] /\ UNCHANGED <<result, isServing>> PROVE LoopMoves(c) /\ loop'[c] # "flush"
  BY <1>1, <1>3 DEF LoopMoves, Serves
<1> QED BY <1>2, <1>3 DEF Flushed, FlushFails

\* What a flush of kafka and postgres works on.
LEMMA FlushWorksOn ==
    ASSUME WriterInv, NEW c \in Calls, loop[c] = "flush", kind # "s3"
    PROVE  /\ Batch(c) = batch[c] /\ batch[c] \in Seq(Records) /\ batch[c] # <<>> /\ IsInjective(batch[c])
           /\ written \in Seq(Records) /\ IsInjective(written)
           /\ <<>> \in Seq(Records) /\ Range(<<>>) = {} /\ IsInjective(<<>>) /\ Sorted(<<>>)
<1>1. Batch(c) = batch[c] /\ batch[c] \in Seq(Records) /\ IsInjective(batch[c]) /\ written \in Seq(Records)
  BY DEF Batch, Slot, WriterInv, WriterTypeOK, Singly
<1>2. batch[c] # <<>>
  BY <1>1 DEF WriterInv, OneLoop
<1>3. IsInjective(written)
  BY DEF WriterInv, Singly, WrittenOnce
<1> QED BY <1>1, <1>2, <1>3, NothingQueued

LEMMA SoonerThanNone == \A A : Sooner(A, {}) /\ Sooner({}, A)
  BY DEF Sooner

\* Nothing is written, the whole batch given up.
LEMMA GivesAllUp ==
    ASSUME WriterInv, NEW c \in Calls, loop[c] = "flush", kind # "s3", kind' = kind, FlushFails(c),
           written' = written, Empties(c, batch'), lost' = lost \union Range(batch[c]),
           UNCHANGED <<direct, stopped, src, fan, hand, closed, merged, done, final, attempt, stored, retried>>
    PROVE  WriterInv'
<1> DEFINE none == <<>>
<1>1. /\ none \in Seq(Records) /\ Range(none) = {} /\ IsInjective(none) /\ Sorted(none)
      /\ written \in Seq(Records) /\ IsInjective(written) /\ batch' = [batch EXCEPT ![c] = none]
  BY FlushWorksOn DEF Empties
<1>2. LoopMoves(c) /\ loop'[c] = "over"
  BY FlushEnds
<1>3. none # <<>> => Serves(c)'
  OBVIOUS
<1> HIDE DEF none
<1>4. Sooner({}, Range(batch[c]) \ {}) /\ Range(none) = Range(batch[c]) \ ({} \union Range(batch[c]))
      /\ Range(written') = Range(written) \union {}
  BY <1>1, SoonerThanNone
<1>5. Unloads(c, {}, none, Range(batch[c]))
  BY <1>1, <1>2, <1>3, <1>4 DEF Unloads
<1> QED BY <1>5, StepUnload

LEMMA StepFlush ==
    ASSUME WriterInv, NEW c \in Calls, KafkaFlush(c) \/ KafkaFlushRaw(c)
    PROVE  WriterInv'
<1> DEFINE b == batch[c]
           h == Head(b)
           t == Tail(b)
           none == <<>>
<1>1. /\ loop[c] = "flush" /\ kind # "s3" /\ kind' = kind /\ ProduceNext(c)
      /\ UNCHANGED <<direct, stopped, src, fan, hand, closed, merged, done, final, attempt, stored, retried>>
  BY DEF KafkaFlush, KafkaFlushRaw, ProduceNext, fixed, fanVars
<1>2. /\ Batch(c) = b /\ b \in Seq(Records) /\ b # <<>> /\ IsInjective(b) /\ written \in Seq(Records) /\ IsInjective(written)
      /\ none \in Seq(Records) /\ Range(none) = {} /\ IsInjective(none) /\ Sorted(none)
  BY <1>1, FlushWorksOn
<1>3. \/ /\ written' = Append(written, h) /\ batch' = [batch EXCEPT ![c] = t] /\ lost' = lost
         /\ IF t = <<>> THEN Flushed(c) ELSE UNCHANGED <<loop, result, isServing>>
      \/ \E wrote \in BOOLEAN :
         /\ written' = IF wrote THEN Append(written, h) ELSE written
         /\ lost' = lost \union Range(t) \union (IF wrote THEN {} ELSE {h})
         /\ batch' = [batch EXCEPT ![c] = none]
         /\ FlushFails(c)
  BY <1>1, <1>2 DEF ProduceNext
<1> HIDE DEF b
<1>4. /\ h \in Records /\ t \in Seq(Records) /\ h \in Range(b)
      /\ Range(t) = Range(b) \ {h} /\ IsInjective(t)
      /\ Sorted(b) => Sorted(t) /\ Sooner({h}, Range(t))
  BY <1>2, InFront
<1>5. /\ Flushed(c) => LoopMoves(c) /\ loop'[c] # "flush"
      /\ FlushFails(c) => LoopMoves(c) /\ loop'[c] = "over"
      /\ UNCHANGED <<loop, result, isServing>> => LoopMoves(c) /\ Serves(c)'
  <2>1. UNCHANGED <<loop, result, isServing>> => LoopMoves(c) /\ Serves(c)'
    BY <1>1 DEF LoopMoves, Serves
  <2> QED BY <1>1, <2>1, FlushEnds
<1>6. none # <<>> => Serves(c)'
  OBVIOUS
<1> HIDE DEF h, t, none
<1>7. ASSUME written' = Append(written, h)
      PROVE  /\ written' \in Seq(Records) /\ Range(written') = Range(written) \union {h}
             /\ (\A q \in {h} : q \notin Range(written)) => IsInjective(written')
             /\ Sorted(written) /\ Sooner(Range(written), {h}) => Sorted(written')
  <2>1. Longer(written, h, written') /\ h \in Records
    BY <1>4, <1>7 DEF Longer
  <2>2. written' \in Seq(Records)
    BY <1>2, <1>4, <1>7
  <2> QED BY <1>2, <2>1, <2>2, Behind
<1>8. /\ {h} \subseteq Range(b) /\ Range(t) \subseteq Range(b) /\ {h} \intersect Range(t) = {}
      /\ Range(b) \ {h} = Range(t) /\ Range(b) \ ({h} \union {}) = Range(t) /\ {h} \intersect {} = {}
      /\ Range(b) \ ({h} \union Range(t)) = {} /\ {} \subseteq Range(b)
  BY <1>4
<1>9. ASSUME /\ written' = Append(written, h) /\ batch' = [batch EXCEPT ![c] = t] /\ lost' = lost
             /\ IF t = <<>> THEN Flushed(c) ELSE UNCHANGED <<loop, result, isServing>>
      PROVE  WriterInv'
  <2>1. LoopMoves(c) /\ (t # <<>> => Serves(c)') /\ (loop'[c] = "flush" => t # <<>>)
    BY <1>5, <1>9
  <2>2. Unloads(c, {h}, t, {})
    BY <1>1, <1>4, <1>7, <1>8, <1>9, <2>1 DEF Unloads, b
  <2> QED BY <2>2, StepUnload
<1>10. ASSUME NEW wrote \in BOOLEAN,
              /\ written' = IF wrote THEN Append(written, h) ELSE written
              /\ lost' = lost \union Range(t) \union (IF wrote THEN {} ELSE {h})
              /\ batch' = [batch EXCEPT ![c] = none]
              /\ FlushFails(c)
       PROVE  WriterInv'
  <2>1. CASE wrote
    <3>1. written' = Append(written, h) /\ lost' = lost \union Range(t)
      BY <1>10, <2>1
    <3>2. LoopMoves(c) /\ loop'[c] = "over"
      BY <1>5, <1>10
    <3>3. Unloads(c, {h}, none, Range(t))
      BY <1>1, <1>2, <1>4, <1>6, <1>7, <1>8, <1>10, <3>1, <3>2 DEF Unloads, b
    <3> QED BY <3>3, StepUnload
  <2>2. CASE ~wrote
    <3>1. written' = written /\ lost' = lost \union Range(batch[c]) /\ Empties(c, batch') /\ FlushFails(c)
      BY <1>4, <1>10, <2>2 DEF b, Empties, none
    <3> QED BY <1>1, <3>1, GivesAllUp
  <2> QED BY <2>1, <2>2
<1> QED BY <1>3, <1>9, <1>10

LEMMA StepInsert ==
    ASSUME WriterInv, NEW c \in Calls, PostgresInsert(c)
    PROVE  WriterInv'
<1> DEFINE b == batch[c]
           none == <<>>
<1>1. /\ loop[c] = "flush" /\ kind # "s3" /\ kind' = kind /\ batch' = [batch EXCEPT ![c] = none]
      /\ UNCHANGED <<direct, stopped, src, fan, hand, closed, merged, done, final, attempt, stored, retried>>
  BY DEF PostgresInsert, fixed, fanVars
<1>2. /\ Batch(c) = b /\ b \in Seq(Records) /\ b # <<>> /\ IsInjective(b) /\ written \in Seq(Records) /\ IsInjective(written)
      /\ none \in Seq(Records) /\ Range(none) = {} /\ IsInjective(none) /\ Sorted(none)
  BY <1>1, FlushWorksOn
<1>3. \/ written' = written \o b /\ lost' = lost /\ (Flushed(c) \/ FlushFails(c))
      \/ written' = written /\ lost' = lost \union Range(b) /\ FlushFails(c)
  BY <1>2 DEF PostgresInsert
<1>4. none # <<>> => Serves(c)'
  OBVIOUS
<1>5. ASSUME written' = written \o b, lost' = lost, Flushed(c) \/ FlushFails(c)
      PROVE  WriterInv'
  <2> HIDE DEF b, none
  <2>1. LoopMoves(c) /\ loop'[c] # "flush"
    BY <1>1, <1>5, FlushEnds
  <2>2. /\ written' \in Seq(Records) /\ Range(written') = Range(written) \union Range(b)
        /\ (\A q \in Range(b) : q \notin Range(written)) => IsInjective(written')
        /\ Sorted(written) /\ Sorted(b) /\ Sooner(Range(written), Range(b)) => Sorted(written')
    <3>1. Both(written, b, written')
      BY <1>5 DEF Both
    <3> QED BY <1>2, <3>1, Joined
  <2>3. /\ Range(b) \ Range(b) = {} /\ Range(b) \ (Range(b) \union {}) = {} /\ Range(b) \intersect {} = {}
        /\ {} \subseteq Range(b) /\ Sooner(Range(b), {}) /\ lost' = lost \union {}
    BY <1>5, SoonerThanNone
  <2>4. Unloads(c, Range(b), none, {})
    BY <1>1, <1>2, <1>4, <2>1, <2>2, <2>3 DEF Unloads, b
  <2> QED BY <2>4, StepUnload
<1>6. ASSUME written' = written, lost' = lost \union Range(b), FlushFails(c)
      PROVE  WriterInv'
  <2>1. Empties(c, batch')
    BY <1>1 DEF Empties
  <2> QED BY <1>1, <1>6, <2>1, GivesAllUp
<1> QED BY <1>3, <1>5, <1>6

LEMMA StepReceive ==
    ASSUME WriterInv, NEW c \in Calls,
           KafkaReceive(c) \/ KafkaReceiveRaw(c) \/ S3Receive(c) \/ PostgresReceive(c)
    PROVE  WriterInv'
<1>1. /\ loop[c] = "loop"
      /\ UNCHANGED <<kind, direct, stopped, src, closed, done, final, attempt, stored, written, retried>>
  BY DEF KafkaReceive, KafkaReceiveRaw, S3Receive, PostgresReceive, TakeOrSkip, fixed, flushVars
<1>2. loop \in [Calls -> {"off", "enter", "loop", "flush", "over"}]
  BY DEF WriterInv, WriterTypeOK
<1>3. ASSUME NEW r \in Records, Received(r), NEW full, Collect(c, r, full)
      PROVE  WriterInv'
  <2>1. PICK to \in {"loop", "flush"} : loop' = [loop EXCEPT ![c] = to]
    BY <1>3 DEF Collect
  <2>2. Draws(r)
    BY <1>1, <1>2, <1>3, <2>1 DEF Draws
  <2>3. Collects(c, r, to)
    BY <1>1, <1>3, <2>1, <2>2 DEF Collects, Collect
  <2> QED BY <2>3, StepCollect
<1>4. ASSUME NEW r \in Records, Received(r), kind # "s3", lost' = lost \union {r},
             UNCHANGED <<batch, loop, result, isServing>>
      PROVE  WriterInv'
  <2>1. Skips(c, r)
    BY <1>1, <1>4 DEF Skips, Draws
  <2> QED BY <2>1, StepSkip
<1>5. ASSUME NEW r \in Records, Received(r), kind = "s3", Return(c, "err"), lost' = lost \union {r}, batch' = batch
      PROVE  WriterInv'
  <2>1. loop' = [loop EXCEPT ![c] = "over"] /\ result' = [result EXCEPT ![c] = "err"] /\ isServing' = FALSE
    BY <1>5 DEF Return
  <2>2. Draws(r)
    BY <1>1, <1>2, <1>5, <2>1 DEF Draws
  <2>3. S3Rejects(c, r)
    BY <1>1, <1>5, <2>1, <2>2 DEF S3Rejects
  <2> QED BY <2>3, StepS3Rejects
<1>6. ASSUME NEW r \in Records, Received(r), kind = "postgres", Return(c, "err"),
             lost' = (lost \union {r}) \union Range(Batch(c)), batch' = [batch EXCEPT ![c] = <<>>]
      PROVE  WriterInv'
  <2>1. loop' = [loop EXCEPT ![c] = "over"] /\ result' = [result EXCEPT ![c] = "err"] /\ isServing' = isServing
    BY <1>6 DEF Return
  <2>2. Draws(r)
    BY <1>1, <1>2, <1>6, <2>1 DEF Draws
  <2>3. Batch(c) = batch[c]
    BY <1>6 DEF Batch, Slot
  <2>4. PgRejects(c, r)
    BY <1>1, <1>6, <2>1, <2>2, <2>3 DEF PgRejects
  <2> QED BY <2>4, StepPgRejects
<1>7. CASE KafkaReceive(c) \/ KafkaReceiveRaw(c)
  <2>1. kind # "s3" /\ TakeOrSkip(c)
    BY <1>7 DEF KafkaReceive, KafkaReceiveRaw
  <2>2. PICK r \in Records :
          /\ Received(r)
          /\ \/ Collect(c, r, Full(Append(Batch(c), r)))
             \/ lost' = lost \union {r} /\ UNCHANGED <<batch, loop, result, isServing>>
    BY <2>1 DEF TakeOrSkip
  <2> QED BY <1>3, <1>4, <2>1, <2>2
<1>8. CASE S3Receive(c)
  <2>1. PICK r \in Records :
          /\ Received(r)
          /\ \/ Collect(c, r, Full(Append(Batch(c), r)))
             \/ Return(c, "err") /\ lost' = lost \union {r} /\ batch' = batch
    BY <1>8 DEF S3Receive
  <2>2. kind = "s3"
    BY <1>8 DEF S3Receive
  <2> QED BY <1>3, <1>5, <2>1, <2>2
<1>9. CASE PostgresReceive(c)
  <2>1. PICK r \in Records, aged \in BOOLEAN :
          /\ Received(r)
          /\ \/ Collect(c, r, aged \/ Full(Append(Batch(c), r)))
             \/ /\ Return(c, "err") /\ lost' = (lost \union {r}) \union Range(Batch(c))
                /\ batch' = [batch EXCEPT ![c] = <<>>]
    BY <1>9 DEF PostgresReceive
  <2>2. kind = "postgres"
    BY <1>9 DEF PostgresReceive
  <2> QED BY <1>3, <1>6, <2>1, <2>2
<1> QED BY <1>7, <1>8, <1>9

LEMMA StepS3Put ==
    ASSUME WriterInv, NEW c \in Calls, S3PutOK(c) \/ S3PutFails(c)
    PROVE  WriterInv'
<1>1. /\ kind = "s3" /\ loop[c] = "flush" /\ kind' = kind
      /\ UNCHANGED <<direct, stopped, src, fan, hand, closed, merged, done, final, lost>>
  BY DEF S3PutOK, S3PutFails, fixed, fanVars
<1>2. /\ attempt \in [Calls -> 0..MaxAttempts] /\ stored \in [Calls -> BOOLEAN] /\ MaxAttempts \in Nat
      /\ Slot(c) = 1
  BY <1>1, WriterConstants DEF WriterInv, WriterTypeOK, Slot
<1>3. /\ Flushed(c) => LoopMoves(c) /\ loop'[c] # "flush"
      /\ FlushFails(c) => LoopMoves(c) /\ loop'[c] = "over"
      /\ UNCHANGED <<loop, result, isServing>> => LoopMoves(c)
  <2>1. UNCHANGED <<loop, result, isServing>> => LoopMoves(c)
    BY <1>1 DEF LoopMoves, Serves
  <2> QED BY <1>1, <2>1, FlushEnds
<1>4. CASE S3PutOK(c)
  <2>1. /\ written' = Store(c) /\ batch' = [batch EXCEPT ![1] = <<>>]
        /\ stored' = [stored EXCEPT ![c] = FALSE] /\ attempt' = [attempt EXCEPT ![c] = 0] /\ Flushed(c)
        /\ retried' = retried
    BY <1>2, <1>4 DEF S3PutOK
  <2>2. PutsOK(c)
    BY <1>1, <1>3, <2>1 DEF PutsOK, S3Keeps
  <2> QED BY <2>2, StepPutOK
<1>5. CASE S3PutFails(c)
  <2>1. PICK wrote \in BOOLEAN, retry \in BOOLEAN :
          /\ written' = IF wrote THEN Store(c) ELSE written
          /\ IF retry /\ MayRetry(c)
             THEN /\ attempt' = [attempt EXCEPT ![c] = @ + 1]
                  /\ stored' = [stored EXCEPT ![c] = stored[c] \/ wrote]
                  /\ UNCHANGED <<loop, result, isServing, retried, batch>>
             ELSE /\ attempt' = [attempt EXCEPT ![c] = 0]
                  /\ stored' = [stored EXCEPT ![c] = FALSE]
                  /\ retried' = (retried \/ (stored[c] \/ wrote))
                  /\ batch' = batch
                  /\ FlushFails(c)
    BY <1>5 DEF S3PutFails, AfterFailedPut
  <2> DEFINE there == stored[c] \/ wrote
             over == ~(retry /\ MayRetry(c))
  <2>2. there \in BOOLEAN /\ over \in BOOLEAN /\ (stored[c] => there)
        /\ ((there /\ written' = Store(c)) \/ (there = stored[c] /\ written' = written))
    BY <1>2, <2>1
  <2>3. CASE over
    <3>1. /\ attempt' = [attempt EXCEPT ![c] = 0] /\ stored' = [stored EXCEPT ![c] = FALSE]
          /\ retried' = (retried \/ there) /\ batch' = batch /\ FlushFails(c)
      BY <2>1, <2>3
    <3>2. attempt' \in [Calls -> 0..MaxAttempts]
      BY <1>2, <3>1
    <3> HIDE DEF there, over
    <3>3. LoopMoves(c) /\ loop'[c] = "over"
      BY <1>3, <3>1
    <3>4. PutsFail(c, there, over)
      BY <1>1, <2>2, <2>3, <3>1, <3>2, <3>3 DEF PutsFail, S3Keeps
    <3> QED BY <3>4, StepPutFails
  <2>4. CASE ~over
    <3>1. /\ attempt' = [attempt EXCEPT ![c] = @ + 1] /\ stored' = [stored EXCEPT ![c] = there]
          /\ UNCHANGED <<loop, result, isServing, retried, batch>> /\ attempt[c] + 1 < MaxAttempts
      BY <2>1, <2>4 DEF MayRetry
    <3>2. attempt' \in [Calls -> 0..MaxAttempts]
      BY <1>2, <3>1
    <3> HIDE DEF there, over
    <3>3. LoopMoves(c)
      BY <1>3, <3>1
    <3>4. PutsFail(c, there, over)
      BY <1>1, <2>2, <2>4, <3>1, <3>2, <3>3 DEF PutsFail, S3Keeps
    <3> QED BY <3>4, StepPutFails
  <2> QED BY <2>3, <2>4
<1> QED BY <1>4, <1>5

LEMMA WriterInvInit == WriterInit => WriterInv
<1> SUFFICES ASSUME WriterInit PROVE WriterInv
  OBVIOUS
<1> DEFINE none == <<>>
<1>1. /\ kind \in WriterKinds /\ direct \in BOOLEAN
      /\ src = [i \in Inputs |-> [n \in 1..PerInput |-> <<i, n>>]] /\ closed = FALSE
      /\ fan = [f \in Hands |-> IF direct /\ f[1] = 1 THEN "recv" ELSE "off"]
      /\ hand = [f \in Hands |-> none] /\ merged = none /\ done = [c \in Calls |-> FALSE]
      /\ stopped = FALSE /\ isServing = FALSE /\ loop = [c \in Calls |-> "off"]
      /\ result = [c \in Calls |-> "none"] /\ batch = [c \in Calls |-> none]
      /\ final = [c \in Calls |-> FALSE] /\ attempt = [c \in Calls |-> 0]
      /\ stored = [c \in Calls |-> FALSE] /\ written = none /\ lost = {} /\ retried = FALSE
  BY DEF WriterInit, Record, Hands
<1>2. /\ none \in Seq(Records) /\ Range(none) = {} /\ IsInjective(none) /\ Sorted(none) /\ Len(none) = 0
  BY NothingQueued
<1>3. ASSUME NEW i \in Inputs
      PROVE  /\ src[i] \in Seq(Records) /\ IsInjective(src[i]) /\ Sorted(src[i])
             /\ Range(src[i]) = {r \in Records : Input(r) = i}
  <2> DEFINE s == [n \in 1..PerInput |-> <<i, n>>]
  <2>1. src[i] = s /\ PerInput \in Nat
    BY <1>1, WriterConstants
  <2>2. /\ DOMAIN s = 1..PerInput
        /\ \A n \in 1..PerInput : s[n] = <<i, n>> /\ s[n][1] = i /\ s[n][2] = n /\ s[n] \in Records
    BY DEF Records
  <2>3. s \in Seq(Records)
    <3>1. s \in [1..PerInput -> Records]
      BY <2>2
    <3> QED BY <2>1, <3>1, SeqDef
  <2> HIDE DEF s
  <2>4. IsInjective(s)
    BY <2>2 DEF IsInjective
  <2>5. Sorted(s)
    BY <2>2 DEF Sorted
  <2>6. Range(s) = {r \in Records : Input(r) = i}
    <3>1. ASSUME NEW r \in Records, r[1] = i PROVE r \in Range(s)
      <4>1. r[2] \in 1..PerInput /\ r = <<i, r[2]>>
        BY <3>1 DEF Records
      <4> QED BY <2>2, <4>1 DEF Range
    <3>2. ASSUME NEW r \in Range(s) PROVE r \in Records /\ r[1] = i
      BY <2>2, <3>2 DEF Range
    <3> QED BY <3>1, <3>2 DEF Input
  <2> QED BY <2>1, <2>3, <2>4, <2>5, <2>6
<1> HIDE DEF none
<1>4. WriterTypeOK
  <2>1. src \in [Inputs -> Seq(Records)]
    BY <1>1, <1>3
  <2>2. /\ fan \in [Hands -> {"off", "recv", "send", "done"}] /\ hand \in [Hands -> Seq(Records)]
        /\ batch \in [Calls -> Seq(Records)] /\ merged \in Seq(Records) /\ written \in Seq(Records)
        /\ Len(merged) <= MaxRecs /\ attempt \in [Calls -> 0..MaxAttempts]
    BY <1>1, <1>2, WriterConstants
  <2> QED BY <1>1, <2>1, <2>2 DEF WriterTypeOK, Hands
<1>5. HandsFull /\ HandsStarted
  BY <1>1 DEF HandsFull, HandsStarted, none
<1>6. OneLoop
  BY <1>1 DEF OneLoop, Serves, none
<1>7. Singly
  BY <1>1, <1>2, <1>3 DEF Singly, WrittenOnce
<1>8. /\ SrcSets = [i \in Inputs |-> {r \in Records : Input(r) = i}] /\ HandSets = [f \in Hands |-> {}]
      /\ BatchSets = [c \in Calls |-> {}] /\ Again \in BOOLEAN
      /\ Range(merged) = {} /\ Range(written) = {} /\ batch[1] = none
  BY <1>1, <1>2, <1>3, CallsFinite DEF SrcSets, HandSets, BatchSets, Again
<1>9. Placement
  <2>1. \A r \in Records : Input(r) \in Inputs
    BY DEF Records, Input
  <2>2. Covered(SrcSets, HandSets, {}, BatchSets, {}, {})
    BY <1>8, <2>1 DEF Covered
  <2>3. Apart(SrcSets, HandSets, {}, BatchSets, {})
    BY <1>8 DEF Apart
  <2>4. NotWritten(SrcSets, HandSets, {}, BatchSets, {}, {}, Again)
    BY DEF NotWritten
  <2>5. /\ SrcSets \in [Inputs -> SUBSET Records] /\ HandSets \in [Hands -> SUBSET Records]
        /\ BatchSets \in [Calls -> SUBSET Records]
    BY <1>8
  <2> QED BY <1>1, <1>8, <2>2, <2>3, <2>4, <2>5 DEF Placement, Placed
<1>10. Lines
  <2>1. \A i \in Inputs : HandSets[<<1, i>>] = {}
    BY <1>8, CallsFinite DEF Hands
  <2>2. InLine(SrcSets, HandSets, {}, {}, {}, stored[1])
    BY <2>1, SoonerThanNone DEF InLine
  <2> QED BY <1>1, <1>2, <1>8, <2>2 DEF Lines
<1>11. S3Errors
  <2>1. Failures = {}
    BY <1>1 DEF Failures
  <2> QED BY <1>1, <2>1, FS_EmptySet DEF S3Errors
<1> QED BY <1>4, <1>5, <1>6, <1>7, <1>9, <1>10, <1>11 DEF WriterInv

LEMMA WriterInvNext == WriterInv /\ [WriterNext]_writerVars => WriterInv'
<1> SUFFICES ASSUME WriterInv, [WriterNext]_writerVars PROVE WriterInv'
  OBVIOUS
<1>1. ASSUME NEW c \in Calls, NEW i \in Inputs, FanStep(c, i) PROVE WriterInv'
  <2>1. CASE FanReceive(c, i) \/ FanEnds(c, i)
    BY <2>1, StepFanReceive, StepFanEnds
  <2>2. CASE KafkaFanSend(c, i)
    <3>1. FanSends(c, i)
      BY <2>2 DEF KafkaFanSend, FanSends
    <3> QED BY <3>1, StepFanSend
  <2>3. CASE S3FanSend(c, i)
    <3>1. FanSends(c, i) \/ FanGivesUp(c, i)
      BY <2>3 DEF S3FanSend, FanSends, FanGivesUp, FanWatches
    <3> QED BY <3>1, StepFanSend, StepFanGivesUp
  <2> QED BY <1>1, <2>1, <2>2, <2>3 DEF FanStep
<1>2. ASSUME NEW c \in Calls, LoopStep(c) PROVE WriterInv'
  BY <1>2, StepServe, StepReceive, StepTick, StepFlush, StepS3Put, StepInsert DEF LoopStep
<1>3. ASSUME NEW c \in Calls, \/ KafkaStartWriter(c) \/ S3StartWriter(c) \/ PostgresStartWriter(c)
                              \/ ServeDirect(c) \/ Tick(c)
      PROVE  WriterInv'
  BY <1>3, StepStart, StepTick
<1>4. CASE (\E c \in Calls : CancelCall(c)) \/ StopClient \/ CloseInputs \/ UNCHANGED writerVars
  BY <1>4, StepQuiet
<1> QED BY <1>1, <1>2, <1>3, <1>4 DEF WriterNext

LEMMA WriterInvSound == WriterInv => WriterSound
<1> SUFFICES ASSUME WriterInv PROVE WriterSound
  OBVIOUS
<1>1. /\ Placed(SrcSets, HandSets, Range(merged), BatchSets, Range(written), lost, Again)
      /\ \A i \in Inputs : SrcSets[i] = Range(src[i])
      /\ \A c \in Calls : BatchSets[c] = Range(batch[c])
      /\ \A f \in Hands : HandSets[f] = Range(hand[f])
      /\ Owned(SrcSets, HandSets)
  BY PlacedNow, SetsNow
<1>2. RecordsAccounted
  <2> SUFFICES ASSUME NEW r \in Records
               PROVE  /\ Queued(r) \/ r \in Range(written) \/ r \in lost
                      /\ r \in lost => ~Queued(r) /\ r \notin Range(written)
    BY DEF RecordsAccounted
  <2>1. Input(r) \in Inputs
    BY DEF Records, Input
  <2>2. Queued(r) <=> \/ \E i \in Inputs : r \in SrcSets[i]
                      \/ \E f \in Hands : r \in HandSets[f]
                      \/ r \in Range(merged)
                      \/ \E c \in Calls : r \in BatchSets[c]
    <3>1. (\E i \in Inputs : r \in SrcSets[i]) <=> r \in Range(src[Input(r)])
      BY <1>1, <2>1 DEF Owned
    <3>2. (\E f \in Hands : r \in HandSets[f]) <=> \E f \in Hands : r \in Range(hand[f])
      BY <1>1
    <3>3. (\E c \in Calls : r \in BatchSets[c]) <=> \E c \in Calls : r \in Range(batch[c])
      BY <1>1
    <3> QED BY <3>1, <3>2, <3>3 DEF Queued, Hands
  <2>3. Queued(r) \/ r \in Range(written) \/ r \in lost
    BY <1>1, <2>2 DEF Placed, Covered
  <2>4. r \in lost => ~Queued(r)
    BY <1>1, <2>2 DEF Placed, Apart
  <2>5. r \in lost => r \notin Range(written)
    BY <1>1 DEF Placed, NotWritten
  <2> QED BY <2>3, <2>4, <2>5
<1>3. S3KeepsBatch
  <2>1. {r \in Records : ~Queued(r) /\ r \notin Range(written)} = lost
    <3>1. lost \subseteq Records
      BY DEF WriterInv, WriterTypeOK
    <3> QED BY <1>2, <3>1 DEF RecordsAccounted
  <2>2. S3Errors
    BY DEF WriterInv
  <2> QED BY <2>1, <2>2 DEF S3Errors, S3KeepsBatch, Failures
<1>4. WrittenOnce
  BY DEF WriterInv, Singly
<1>5. WriterOrder
  BY DEF WriterInv, Lines, WriterOrder, Once, Sorted
<1>6. WriterTypeOK
  BY DEF WriterInv
<1> QED BY <1>2, <1>3, <1>4, <1>5, <1>6 DEF WriterSound

\* The batching writers of kafka, s3 and postgres keep their promise for any number of wires,
\* records and calls, whatever fails: a record is queued, written, or given up where the code
\* gives it up; only s3 writes twice, after an object stored by a flush that was told of a
\* failure; s3 loses no more records than calls returned an error; and with a single start
\* the records of a wire are written in the order in which it emitted them.
THEOREM WritersSafe == WriterSpec => []WriterSound
  BY WriterInvInit, WriterInvNext, WriterInvSound, PTL DEF WriterSpec
=============================================================================
