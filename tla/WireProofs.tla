----------------------------- MODULE WireProofs -----------------------------
(***************************************************************************)
(* Theorems about Wire for any elements, workers, capacity and options.    *)
(***************************************************************************)
EXTENDS Wire, FiniteSetTheorems, TLAPS

\* Channel operations keep a channel within its capacity.
LEMMA AppendOK ==
    ASSUME NEW S, NEW s \in Seq(S), NEW x \in S, Len(s) < Capacity
    PROVE  Append(s, x) \in Seq(S) /\ Len(Append(s, x)) <= Capacity
BY SizesAssumption

LEMMA TailOK ==
    ASSUME NEW S, NEW s \in Seq(S), s # <<>>, Len(s) <= Capacity
    PROVE  Tail(s) \in Seq(S) /\ Len(Tail(s)) <= Capacity /\ Head(s) \in S
BY SizesAssumption

LEMMA ControlInductive == TypeOK /\ [Next]_vars => ControlOK'
<1> SUFFICES ASSUME TypeOK, [Next]_vars PROVE ControlOK'
  OBVIOUS
<1> USE DEF TypeOK, ControlOK, config, channels, worker, history, Outside
<1>1. ASSUME NEW e \in Elements, Submit(e) \/ SubmitNormally(e) PROVE ControlOK'
  BY <1>1, Zenon DEF Submit, SubmitNormally, Allow
<1>2. CASE BreakerElsewhere
  BY <1>2, Zenon DEF BreakerElsewhere
<1>3. ASSUME NEW w \in Workers, WorkerStep(w) PROVE ControlOK'
  <2>1. CASE WorkerExit(w) \/ Take(w) \/ CheckContext(w) \/ Transform(w)
             \/ Report(w) \/ Encode(w) \/ Emit(w)
    BY <2>1, Zenon DEF WorkerExit, Take, CheckContext, Transform, Report, Encode, Emit
  <2>2. CASE HandleProcessingError(w)
    BY <2>2 DEF HandleProcessingError, Allow, RecordError
  <2>3. CASE AttemptRecovery(w)
    BY <2>3 DEF AttemptRecovery, RecordError
  <2>4. CASE Route(w)
    BY <2>4 DEF Route, Allow
  <2> QED BY <1>3, <2>1, <2>2, <2>3, <2>4 DEF WorkerStep
<1>4. CASE HandleErrorElements
  BY <1>4 DEF HandleErrorElements
<1>5. CASE Consume
  BY <1>5 DEF Consume
<1>6. ASSUME NEW c \in Options, Connect(c) PROVE ControlOK'
  BY <1>6 DEF Connect
<1>7. CASE Start
  BY <1>7 DEF Start
<1>8. CASE CancelParent
  BY <1>8 DEF CancelParent
<1>9. CASE StopCancel
  BY <1>9 DEF StopCancel
<1>10. CASE StopClose
  BY <1>10 DEF StopClose
<1>11. CASE UNCHANGED vars
  BY <1>11 DEF vars
<1> QED BY <1>1, <1>2, <1>3, <1>4, <1>5, <1>6, <1>7, <1>8, <1>9, <1>10, <1>11 DEF Next

LEMMA ChannelsInductive == TypeOK /\ [Next]_vars => ChannelsOK'
<1> SUFFICES ASSUME TypeOK, [Next]_vars PROVE ChannelsOK'
  OBVIOUS
<1> USE DEF TypeOK, ChannelsOK, config, channels, worker, history, Outside
<1>1. ASSUME NEW e \in Elements, Submit(e) \/ SubmitNormally(e) PROVE ChannelsOK'
  BY <1>1, AppendOK DEF Submit, SubmitNormally
<1>2. CASE BreakerElsewhere
  BY <1>2 DEF BreakerElsewhere
<1>3. ASSUME NEW w \in Workers, WorkerStep(w) PROVE ChannelsOK'
  <2>1. CASE WorkerExit(w) \/ CheckContext(w) \/ Transform(w) \/ HandleProcessingError(w)
             \/ AttemptRecovery(w) \/ Route(w)
    BY <2>1, Zenon DEF WorkerExit, CheckContext, Transform, HandleProcessingError,
        AttemptRecovery, Route
  <2>2. CASE Take(w)
    BY <2>2, TailOK DEF Take
  <2>3. ASSUME wpc[w] \notin {"off", "select", "exited"} PROVE hand[w] \in Elements
    BY <2>3 DEF WorkersOK
  <2>4. CASE Report(w)
    <3>1. hand[w] \in Elements
      BY <2>3, <2>4 DEF Report
    <3> QED BY <2>4, <3>1, AppendOK DEF Report, HandleError
  <2>5. CASE Encode(w)
    <3>1. hand[w] \in Elements
      BY <2>3, <2>5 DEF Encode
    <3> QED BY <2>5, <3>1, AppendOK DEF Encode, HandleError
  <2>6. CASE Emit(w)
    <3>1. hand[w] \in Elements
      BY <2>3, <2>6 DEF Emit
    <3> QED BY <2>6, <3>1, AppendOK DEF Emit, SendOutput
  <2> QED BY <1>3, <2>1, <2>2, <2>4, <2>5, <2>6 DEF WorkerStep
<1>4. CASE HandleErrorElements
  BY <1>4, TailOK DEF HandleErrorElements
<1>5. CASE Consume
  BY <1>5, TailOK DEF Consume
<1>6. ASSUME NEW c \in Options, Connect(c) PROVE ChannelsOK'
  BY <1>6 DEF Connect
<1>7. CASE Start \/ CancelParent \/ StopCancel \/ StopClose
  BY <1>7 DEF Start, CancelParent, StopCancel, StopClose
<1>8. CASE UNCHANGED vars
  BY <1>8 DEF vars
<1> QED BY <1>1, <1>2, <1>3, <1>4, <1>5, <1>6, <1>7, <1>8 DEF Next

LEMMA AttemptType ==
    ASSUME TypeOK, NEW w,
           attempt' = attempt \/ attempt' = [attempt EXCEPT ![w] = 1]
    PROVE  attempt' \in [Workers -> Nat]
BY DEF TypeOK, WorkersOK

LEMMA WorkersInductive == TypeOK /\ [Next]_vars => WorkersOK'
<1> SUFFICES ASSUME TypeOK, [Next]_vars PROVE WorkersOK'
  OBVIOUS
<1> USE SetsAssumption DEF TypeOK, WorkersOK, config, channels, worker, history, Outside, Steps
<1>1. ASSUME NEW w \in Workers, WorkerStep(w) PROVE WorkersOK'
  <2> USE DEF Goto, KeepsHand
  <2>1. CASE WorkerExit(w)
    BY <2>1 DEF WorkerExit
  <2>2. CASE Take(w)
    BY <2>2, TailOK DEF Take, ChannelsOK
  <2>3. CASE CheckContext(w)
    BY <2>3 DEF CheckContext, Finish, FinishAt
  <2>4. CASE Transform(w)
    BY <2>4 DEF Transform
  <2>5. CASE HandleProcessingError(w)
    <3>1. /\ \E step \in {"retry", "route"} : wpc' = [wpc EXCEPT ![w] = step]
          /\ attempt' \in [Workers -> Nat]
      <4>1. /\ \E step \in {"retry", "route"} : wpc' = [wpc EXCEPT ![w] = step]
            /\ attempt' = attempt \/ attempt' = [attempt EXCEPT ![w] = 1]
        BY <2>5, Zenon DEF HandleProcessingError
      <4> QED BY <4>1, AttemptType, Zenon
    <3> QED BY <2>5, <3>1 DEF HandleProcessingError
  <2>6. CASE AttemptRecovery(w)
    BY <2>6 DEF AttemptRecovery
  <2>7. CASE Route(w)
    BY <2>7 DEF Route, Finish, FinishAt
  <2>8. CASE Report(w)
    BY <2>8 DEF Report, Finish, FinishAt
  <2>9. CASE Encode(w)
    BY <2>9 DEF Encode
  <2>10. CASE Emit(w)
    BY <2>10 DEF Emit, SendOutput, Finish, FinishAt
  <2> QED BY <1>1, <2>1, <2>2, <2>3, <2>4, <2>5, <2>6, <2>7, <2>8, <2>9, <2>10 DEF WorkerStep
<1>2. CASE Start
  BY <1>2 DEF Start
<1>3. ASSUME \/ \E e \in Elements : Submit(e) \/ SubmitNormally(e)
             \/ BreakerElsewhere \/ HandleErrorElements \/ Consume
             \/ \E c \in Options : Connect(c)
             \/ CancelParent \/ UNCHANGED vars
      PROVE  UNCHANGED <<worker, phase>>
  BY <1>3, Zenon DEF Submit, SubmitNormally, BreakerElsewhere, HandleErrorElements, Consume,
        Connect, CancelParent, vars
<1>4. ASSUME UNCHANGED <<worker, phase>> PROVE WorkersOK'
  BY <1>4
<1>5. CASE StopCancel \/ StopClose
  BY <1>5 DEF StopCancel, StopClose
<1> QED BY <1>1, <1>2, <1>3, <1>4, <1>5 DEF Next

LEMMA FinishType ==
    ASSUME TypeOK, NEW w, NEW how \in Outcomes, NEW step, FinishAt(w, how, step)
    PROVE  outcome' \in [Elements -> SUBSET Outcomes]
BY DEF TypeOK, HistoryOK, FinishAt

LEMMA NeutralType ==
    ASSUME TypeOK, NEW e \in Elements, SubmitToNeutralWires(e)
    PROVE  neutral' \in [NeutralWires -> SUBSET Elements]
BY DEF TypeOK, HistoryOK, SubmitToNeutralWires

LEMMA HistoryInductive == TypeOK /\ [Next]_vars => HistoryOK'
<1> SUFFICES ASSUME TypeOK, [Next]_vars PROVE HistoryOK'
  OBVIOUS
<1> USE DEF TypeOK, HistoryOK, config, channels, worker, history, Outside
<1>1. ASSUME NEW e \in Elements, Submit(e) PROVE HistoryOK'
  <2>1. neutral' \in [NeutralWires -> SUBSET Elements]
    BY <1>1, NeutralType, Zenon DEF Submit
  <2>2. UNCHANGED <<outcome, recorded, encoded, panicked>>
    BY <1>1, Zenon DEF Submit
  <2> QED BY <2>1, <2>2
<1>2. ASSUME NEW w \in Workers, WorkerStep(w) PROVE HistoryOK'
  <2> USE DEF Goto, KeepsHand, Outcomes
  <2>1. CASE WorkerExit(w) \/ Take(w) \/ Transform(w)
    BY <2>1 DEF WorkerExit, Take, Transform
  <2>2. ASSUME wpc[w] \notin {"off", "select", "exited"} PROVE hand[w] \in Elements
    BY <2>2 DEF WorkersOK
  <2>3. CASE CheckContext(w)
    BY <2>3 DEF CheckContext, Finish, FinishAt
  <2>4. ASSUME \/ recorded' = recorded
               \/ recorded' = [recorded EXCEPT ![hand[w]] = recorded[hand[w]] + 1],
               UNCHANGED <<outcome, encoded, neutral, panicked>>
        PROVE  HistoryOK'
    <3>1. recorded \in [Elements -> Nat]
      OBVIOUS
    <3>2. recorded' \in [Elements -> Nat]
      BY <2>4, <3>1
    <3> QED BY <2>4, <3>2
  <2>5. CASE HandleProcessingError(w)
    BY <2>4, <2>5, Zenon DEF HandleProcessingError, RecordError
  <2>6. CASE AttemptRecovery(w)
    BY <2>4, <2>6, Zenon DEF AttemptRecovery, RecordError
  <2>7. CASE Route(w)
    <3>1. hand[w] \in Elements
      BY <2>2, <2>7 DEF Route
    <3>2. neutral' \in [NeutralWires -> SUBSET Elements]
      BY ZenonT(40), <2>7, <3>1 DEF Route, SubmitToNeutralWires
    <3>3. outcome' \in [Elements -> SUBSET Outcomes]
      <4>1. "diverted" \in Outcomes
        OBVIOUS
      <4> QED BY <2>7, <4>1, FinishType, Zenon DEF Route, Finish
    <3> QED BY <2>7, <3>2, <3>3 DEF Route
  <2>8. CASE Report(w)
    BY <2>8 DEF Report, HandleError, Finish, FinishAt
  <2>9. CASE Encode(w)
    BY <2>2, <2>9 DEF Encode, HandleError
  <2>10. CASE Emit(w)
    <3>1. outcome' \in [Elements -> SUBSET Outcomes]
      <4>1. "emitted" \in Outcomes /\ "discarded" \in Outcomes
        OBVIOUS
      <4> QED BY <2>10, <4>1, FinishType, Zenon DEF Emit, SendOutput, Finish
    <3>2. panicked' \in BOOLEAN
      BY <2>10, Zenon DEF Emit, SendOutput
    <3> QED BY <2>10, <3>1, <3>2 DEF Emit
  <2> QED BY <1>2, <2>1, <2>3, <2>5, <2>6, <2>7, <2>8, <2>9, <2>10 DEF WorkerStep
<1>3. ASSUME \/ \E e \in Elements : SubmitNormally(e)
             \/ BreakerElsewhere \/ HandleErrorElements \/ Consume
             \/ \E c \in Options : Connect(c)
             \/ Start \/ CancelParent \/ StopCancel \/ StopClose \/ UNCHANGED vars
      PROVE  UNCHANGED history
  BY <1>3, Zenon DEF SubmitNormally, BreakerElsewhere, HandleErrorElements, Consume,
        Connect, Start, CancelParent, StopCancel, StopClose, vars
<1>4. ASSUME UNCHANGED history PROVE HistoryOK'
  BY <1>4
<1> QED BY <1>1, <1>2, <1>3, <1>4 DEF Next

\* The channels of a wire stay within their capacity and its workers hold
\* elements exactly while they process them, whatever is connected to it.
THEOREM TypeCorrect == Spec => []TypeOK
<1>1. Init => TypeOK
  <2> SUFFICES ASSUME Init PROVE TypeOK
    OBVIOUS
  <2>1. ControlOK
    BY DEF Init, ControlOK
  <2>2. ChannelsOK
    BY SizesAssumption DEF Init, ChannelsOK
  <2>3. WorkersOK
    BY DEF Init, WorkersOK, Steps
  <2>4. HistoryOK
    BY DEF Init, HistoryOK
  <2> QED BY <2>1, <2>2, <2>3, <2>4 DEF TypeOK
<1>2. TypeOK /\ [Next]_vars => TypeOK'
  BY ControlInductive, ChannelsInductive, WorkersInductive, HistoryInductive DEF TypeOK
<1> QED BY <1>1, <1>2, PTL DEF Spec

-----------------------------------------------------------------------------
\* Once Stop has closed the channels no worker runs any more.
Quiet ==
    /\ ~panicked
    /\ phase = "stopped" => \A w \in Workers : wpc[w] = "exited"

\* Closing the channels never makes a worker panic: Stop closes them after
\* it has waited for every worker, and no worker is started again.
THEOREM PanicFree == Spec => []NoSendOnClosedChannel
<1>1. Init => Quiet
  BY DEF Init, Quiet
<1>2. TypeOK /\ Quiet /\ [Next]_vars => Quiet'
  <2> SUFFICES ASSUME TypeOK, Quiet, [Next]_vars PROVE Quiet'
    OBVIOUS
  <2> USE DEF config, channels, worker, history, Outside
  <2>1. ASSUME NEW w \in Workers, WorkerStep(w) PROVE Quiet'
    <3>1. wpc[w] # "exited" /\ phase' = phase
      BY <2>1 DEF WorkerStep, WorkerExit, Take, CheckContext, Transform, HandleProcessingError,
            AttemptRecovery, Route, Report, Encode, Emit
    <3>2. phase # "stopped"
      BY <3>1, Zenon DEF Quiet
    <3>3. panicked' = panicked \/ panicked' = (panicked \/ phase = "stopped")
      BY <2>1, Zenon DEF WorkerStep, WorkerExit, Take, CheckContext, Transform,
            HandleProcessingError, AttemptRecovery, Route, Report, Encode, Emit, HandleError,
            SendOutput
    <3>4. ~panicked'
      BY <3>2, <3>3, Zenon DEF Quiet
    <3>5. phase' # "stopped"
      BY <3>1, <3>2
    <3> QED BY <3>4, <3>5, Zenon DEF Quiet
  <2>2. ASSUME \/ \E e \in Elements : Submit(e) \/ SubmitNormally(e)
               \/ BreakerElsewhere \/ HandleErrorElements \/ Consume
               \/ \E c \in Options : Connect(c)
               \/ CancelParent \/ UNCHANGED vars
        PROVE  UNCHANGED <<wpc, phase, panicked>>
    BY <2>2, Zenon DEF Submit, SubmitNormally, BreakerElsewhere, HandleErrorElements, Consume,
          Connect, CancelParent, vars
  <2>3. ASSUME UNCHANGED <<wpc, phase, panicked>> PROVE Quiet'
    BY <2>3, Zenon DEF Quiet
  <2>4. CASE Start
    BY <2>4 DEF Start, Quiet
  <2>5. CASE StopCancel
    BY <2>5 DEF StopCancel, Quiet
  <2>6. CASE StopClose
    BY <2>6 DEF StopClose, Quiet
  <2> QED BY <2>1, <2>2, <2>3, <2>4, <2>5, <2>6 DEF Next
<1>3. Quiet => NoSendOnClosedChannel
  BY DEF Quiet, NoSendOnClosedChannel
<1> QED BY <1>1, <1>2, <1>3, TypeCorrect, PTL DEF Spec

-----------------------------------------------------------------------------
\* OnePlace under the three steps that move an element.
LEMMA SendKeepsPlaces ==
    ASSUME TypeOK, OnePlace, NEW e \in Elements, spc[e] = "sending",
           inChan' = Append(inChan, e), spc' = [spc EXCEPT ![e] = "accepted"],
           hand' = hand, outcome' = outcome
    PROVE  OnePlace'
<1> DEFINE n == Len(inChan)
<1>1. /\ inChan \in Seq(Elements) /\ n \in Nat
      /\ Len(inChan') = n + 1 /\ inChan'[n + 1] = e
      /\ \A i \in 1..n : inChan'[i] = inChan[i]
  BY DEF TypeOK, ChannelsOK
<1>2. ~Queued(e) /\ ~Held(e) /\ outcome[e] = {}
  BY DEF OnePlace
<1>3. \A i, j \in 1..Len(inChan') : inChan'[i] = inChan'[j] => i = j
  BY <1>1, <1>2 DEF OnePlace, Queued
<1>4. \A x \in Elements : Queued(x)' <=> Queued(x) \/ x = e
  BY <1>1 DEF Queued
<1>5. \A x \in Elements : Held(x)' <=> Held(x)
  BY DEF Held
<1>6. ASSUME NEW x \in Elements
      PROVE  /\ ~(Queued(x) /\ Held(x))'
             /\ (Queued(x) \/ Held(x) => outcome[x] = {})'
             /\ (spc[x] = "accepted" <=> Queued(x) \/ Held(x) \/ outcome[x] # {})'
             /\ (\A one, other \in outcome[x] : one = other)'
  BY <1>2, <1>4, <1>5 DEF OnePlace, TypeOK, ControlOK
<1> QED BY <1>3, <1>6 DEF OnePlace

LEMMA TakeKeepsPlaces ==
    ASSUME TypeOK, OnePlace, NEW w \in Workers, wpc[w] = "select", inChan # <<>>,
           inChan' = Tail(inChan), hand' = [hand EXCEPT ![w] = Head(inChan)],
           spc' = spc, outcome' = outcome
    PROVE  OnePlace'
<1> DEFINE n == Len(inChan)
<1>1. /\ inChan \in Seq(Elements) /\ n \in Nat /\ n > 0
      /\ Len(inChan') = n - 1 /\ Head(inChan) = inChan[1]
      /\ \A i \in 1..(n - 1) : inChan'[i] = inChan[i + 1]
  BY DEF TypeOK, ChannelsOK
<1>2. hand[w] = Nobody /\ Head(inChan) \in Elements /\ Nobody \notin Elements
  BY <1>1, SetsAssumption DEF TypeOK, WorkersOK
<1>3. \A i, j \in 1..Len(inChan') : inChan'[i] = inChan'[j] => i = j
  BY <1>1 DEF OnePlace
<1>4. \A x \in Elements : Queued(x)' <=> Queued(x) /\ x # Head(inChan)
  <2>1. ASSUME NEW x \in Elements, Queued(x)' PROVE Queued(x) /\ x # Head(inChan)
    <3>1. PICK i \in 1..(n - 1) : inChan[i + 1] = x
      BY <1>1, <2>1 DEF Queued
    <3> QED BY <1>1, <3>1 DEF Queued, OnePlace
  <2>2. ASSUME NEW x \in Elements, Queued(x), x # Head(inChan) PROVE Queued(x)'
    <3>1. PICK i \in 1..n : inChan[i] = x
      BY <2>2 DEF Queued
    <3>2. i # 1 /\ i - 1 \in 1..(n - 1) /\ (i - 1) + 1 = i
      BY <1>1, <2>2, <3>1
    <3>3. inChan'[i - 1] = x
      BY <1>1, <3>1, <3>2
    <3> QED BY <1>1, <3>2, <3>3 DEF Queued
  <2> QED BY <2>1, <2>2
<1>5. \A x \in Elements : Held(x)' <=> Held(x) \/ x = Head(inChan)
  BY <1>2 DEF Held, TypeOK, WorkersOK
<1>6. Queued(Head(inChan))
  BY <1>1 DEF Queued
<1>7. ~Held(Head(inChan))
  BY <1>2, <1>6 DEF OnePlace
<1>8. \A v, u \in Workers : hand'[v] = hand'[u] /\ hand'[v] # Nobody => v = u
  BY <1>2, <1>7 DEF OnePlace, Held, TypeOK, WorkersOK
<1>9. ASSUME NEW x \in Elements
      PROVE  /\ ~(Queued(x) /\ Held(x))'
             /\ (Queued(x) \/ Held(x) => outcome[x] = {})'
             /\ (spc[x] = "accepted" <=> Queued(x) \/ Held(x) \/ outcome[x] # {})'
             /\ (\A one, other \in outcome[x] : one = other)'
  BY <1>4, <1>5, <1>6, <1>7 DEF OnePlace
<1> QED BY <1>3, <1>8, <1>9 DEF OnePlace

LEMMA FinishKeepsPlaces ==
    ASSUME TypeOK, OnePlace, NEW w \in Workers, hand[w] \in Elements,
           NEW how \in Outcomes, NEW step, FinishAt(w, how, step),
           inChan' = inChan, spc' = spc
    PROVE  OnePlace'
<1>1. /\ hand' = [hand EXCEPT ![w] = Nobody] /\ Nobody \notin Elements
      /\ hand \in [Workers -> Elements \cup {Nobody}]
      /\ outcome \in [Elements -> SUBSET Outcomes]
  BY SetsAssumption DEF FinishAt, TypeOK, WorkersOK, HistoryOK
<1>2. \A x \in Elements : Queued(x)' <=> Queued(x)
  BY DEF Queued
<1>3. \A x \in Elements : Held(x)' <=> Held(x) /\ x # hand[w]
  BY <1>1 DEF Held, OnePlace
<1>4. Held(hand[w]) /\ ~Queued(hand[w]) /\ outcome[hand[w]] = {}
  BY DEF Held, OnePlace
<1>5. /\ outcome'[hand[w]] = {how}
      /\ \A x \in Elements \ {hand[w]} : outcome'[x] = outcome[x]
  BY <1>1, <1>4 DEF FinishAt
<1>6. /\ \A i, j \in 1..Len(inChan') : inChan'[i] = inChan'[j] => i = j
      /\ \A v, u \in Workers : hand'[v] = hand'[u] /\ hand'[v] # Nobody => v = u
  BY <1>1 DEF OnePlace
<1>7. ASSUME NEW x \in Elements
      PROVE  /\ ~(Queued(x) /\ Held(x))'
             /\ (Queued(x) \/ Held(x) => outcome[x] = {})'
             /\ (spc[x] = "accepted" <=> Queued(x) \/ Held(x) \/ outcome[x] # {})'
             /\ (\A one, other \in outcome[x] : one = other)'
  <2>1. CASE x = hand[w]
    BY <1>2, <1>3, <1>4, <1>5, <2>1 DEF OnePlace
  <2>2. CASE x # hand[w]
    BY <1>2, <1>3, <1>5, <2>2 DEF OnePlace
  <2> QED BY <2>1, <2>2
<1> QED BY <1>6, <1>7 DEF OnePlace

\* A step that moves no element: those of the lifecycle, of the breaker, of
\* the readers, and the worker steps between Take and the end.
LEMMA UnmovedKeepsPlaces ==
    ASSUME OnePlace, inChan' = inChan, hand' = hand, outcome' = outcome,
           \A e \in Elements : spc'[e] = "accepted" <=> spc[e] = "accepted"
    PROVE  OnePlace'
<1>1. \A e \in Elements : (Queued(e)' <=> Queued(e)) /\ (Held(e)' <=> Held(e))
  BY DEF Queued, Held
<1> QED BY <1>1 DEF OnePlace

LEMMA PlacesInductive == TypeOK /\ OnePlace /\ [Next]_vars => OnePlace'
<1> SUFFICES ASSUME TypeOK, OnePlace, [Next]_vars PROVE OnePlace'
  OBVIOUS
<1> USE DEF config, channels, worker, history, Outside
<1>1. ASSUME NEW e \in Elements, Submit(e) PROVE OnePlace'
  <2>1. \A x \in Elements : spc'[x] = "accepted" <=> spc[x] = "accepted"
    <3>1. \E to \in {"sending", "tripped"} : spc' = [spc EXCEPT ![e] = to]
      BY <1>1, Zenon DEF Submit
    <3> QED BY <1>1, <3>1 DEF Submit, TypeOK, ControlOK
  <2>2. inChan' = inChan /\ hand' = hand /\ outcome' = outcome
    BY <1>1, Zenon DEF Submit
  <2> QED BY <2>1, <2>2, UnmovedKeepsPlaces
<1>2. ASSUME NEW e \in Elements, SubmitNormally(e) PROVE OnePlace'
  <2>1. CASE spc' = [spc EXCEPT ![e] = "refused"] /\ inChan' = inChan
    <3>1. \A x \in Elements : spc'[x] = "accepted" <=> spc[x] = "accepted"
      BY <1>2, <2>1 DEF SubmitNormally, TypeOK, ControlOK
    <3> QED BY <1>2, <2>1, <3>1, UnmovedKeepsPlaces DEF SubmitNormally
  <2>2. CASE spc' = [spc EXCEPT ![e] = "accepted"] /\ inChan' = Append(inChan, e)
    BY <1>2, <2>2, SendKeepsPlaces DEF SubmitNormally
  <2> QED BY <1>2, <2>1, <2>2, Zenon DEF SubmitNormally
<1>3. ASSUME NEW w \in Workers, WorkerStep(w) PROVE OnePlace'
  <2>1. ASSUME wpc[w] \notin {"off", "select", "exited"} PROVE hand[w] \in Elements
    BY <2>1 DEF TypeOK, WorkersOK
  <2>2. spc' = spc
    BY <1>3, Zenon DEF WorkerStep, WorkerExit, Take, CheckContext, Transform,
        HandleProcessingError, AttemptRecovery, Route, Report, Encode, Emit
  <2>3. ASSUME inChan' = inChan, hand' = hand, outcome' = outcome PROVE OnePlace'
    BY <2>2, <2>3, UnmovedKeepsPlaces
  <2>4. ASSUME NEW how \in Outcomes, NEW step, FinishAt(w, how, step), inChan' = inChan,
               wpc[w] \notin {"off", "select", "exited"}
        PROVE  OnePlace'
    BY <2>1, <2>2, <2>4, FinishKeepsPlaces
  <2>5. {"emitted", "failed", "diverted", "discarded"} \subseteq Outcomes
    BY DEF Outcomes
  <2>6. CASE WorkerExit(w) \/ Transform(w) \/ HandleProcessingError(w) \/ AttemptRecovery(w)
             \/ Encode(w)
    BY <2>3, <2>6, Zenon DEF WorkerExit, Transform, HandleProcessingError, AttemptRecovery,
        Encode, KeepsHand
  <2>7. CASE Take(w)
    BY <2>7, TakeKeepsPlaces DEF Take
  <2>8. CASE CheckContext(w)
    BY <2>3, <2>4, <2>5, <2>8 DEF CheckContext, Finish, KeepsHand
  <2>9. CASE Route(w)
    <3>1. inChan' = inChan /\ wpc[w] \notin {"off", "select", "exited"}
      BY <2>9 DEF Route
    <3>2. FinishAt(w, "diverted", "select") \/ (hand' = hand /\ outcome' = outcome)
      BY <2>9, Zenon DEF Route, Finish, KeepsHand
    <3> QED BY <2>3, <2>4, <2>5, <3>1, <3>2
  <2>10. CASE Report(w)
    BY <2>4, <2>5, <2>10 DEF Report, Finish
  <2>11. CASE Emit(w)
    <3>1. inChan' = inChan /\ wpc[w] \notin {"off", "select", "exited"}
      BY <2>11 DEF Emit
    <3>2. \E step : FinishAt(w, "emitted", step) \/ FinishAt(w, "discarded", step)
      BY <2>11, Zenon DEF Emit, SendOutput, Finish
    <3> QED BY <2>4, <2>5, <3>1, <3>2
  <2> QED BY <1>3, <2>6, <2>7, <2>8, <2>9, <2>10, <2>11 DEF WorkerStep
<1>4. ASSUME \/ BreakerElsewhere \/ HandleErrorElements \/ Consume
             \/ \E c \in Options : Connect(c)
             \/ Start \/ CancelParent \/ StopCancel \/ StopClose \/ UNCHANGED vars
      PROVE  UNCHANGED <<inChan, hand, outcome, spc>>
  BY <1>4, Zenon DEF BreakerElsewhere, HandleErrorElements, Consume, Connect, Start,
        CancelParent, StopCancel, StopClose, vars
<1>5. ASSUME UNCHANGED <<inChan, hand, outcome, spc>> PROVE OnePlace'
  BY <1>5, UnmovedKeepsPlaces
<1> QED BY <1>1, <1>2, <1>3, <1>4, <1>5 DEF Next

THEOREM PlacesCorrect == Spec => []OnePlace
<1>1. Init => OnePlace
  BY SetsAssumption DEF Init, OnePlace, Queued, Held
<1> QED BY <1>1, PlacesInductive, TypeCorrect, PTL DEF Spec

\* A set with at most one member has as many as the answer to "any?" says.
LEMMA AtMostOne ==
    ASSUME NEW S, \A x, y \in S : x = y
    PROVE  Cardinality(S) = IF S = {} THEN 0 ELSE 1
<1>1. CASE S = {}
  BY <1>1, FS_EmptySet
<1>2. CASE S # {}
  <2>1. PICK x \in S : TRUE
    BY <1>2
  <2>2. S = {x}
    BY <2>1
  <2> QED BY <1>2, <2>2, FS_Singleton
<1> QED BY <1>1, <1>2

\* An accepted element is in one place only and is never lost: Conservation,
\* for any number of elements and workers, any capacity and any options.
THEOREM Conserved == Spec => []Conservation
<1>1. TypeOK /\ OnePlace => Conservation
  <2> SUFFICES ASSUME TypeOK, OnePlace, NEW e \in Elements
               PROVE  Occurrences(inChan, e) + Cardinality({w \in Workers : hand[w] = e})
                        + Cardinality(outcome[e]) = IF spc[e] = "accepted" THEN 1 ELSE 0
    BY DEF Conservation
  <2> DEFINE Slots == {i \in DOMAIN inChan : inChan[i] = e}
             Holders == {w \in Workers : hand[w] = e}
  <2>1. DOMAIN inChan = 1..Len(inChan)
    BY DEF TypeOK, ChannelsOK
  <2>2. e # Nobody
    BY SetsAssumption
  <2>3. Cardinality(Slots) = IF Queued(e) THEN 1 ELSE 0
    <3>1. \A i, j \in Slots : i = j
      BY <2>1 DEF OnePlace
    <3>2. Slots = {} <=> ~Queued(e)
      BY <2>1 DEF Queued
    <3> HIDE DEF Slots
    <3> QED BY <3>1, <3>2, AtMostOne
  <2>4. Cardinality(Holders) = IF Held(e) THEN 1 ELSE 0
    <3>1. \A v, u \in Holders : v = u
      BY <2>2 DEF OnePlace
    <3>2. Holders = {} <=> ~Held(e)
      BY DEF Held
    <3> HIDE DEF Holders
    <3> QED BY <3>1, <3>2, AtMostOne
  <2>5. Cardinality(outcome[e]) = IF outcome[e] = {} THEN 0 ELSE 1
    BY AtMostOne DEF OnePlace
  <2>6. /\ ~(Queued(e) /\ Held(e))
        /\ Queued(e) \/ Held(e) => outcome[e] = {}
        /\ spc[e] = "accepted" <=> Queued(e) \/ Held(e) \/ outcome[e] # {}
    BY DEF OnePlace
  <2> HIDE DEF Slots, Holders
  <2>7. Cardinality(Slots) + Cardinality(Holders) + Cardinality(outcome[e])
            = IF spc[e] = "accepted" THEN 1 ELSE 0
    BY <2>3, <2>4, <2>5, <2>6
  <2> QED BY <2>7 DEF Slots, Holders, Occurrences
<1> QED BY <1>1, TypeCorrect, PlacesCorrect, PTL

-----------------------------------------------------------------------------
(* The wire implements Pipeline.                                           *)

LEMMA SendAccepts ==
    ASSUME TypeOK, OnePlace, NEW e \in Elements, spc[e] = "sending",
           spc' = [spc EXCEPT ![e] = "accepted"], outcome' = outcome, cancelled' = cancelled
    PROVE  Promise!Accept(e)
<1>1. outcome[e] = {} /\ spc \in [Elements -> {"new", "sending", "tripped", "accepted", "refused"}]
  BY DEF OnePlace, TypeOK, ControlOK
<1>2. e \notin Unsettled /\ Settled[e] = "none"
  BY <1>1 DEF Unsettled, Settled, FateOf
<1>3. Unsettled' = Unsettled \cup {e}
  BY <1>1 DEF Unsettled
<1>4. Settled' = Settled
  BY DEF Settled
<1> QED BY <1>2, <1>3, <1>4 DEF Promise!Accept

LEMMA FinishSettles ==
    ASSUME TypeOK, OnePlace, NEW w \in Workers, hand[w] \in Elements,
           NEW how \in Outcomes, NEW step, FinishAt(w, how, step),
           how = "discarded" => cancelled, spc' = spc, cancelled' = cancelled
    PROVE  Promise!Settle(hand[w], how)
<1> DEFINE e == hand[w]
<1>1. Held(e) /\ outcome[e] = {} /\ spc[e] = "accepted"
  BY DEF Held, OnePlace
<1>2. outcome' = [outcome EXCEPT ![e] = {how}] /\ outcome \in [Elements -> SUBSET Outcomes]
  BY <1>1 DEF FinishAt, TypeOK, HistoryOK
<1>3. e \in Unsettled
  BY <1>1 DEF Unsettled
<1>4. Unsettled' = Unsettled \ {e}
  BY <1>2 DEF Unsettled
<1>5. Settled' = [Settled EXCEPT ![e] = how]
  <2>1. FateOf({how}) = how
    BY DEF FateOf
  <2>2. Settled' = [x \in Elements |-> IF x = e THEN FateOf({how}) ELSE FateOf(outcome[x])]
    BY <1>2 DEF Settled
  <2> QED BY <2>1, <2>2 DEF Settled
<1> QED BY <1>3, <1>4, <1>5 DEF Promise!Settle

LEMMA UnmovedStutters ==
    ASSUME TypeOK, outcome' = outcome, cancelled' = cancelled,
           \A e \in Elements : spc'[e] = "accepted" <=> spc[e] = "accepted"
    PROVE  UNCHANGED Promise!vars
<1>1. Unsettled' = Unsettled
  BY DEF Unsettled
<1>2. Settled' = Settled
  BY DEF Settled
<1> QED BY <1>1, <1>2 DEF Promise!vars

LEMMA CancelCancels ==
    ASSUME cancelled' = TRUE, cancelled \in BOOLEAN, UNCHANGED <<spc, outcome>>
    PROVE  Promise!Cancel \/ UNCHANGED Promise!vars
<1>1. Unsettled' = Unsettled /\ Settled' = Settled
  BY DEF Unsettled, Settled
<1>2. CASE cancelled
  BY <1>1, <1>2 DEF Promise!vars
<1>3. CASE ~cancelled
  BY <1>1, <1>3 DEF Promise!Cancel
<1> QED BY <1>2, <1>3

LEMMA StepImplements ==
    TypeOK /\ OnePlace /\ [Next]_vars => [Promise!Next]_Promise!vars
<1> SUFFICES ASSUME TypeOK, OnePlace, [Next]_vars PROVE Promise!Next \/ UNCHANGED Promise!vars
  OBVIOUS
<1> USE DEF config, channels, worker, history, Outside
<1>1. ASSUME NEW e \in Elements, Submit(e) PROVE UNCHANGED Promise!vars
  <2>1. \A x \in Elements : spc'[x] = "accepted" <=> spc[x] = "accepted"
    <3>1. \E to \in {"sending", "tripped"} : spc' = [spc EXCEPT ![e] = to]
      BY <1>1, Zenon DEF Submit
    <3> QED BY <1>1, <3>1 DEF Submit, TypeOK, ControlOK
  <2>2. outcome' = outcome /\ cancelled' = cancelled
    BY <1>1, Zenon DEF Submit
  <2> QED BY <2>1, <2>2, UnmovedStutters
<1>2. ASSUME NEW e \in Elements, SubmitNormally(e)
      PROVE  Promise!Accept(e) \/ UNCHANGED Promise!vars
  <2>1. CASE spc' = [spc EXCEPT ![e] = "refused"]
    <3>1. \A x \in Elements : spc'[x] = "accepted" <=> spc[x] = "accepted"
      BY <1>2, <2>1 DEF SubmitNormally, TypeOK, ControlOK
    <3> QED BY <1>2, <3>1, UnmovedStutters DEF SubmitNormally
  <2>2. CASE spc' = [spc EXCEPT ![e] = "accepted"]
    BY <1>2, <2>2, SendAccepts DEF SubmitNormally
  <2> QED BY <1>2, <2>1, <2>2, Zenon DEF SubmitNormally
<1>3. ASSUME NEW w \in Workers, WorkerStep(w)
      PROVE  \/ UNCHANGED Promise!vars
             \/ hand[w] \in Elements /\ \E how \in Outcomes : Promise!Settle(hand[w], how)
  <2>1. ASSUME wpc[w] \notin {"off", "select", "exited"} PROVE hand[w] \in Elements
    BY <2>1 DEF TypeOK, WorkersOK
  <2>2. spc' = spc /\ cancelled' = cancelled
    BY <1>3, Zenon DEF WorkerStep, WorkerExit, Take, CheckContext, Transform,
        HandleProcessingError, AttemptRecovery, Route, Report, Encode, Emit
  <2>3. ASSUME outcome' = outcome PROVE UNCHANGED Promise!vars
    BY <2>2, <2>3, UnmovedStutters
  <2>4. ASSUME NEW how \in Outcomes, NEW step, FinishAt(w, how, step),
               how = "discarded" => cancelled,
               wpc[w] \notin {"off", "select", "exited"}
        PROVE  hand[w] \in Elements /\ Promise!Settle(hand[w], how)
    BY <2>1, <2>2, <2>4, FinishSettles
  <2>5. {"emitted", "failed", "diverted", "discarded"} \subseteq Outcomes
    BY DEF Outcomes
  <2>6. CASE WorkerExit(w) \/ Take(w) \/ Transform(w) \/ HandleProcessingError(w)
             \/ AttemptRecovery(w) \/ Encode(w)
    BY <2>3, <2>6, Zenon DEF WorkerExit, Take, Transform, HandleProcessingError,
        AttemptRecovery, Encode
  <2>7. CASE CheckContext(w)
    <3>1. wpc[w] \notin {"off", "select", "exited"}
      BY <2>7 DEF CheckContext
    <3>2. (cancelled /\ FinishAt(w, "discarded", "select")) \/ outcome' = outcome
      BY <2>7, Zenon DEF CheckContext, Finish
    <3> QED BY <2>3, <2>4, <2>5, <3>1, <3>2
  <2>8. CASE Route(w)
    <3>1. wpc[w] \notin {"off", "select", "exited"}
      BY <2>8 DEF Route
    <3>2. FinishAt(w, "diverted", "select") \/ outcome' = outcome
      BY <2>8, Zenon DEF Route, Finish
    <3> QED BY <2>3, <2>4, <2>5, <3>1, <3>2
  <2>9. CASE Report(w)
    BY <2>4, <2>5, <2>9 DEF Report, Finish
  <2>10. CASE Emit(w)
    <3>1. wpc[w] \notin {"off", "select", "exited"}
      BY <2>10 DEF Emit
    <3>2. \E step : FinishAt(w, "emitted", step) \/ (cancelled /\ FinishAt(w, "discarded", step))
      BY <2>10, Zenon DEF Emit, SendOutput, Finish
    <3> QED BY <2>4, <2>5, <3>1, <3>2
  <2> QED BY <1>3, <2>6, <2>7, <2>8, <2>9, <2>10 DEF WorkerStep
<1>4. CASE CancelParent \/ StopCancel
  <2>1. cancelled' = TRUE /\ UNCHANGED <<spc, outcome>>
    BY <1>4 DEF CancelParent, StopCancel
  <2>2. cancelled \in BOOLEAN
    BY DEF TypeOK, ControlOK
  <2> QED BY <2>1, <2>2, CancelCancels DEF Promise!Next
<1>5. ASSUME \/ BreakerElsewhere \/ HandleErrorElements \/ Consume
             \/ \E c \in Options : Connect(c)
             \/ Start \/ StopClose \/ UNCHANGED vars
      PROVE  UNCHANGED Promise!vars
  <2>1. UNCHANGED <<outcome, spc, cancelled>>
    BY <1>5, Zenon DEF BreakerElsewhere, HandleErrorElements, Consume, Connect, Start,
        StopClose, vars
  <2> QED BY <2>1, UnmovedStutters
<1> QED BY <1>1, <1>2, <1>3, <1>4, <1>5 DEF Next, Promise!Next, Outcomes

\* Whatever the workers, channels and options, a wire does what Pipeline
\* promises: an accepted element gets one fate, and is thrown away only
\* after the wire's context was cancelled.
THEOREM Refinement == Spec => ImplementsPipeline
<1>1. Init => Promise!Init
  <2> SUFFICES ASSUME Init PROVE Promise!Init
    OBVIOUS
  <2>1. Unsettled = {} /\ Settled = [e \in Elements |-> "none"]
    BY DEF Init, Unsettled, Settled, FateOf
  <2>2. (~cancelled) = TRUE
    BY Zenon DEF Init
  <2> QED BY <2>1, <2>2, Zenon DEF Promise!Init
<1> QED BY <1>1, StepImplements, TypeCorrect, PlacesCorrect, PTL
        DEF Spec, ImplementsPipeline, Promise!Spec

-----------------------------------------------------------------------------
(* Failures and the breaker. *)

\* Where the element in a worker's hand has not failed for good, and where it has.
Undecided == {"check", "transform", "failed", "retry", "encode", "emit"}
FailedFor == {"route", "report"}

\* The wire runs, and its failures are the breaker's business.
Counting == ~cancelled /\ HasBreaker /\ (HasInsulator => RetryThreshold > 0)

\* An element is not recorded before its last attempt has failed, and is recorded from
\* then on. Nothing ends before Start, so a breaker connected before it sees everything.
RecordInv ==
    /\ \A e \in Elements : outcome[e] = {} /\ ~Held(e) => recorded[e] = 0
    /\ \A w \in Workers : wpc[w] \in Undecided => recorded[hand[w]] = 0
    /\ \A e \in Elements : "emitted" \in outcome[e] => recorded[e] = 0
    /\ phase = "new" => \A e \in Elements : outcome[e] = {}
    /\ Counting =>
        /\ \A w \in Workers : wpc[w] \in FailedFor => recorded[hand[w]] = 1
        /\ \A e \in Elements : outcome[e] \cap {"failed", "diverted"} # {} => recorded[e] = 1

\* A worker that has work has an element of its own, which has no outcome yet.
LEMMA OwnElement ==
    ASSUME TypeOK, OnePlace, NEW w \in Workers, wpc[w] \notin {"off", "select", "exited"}
    PROVE  /\ hand[w] \in Elements /\ Held(hand[w]) /\ outcome[hand[w]] = {}
           /\ \A v \in Workers : hand[v] = hand[w] => v = w
<1>1. hand[w] \in Elements /\ hand[w] # Nobody
  BY SetsAssumption DEF TypeOK, WorkersOK
<1> QED BY <1>1 DEF OnePlace, Held

LEMMA BusyHands ==
    ASSUME TypeOK
    PROVE  \A w \in Workers : wpc[w] \in Undecided \cup FailedFor => wpc[w] \notin {"off", "select", "exited"}
BY DEF Undecided, FailedFor

\* Nothing but places has changed, and no element without a record counts as failed now.
LEMMA MoveKeepsRecords ==
    ASSUME TypeOK, RecordInv, NEW w \in Workers, NEW step \in Steps,
           wpc' = [wpc EXCEPT ![w] = step],
           UNCHANGED <<hand, outcome, recorded, phase>>, Counting' => Counting,
           step \in Undecided => wpc[w] \in Undecided,
           step \in FailedFor => wpc[w] \in FailedFor \/ ~Counting
    PROVE  RecordInv'
<1>1. /\ wpc'[w] = step /\ \A v \in Workers : v # w => wpc'[v] = wpc[v]
  BY DEF TypeOK, WorkersOK
<1>2. \A e \in Elements : Held(e)' <=> Held(e)
  BY DEF Held
<1>3. \A v \in Workers : wpc'[v] \in Undecided => recorded'[hand'[v]] = 0
  BY <1>1 DEF RecordInv
<1>4. Counting' => \A v \in Workers : wpc'[v] \in FailedFor => recorded'[hand'[v]] = 1
  BY <1>1 DEF RecordInv
<1> QED BY <1>2, <1>3, <1>4 DEF RecordInv

\* The last attempt has failed and RecordError was called.
LEMMA FailureKeepsRecords ==
    ASSUME TypeOK, OnePlace, RecordInv, NEW w \in Workers, wpc[w] \in Undecided,
           wpc' = [wpc EXCEPT ![w] = "route"],
           recorded' = [recorded EXCEPT ![hand[w]] = @ + 1],
           UNCHANGED <<hand, outcome, phase>>, Counting' => Counting
    PROVE  RecordInv'
<1> DEFINE e == hand[w]
<1>1. /\ wpc'[w] = "route" /\ \A v \in Workers : v # w => wpc'[v] = wpc[v]
  BY DEF TypeOK, WorkersOK
<1>2. /\ e \in Elements /\ Held(e) /\ outcome[e] = {} /\ recorded[e] = 0
      /\ \A v \in Workers : hand[v] = e => v = w
  BY OwnElement, BusyHands DEF RecordInv
<1>3. /\ recorded'[e] = 1 /\ \A x \in Elements : x # e => recorded'[x] = recorded[x]
  BY <1>2 DEF TypeOK, HistoryOK
<1>4. \A x \in Elements : Held(x)' <=> Held(x)
  BY DEF Held
<1>5. \A v \in Workers : wpc[v] \in Undecided \cup FailedFor => hand[v] \in Elements
  BY OwnElement, BusyHands
<1>6. "route" \notin Undecided
  BY DEF Undecided
<1>7. \A v \in Workers : wpc'[v] \in Undecided => recorded'[hand'[v]] = 0
  BY <1>1, <1>2, <1>3, <1>5, <1>6 DEF RecordInv
<1>8. Counting' => \A v \in Workers : wpc'[v] \in FailedFor => recorded'[hand'[v]] = 1
  BY <1>1, <1>2, <1>3, <1>5 DEF RecordInv
<1>9. /\ \A x \in Elements : outcome'[x] = {} /\ ~Held(x)' => recorded'[x] = 0
      /\ \A x \in Elements : "emitted" \in outcome'[x] => recorded'[x] = 0
      /\ phase' = "new" => \A x \in Elements : outcome'[x] = {}
  BY <1>2, <1>3, <1>4 DEF RecordInv
<1>10. Counting' => \A x \in Elements : outcome'[x] \cap {"failed", "diverted"} # {} => recorded'[x] = 1
  BY <1>2, <1>3 DEF RecordInv
<1> QED BY <1>7, <1>8, <1>9, <1>10 DEF RecordInv

\* The element in w's hand ends.
LEMMA FinishKeepsRecords ==
    ASSUME TypeOK, OnePlace, RecordInv, NEW w \in Workers,
           NEW how \in Outcomes, NEW step \in {"select", "exited"}, FinishAt(w, how, step),
           UNCHANGED <<recorded, phase>>, Counting' => Counting,
           wpc[w] \in Undecided \cup FailedFor,
           how = "emitted" => wpc[w] \in Undecided,
           how \in {"failed", "diverted"} => wpc[w] \in FailedFor
    PROVE  RecordInv'
<1> DEFINE e == hand[w]
<1>1. /\ wpc'[w] = step /\ \A v \in Workers : v # w => wpc'[v] = wpc[v]
      /\ hand'[w] = Nobody /\ \A v \in Workers : v # w => hand'[v] = hand[v]
  BY DEF TypeOK, WorkersOK, FinishAt, Goto
<1>2. /\ e \in Elements /\ Held(e) /\ outcome[e] = {} /\ e # Nobody
      /\ \A v \in Workers : hand[v] = e => v = w
  BY OwnElement, BusyHands, SetsAssumption
<1>3. /\ outcome'[e] = {how} /\ \A x \in Elements : x # e => outcome'[x] = outcome[x]
  BY <1>2 DEF TypeOK, HistoryOK, FinishAt
<1>4. \A x \in Elements : x # e => (Held(x)' <=> Held(x))
  BY <1>1, <1>2, SetsAssumption DEF Held
<1>5. step \notin Undecided /\ step \notin FailedFor
  BY DEF Undecided, FailedFor
<1>6. \A v \in Workers : wpc'[v] \in Undecided => recorded'[hand'[v]] = 0
  BY <1>1, <1>5 DEF RecordInv
<1>7. Counting' => \A v \in Workers : wpc'[v] \in FailedFor => recorded'[hand'[v]] = 1
  BY <1>1, <1>5 DEF RecordInv
<1>8. \A x \in Elements : outcome'[x] = {} /\ ~Held(x)' => recorded'[x] = 0
  BY <1>3, <1>4 DEF RecordInv
<1>9. \A x \in Elements : "emitted" \in outcome'[x] => recorded'[x] = 0
  BY <1>3 DEF RecordInv
<1>10. Counting' => \A x \in Elements : outcome'[x] \cap {"failed", "diverted"} # {} => recorded'[x] = 1
  <2> SUFFICES ASSUME Counting, NEW x \in Elements, outcome'[x] \cap {"failed", "diverted"} # {}
               PROVE  recorded'[x] = 1
    OBVIOUS
  <2>1. CASE x # e
    BY <1>3, <2>1 DEF RecordInv
  <2>2. CASE x = e
    <3>1. how \in {"failed", "diverted"}
      BY <1>3, <2>2
    <3> QED BY <2>2, <3>1 DEF RecordInv
  <2> QED BY <2>1, <2>2
<1>11. phase' # "new"
  BY BusyHands DEF TypeOK, WorkersOK
<1> QED BY <1>6, <1>7, <1>8, <1>9, <1>10, <1>11 DEF RecordInv

LEMMA TakeKeepsRecords ==
    ASSUME TypeOK, OnePlace, RecordInv, NEW w \in Workers, Take(w), Counting' => Counting
    PROVE  RecordInv'
<1> DEFINE e == Head(inChan)
<1>1. /\ e \in Elements /\ Queued(e) /\ e # Nobody
  BY SetsAssumption DEF TypeOK, ChannelsOK, Take, Queued
<1>2. ~Held(e) /\ outcome[e] = {} /\ recorded[e] = 0
  BY <1>1 DEF OnePlace, RecordInv
<1>3. \E step \in {"check", "transform"} : wpc' = [wpc EXCEPT ![w] = step]
  BY DEF Take, Goto
<1>4. /\ wpc'[w] \in {"check", "transform"} /\ \A v \in Workers : v # w => wpc'[v] = wpc[v]
      /\ hand'[w] = e /\ \A v \in Workers : v # w => hand'[v] = hand[v]
      /\ hand[w] = Nobody
  BY <1>3 DEF TypeOK, WorkersOK, Take
<1>5. \A x \in Elements : x # e => (Held(x)' <=> Held(x))
  BY <1>4, SetsAssumption DEF Held
<1>6. \A x \in Elements : x = e => Held(x)'
  BY <1>4 DEF Held
<1>7. recorded' = recorded /\ outcome' = outcome /\ phase' = phase
  BY DEF Take, history, Outside
<1>8. \A v \in Workers : wpc'[v] \in Undecided => recorded'[hand'[v]] = 0
  BY <1>2, <1>4, <1>7 DEF RecordInv
<1>9. Counting' => \A v \in Workers : wpc'[v] \in FailedFor => recorded'[hand'[v]] = 1
  BY <1>4, <1>7 DEF RecordInv, FailedFor
<1> QED BY <1>5, <1>6, <1>7, <1>8, <1>9 DEF RecordInv

LEMMA RecordInvNext == TypeOK /\ OnePlace /\ RecordInv /\ [Next]_vars => RecordInv'
<1> SUFFICES ASSUME TypeOK, OnePlace, RecordInv, [Next]_vars PROVE RecordInv'
  OBVIOUS
<1> USE DEF config, channels, worker, history, Outside
<1>1. ASSUME UNCHANGED <<wpc, hand, outcome, recorded, phase>>, Counting' => Counting PROVE RecordInv'
  <2>1. \A e \in Elements : Held(e)' <=> Held(e)
    BY <1>1 DEF Held
  <2> QED BY <1>1, <2>1 DEF RecordInv
<1>2. ASSUME UNCHANGED <<connected, cancelled>> PROVE Counting' => Counting
  BY <1>2, Zenon DEF Counting, HasBreaker, HasInsulator
<1>3. ASSUME NEW w \in Workers, WorkerStep(w) PROVE RecordInv'
  <2>1. UNCHANGED <<connected, cancelled, phase>>
    BY <1>3, Zenon DEF WorkerStep, WorkerExit, Take, CheckContext, Transform,
        HandleProcessingError, AttemptRecovery, Route, Report, Encode, Emit
  <2>2. Counting' => Counting
    BY <1>2, <2>1
  <2>3. {"emitted", "failed", "diverted", "discarded"} \subseteq Outcomes
    BY DEF Outcomes
  <2>4. CASE WorkerExit(w)
    <3>1. wpc' = [wpc EXCEPT ![w] = "exited"] /\ UNCHANGED <<hand, outcome, recorded>>
      BY <2>4 DEF WorkerExit, Goto, KeepsHand
    <3>2. "exited" \in Steps /\ "exited" \notin Undecided /\ "exited" \notin FailedFor
      BY DEF Steps, Undecided, FailedFor
    <3> QED BY <2>1, <2>2, <3>1, <3>2, MoveKeepsRecords
  <2>5. CASE Take(w)
    BY <2>2, <2>5, TakeKeepsRecords
  <2>6. CASE CheckContext(w)
    <3>1. wpc[w] \in Undecided /\ recorded' = recorded
      BY <2>6 DEF CheckContext, Undecided
    <3>2. CASE Finish(w, "discarded")
      BY <2>1, <2>2, <2>3, <3>1, <3>2, FinishKeepsRecords DEF Finish
    <3>3. CASE Goto(w, "transform") /\ KeepsHand /\ UNCHANGED outcome
      <4>1. "transform" \in Steps /\ "transform" \notin FailedFor
        BY DEF Steps, FailedFor
      <4> QED BY <2>1, <2>2, <3>1, <3>3, <4>1, MoveKeepsRecords DEF Goto, KeepsHand
    <3> QED BY <2>6, <3>2, <3>3, Zenon DEF CheckContext
  <2>7. CASE Transform(w)
    <3>1. wpc[w] \in Undecided /\ UNCHANGED <<hand, outcome, recorded>>
      BY <2>7 DEF Transform, Undecided, KeepsHand
    <3>2. ASSUME NEW step \in Steps, Goto(w, step), step \in FailedFor => ~Counting PROVE RecordInv'
      BY <2>1, <2>2, <3>1, <3>2, MoveKeepsRecords DEF Goto
    <3>3. {"encode", "emit", "failed", "report"} \subseteq Steps /\ "encode" \notin FailedFor
          /\ "emit" \notin FailedFor /\ "failed" \notin FailedFor
      BY DEF Steps, FailedFor
    <3>4. FastPath => ~Counting
      BY Zenon DEF FastPath, Counting
    <3>5. \/ Goto(w, "encode") \/ Goto(w, "emit") \/ Goto(w, "failed") \/ (FastPath /\ Goto(w, "report"))
      BY <2>7, Zenon DEF Transform
    <3> QED BY <3>2, <3>3, <3>4, <3>5
  <2>8. CASE HandleProcessingError(w) \/ AttemptRecovery(w)
    <3>1. wpc[w] \in Undecided /\ UNCHANGED <<hand, outcome>>
      BY <2>8 DEF HandleProcessingError, AttemptRecovery, Undecided
    <3>2. ASSUME NEW step \in Steps, wpc' = [wpc EXCEPT ![w] = step], recorded' = recorded,
                 step \in FailedFor => ~Counting
          PROVE  RecordInv'
      BY <2>1, <2>2, <3>1, <3>2, MoveKeepsRecords
    <3>3. ASSUME RecordError(hand[w]), Goto(w, "route") PROVE RecordInv'
      <4>1. CASE HasBreaker
        BY <2>1, <2>2, <3>1, <3>3, <4>1, FailureKeepsRecords DEF RecordError, Goto
      <4>2. CASE ~HasBreaker
        <5>1. ~Counting /\ recorded' = recorded /\ "route" \in Steps
          BY <3>3, <4>2 DEF RecordError, Counting, Steps
        <5> QED BY <3>2, <3>3, <5>1 DEF Goto
      <4> QED BY <4>1, <4>2
    <3>4. {"encode", "emit", "retry", "route"} \subseteq Steps /\ "encode" \notin FailedFor
          /\ "emit" \notin FailedFor /\ "retry" \notin FailedFor
      BY DEF Steps, FailedFor
    <3>5. CASE HandleProcessingError(w)
      <4>1. \/ HasInsulator /\ recorded' = recorded /\ Goto(w, IF RetryThreshold <= 0 THEN "route" ELSE "retry")
            \/ RecordError(hand[w]) /\ Goto(w, "route")
        BY <3>5, Zenon DEF HandleProcessingError
      <4>2. ASSUME HasInsulator, RetryThreshold <= 0 PROVE ~Counting
        BY <4>2, SizesAssumption DEF Counting
      <4>3. CASE HasInsulator /\ recorded' = recorded /\ Goto(w, IF RetryThreshold <= 0 THEN "route" ELSE "retry")
        BY <3>2, <3>4, <4>2, <4>3 DEF Goto
      <4> QED BY <3>3, <4>1, <4>3
    <3>6. CASE AttemptRecovery(w)
      <4>1. \/ cancelled /\ recorded' = recorded /\ Goto(w, "route")
            \/ recorded' = recorded /\ (Goto(w, "encode") \/ Goto(w, "emit") \/ wpc' = wpc)
            \/ RecordError(hand[w]) /\ Goto(w, "route")
        BY <3>6, Zenon DEF AttemptRecovery
      <4>2. CASE cancelled /\ recorded' = recorded /\ Goto(w, "route")
        <5>1. ~Counting
          BY <4>2, Zenon DEF Counting
        <5> QED BY <3>2, <3>4, <4>2, <5>1 DEF Goto
      <4>3. CASE recorded' = recorded /\ (Goto(w, "encode") \/ Goto(w, "emit"))
        BY <3>2, <3>4, <4>3 DEF Goto
      <4>4. CASE recorded' = recorded /\ wpc' = wpc
        BY <1>1, <2>1, <2>2, <3>1, <4>4
      <4> QED BY <3>3, <4>1, <4>2, <4>3, <4>4
    <3> QED BY <2>8, <3>5, <3>6
  <2>9. CASE Route(w)
    <3>1. wpc[w] \in FailedFor /\ recorded' = recorded
      BY <2>9 DEF Route, FailedFor
    <3>2. \/ FinishAt(w, "diverted", "select")
          \/ Goto(w, "report") /\ KeepsHand /\ UNCHANGED outcome
      BY <2>9, Zenon DEF Route, Finish
    <3>3. CASE FinishAt(w, "diverted", "select")
      BY <2>1, <2>2, <2>3, <3>1, <3>3, FinishKeepsRecords
    <3>4. CASE Goto(w, "report") /\ KeepsHand /\ UNCHANGED outcome
      <4>1. "report" \in Steps /\ "report" \notin Undecided
        BY DEF Steps, Undecided
      <4> QED BY <2>1, <2>2, <3>1, <3>4, <4>1, MoveKeepsRecords DEF Goto, KeepsHand
    <3> QED BY <3>2, <3>3, <3>4
  <2>10. CASE Report(w)
    <3>1. wpc[w] \in FailedFor /\ recorded' = recorded /\ FinishAt(w, "failed", "select")
      BY <2>10 DEF Report, FailedFor, Finish
    <3> QED BY <2>1, <2>2, <2>3, <3>1, FinishKeepsRecords
  <2>11. CASE Encode(w)
    <3>1. wpc[w] \in Undecided /\ UNCHANGED <<hand, outcome, recorded>> /\ wpc' = [wpc EXCEPT ![w] = "emit"]
      BY <2>11, Zenon DEF Encode, Undecided, Goto, KeepsHand
    <3>2. "emit" \in Steps /\ "emit" \notin FailedFor
      BY DEF Steps, FailedFor
    <3> QED BY <2>1, <2>2, <3>1, <3>2, MoveKeepsRecords
  <2>12. CASE Emit(w)
    <3>1. wpc[w] \in Undecided /\ recorded' = recorded
      BY <2>12 DEF Emit, Undecided
    <3>2. \E step \in {"select", "exited"} :
              FinishAt(w, "emitted", step) \/ FinishAt(w, "discarded", step)
      BY <2>12, Zenon DEF Emit, SendOutput, Finish
    <3> QED BY <2>1, <2>2, <2>3, <3>1, <3>2, FinishKeepsRecords
  <2> QED BY <1>3, <2>4, <2>5, <2>6, <2>7, <2>8, <2>9, <2>10, <2>11, <2>12 DEF WorkerStep
<1>4. ASSUME \/ \E e \in Elements : Submit(e) \/ SubmitNormally(e)
             \/ BreakerElsewhere \/ HandleErrorElements \/ Consume \/ UNCHANGED vars
      PROVE  UNCHANGED <<wpc, hand, outcome, recorded, phase, connected, cancelled>>
  BY <1>4, Zenon DEF Submit, SubmitNormally, BreakerElsewhere, HandleErrorElements, Consume, vars
<1>5. ASSUME NEW c \in Options, Connect(c) PROVE RecordInv'
  <2>1. UNCHANGED <<wpc, hand, outcome, recorded, phase>> /\ phase = "new"
    BY <1>5 DEF Connect
  <2>2. \A w \in Workers : wpc[w] \notin Undecided \cup FailedFor
    BY <2>1 DEF TypeOK, WorkersOK, Undecided, FailedFor
  <2>3. \A e \in Elements : outcome[e] = {}
    BY <2>1 DEF RecordInv
  <2>4. \A e \in Elements : Held(e)' <=> Held(e)
    BY <2>1 DEF Held
  <2> QED BY <2>1, <2>2, <2>3, <2>4 DEF RecordInv
<1>6. CASE Start
  <2>1. UNCHANGED <<hand, outcome, recorded, connected, cancelled>> /\ phase' = "started"
        /\ \A w \in Workers : wpc'[w] = "select"
    BY <1>6 DEF Start
  <2>2. \A e \in Elements : Held(e)' <=> Held(e)
    BY <2>1 DEF Held
  <2>3. "select" \notin Undecided /\ "select" \notin FailedFor
    BY DEF Undecided, FailedFor
  <2> QED BY <1>2, <2>1, <2>2, <2>3 DEF RecordInv
<1>7. CASE CancelParent \/ StopCancel \/ StopClose
  <2>1. UNCHANGED <<wpc, hand, outcome, recorded, connected>> /\ (phase' = "new" => phase = "new")
    BY <1>7 DEF CancelParent, StopCancel, StopClose
  <2>2. Counting' => Counting
    <3>1. UNCHANGED connected /\ (cancelled' = TRUE \/ cancelled' = cancelled)
      BY <1>7, Zenon DEF CancelParent, StopCancel, StopClose
    <3> QED BY <3>1, Zenon DEF Counting, HasBreaker, HasInsulator
  <2>3. \A e \in Elements : Held(e)' <=> Held(e)
    BY <2>1 DEF Held
  <2> QED BY <2>1, <2>2, <2>3 DEF RecordInv
<1> QED BY <1>1, <1>2, <1>3, <1>4, <1>5, <1>6, <1>7 DEF Next

\* Whatever is connected before Start and however many workers and retries there are, the
\* breaker has counted each failure exactly once before anybody sees it, and none of the
\* elements that were emitted.
THEOREM FailuresCounted == Spec => []FailuresRecorded
<1>1. Init => RecordInv
  BY DEF Init, RecordInv, Undecided, FailedFor, Held
<1>2. TypeOK /\ RecordInv => FailuresRecorded
  <2> SUFFICES ASSUME RecordInv, HasBreaker, HasInsulator => RetryThreshold > 0
               PROVE  \A e \in Elements :
                        /\ ~cancelled /\ outcome[e] \cap {"failed", "diverted"} # {} => recorded[e] = 1
                        /\ "emitted" \in outcome[e] => recorded[e] = 0
    BY DEF FailuresRecorded
  <2>1. ~cancelled => Counting
    BY Zenon DEF Counting
  <2> QED BY <2>1 DEF RecordInv
<1> QED BY <1>1, <1>2, RecordInvNext, TypeCorrect, PlacesCorrect, PTL DEF Spec

-----------------------------------------------------------------------------
(* Order. *)

\* How many of the accepted elements workers have taken.
Taken == Len(accepted) - Len(inChan)

\* What waits in inChan was accepted last; a single worker holds the one before it; and
\* what it has emitted was accepted earlier, in this order.
OrderInv ==
    /\ accepted \in Seq(Elements) /\ emitted \in Seq(Elements)
    /\ Len(inChan) <= Len(accepted)
    /\ \A i \in 1..Len(inChan) : inChan[i] = accepted[Taken + i]
    /\ \A w \in Workers : hand[w] # Nobody => Taken >= 1 /\ hand[w] = accepted[Taken]
    /\ \A i \in 1..Len(emitted) : \E k \in 1..Taken :
          accepted[k] = emitted[i] /\ \A w \in Workers : hand[w] # Nobody => k < Taken
    /\ \A i, j \in 1..Len(emitted) : i < j =>
          \E k, l \in 1..Len(accepted) : k < l /\ accepted[k] = emitted[i] /\ accepted[l] = emitted[j]

LEMMA SendKeepsOrder ==
    ASSUME TypeOK, OrderInv, NEW e \in Elements,
           inChan' = Append(inChan, e), accepted' = Append(accepted, e), UNCHANGED <<hand, emitted>>
    PROVE  OrderInv'
<1>1. /\ accepted \in Seq(Elements) /\ inChan \in Seq(Elements) /\ emitted \in Seq(Elements)
      /\ Len(accepted) \in Nat /\ Len(inChan) \in Nat /\ Len(emitted) \in Nat
      /\ accepted' \in Seq(Elements) /\ Len(accepted') = Len(accepted) + 1
      /\ accepted'[Len(accepted) + 1] = e /\ \A i \in 1..Len(accepted) : accepted'[i] = accepted[i]
      /\ Len(inChan') = Len(inChan) + 1 /\ inChan'[Len(inChan) + 1] = e
      /\ \A i \in 1..Len(inChan) : inChan'[i] = inChan[i]
  BY DEF OrderInv, TypeOK, ChannelsOK
<1>2. Taken' = Taken /\ Taken \in Nat /\ Taken <= Len(accepted) /\ Len(inChan') <= Len(accepted')
  BY <1>1 DEF Taken, OrderInv
<1>3. \A i \in 1..Len(inChan') : inChan'[i] = accepted'[Taken' + i]
  <2> SUFFICES ASSUME NEW i \in 1..Len(inChan') PROVE inChan'[i] = accepted'[Taken + i]
    BY <1>2
  <2>1. CASE i = Len(inChan) + 1
    <3>1. Taken + i = Len(accepted) + 1
      BY <1>1, <2>1 DEF Taken
    <3> QED BY <1>1, <2>1, <3>1
  <2>2. CASE i # Len(inChan) + 1
    <3>1. i \in 1..Len(inChan) /\ Taken + i \in 1..Len(accepted)
      BY <1>1, <1>2, <2>2 DEF Taken
    <3> QED BY <1>1, <3>1 DEF OrderInv
  <2> QED BY <2>1, <2>2
<1>4. \A w \in Workers : hand'[w] # Nobody => Taken' >= 1 /\ hand'[w] = accepted'[Taken']
  BY <1>1, <1>2 DEF OrderInv
<1>5. \A i \in 1..Len(emitted') : \E k \in 1..Taken' :
          accepted'[k] = emitted'[i] /\ \A w \in Workers : hand'[w] # Nobody => k < Taken'
  <2> SUFFICES ASSUME NEW i \in 1..Len(emitted)
               PROVE  \E k \in 1..Taken : accepted'[k] = emitted[i] /\ \A w \in Workers : hand[w] # Nobody => k < Taken
    BY <1>2
  <2>1. PICK k \in 1..Taken : accepted[k] = emitted[i] /\ \A w \in Workers : hand[w] # Nobody => k < Taken
    BY DEF OrderInv
  <2>2. k \in 1..Len(accepted)
    BY <1>1, <1>2
  <2> QED BY <1>1, <2>1, <2>2
<1>6. \A i, j \in 1..Len(emitted') : i < j =>
          \E k, l \in 1..Len(accepted') : k < l /\ accepted'[k] = emitted'[i] /\ accepted'[l] = emitted'[j]
  <2> SUFFICES ASSUME NEW i \in 1..Len(emitted), NEW j \in 1..Len(emitted), i < j
               PROVE  \E k, l \in 1..Len(accepted') : k < l /\ accepted'[k] = emitted[i] /\ accepted'[l] = emitted[j]
    BY <1>2
  <2>1. PICK k, l \in 1..Len(accepted) : k < l /\ accepted[k] = emitted[i] /\ accepted[l] = emitted[j]
    BY DEF OrderInv
  <2>2. k \in 1..Len(accepted') /\ l \in 1..Len(accepted')
    BY <1>1
  <2> QED BY <1>1, <2>1, <2>2
<1> QED BY <1>1, <1>2, <1>3, <1>4, <1>5, <1>6 DEF OrderInv

LEMMA TakeKeepsOrder ==
    ASSUME TypeOK, OrderInv, NEW w \in Workers, Workers = {w}, hand[w] = Nobody, inChan # <<>>,
           inChan' = Tail(inChan), hand' = [hand EXCEPT ![w] = Head(inChan)],
           UNCHANGED <<accepted, emitted>>
    PROVE  OrderInv'
<1>1. /\ accepted \in Seq(Elements) /\ inChan \in Seq(Elements) /\ emitted \in Seq(Elements)
      /\ Len(accepted) \in Nat /\ Len(inChan) \in Nat /\ Len(inChan) > 0
      /\ Len(inChan') = Len(inChan) - 1 /\ Head(inChan) = inChan[1]
      /\ \A i \in 1..Len(inChan') : inChan'[i] = inChan[i + 1]
      /\ hand'[w] = inChan[1] /\ Len(inChan) <= Len(accepted)
  BY DEF OrderInv, TypeOK, ChannelsOK, WorkersOK
<1>2. Taken \in Nat /\ Taken' = Taken + 1 /\ Len(inChan') <= Len(accepted')
  BY <1>1 DEF Taken
<1>3. \A i \in 1..Len(inChan') : inChan'[i] = accepted'[Taken' + i]
  <2> SUFFICES ASSUME NEW i \in 1..Len(inChan') PROVE inChan'[i] = accepted[Taken + 1 + i]
    BY <1>2
  <2>1. i + 1 \in 1..Len(inChan) /\ Taken + (i + 1) = Taken + 1 + i
    BY <1>1, <1>2
  <2>2. inChan[i + 1] = accepted[Taken + (i + 1)]
    BY <2>1 DEF OrderInv
  <2> QED BY <1>1, <2>1, <2>2
<1>4. hand'[w] = accepted'[Taken'] /\ Taken' >= 1
  <2>1. 1 \in 1..Len(inChan)
    BY <1>1
  <2>2. inChan[1] = accepted[Taken + 1]
    BY <2>1 DEF OrderInv
  <2> QED BY <1>1, <1>2, <2>2
<1>5. \A i \in 1..Len(emitted') : \E k \in 1..Taken' :
          accepted'[k] = emitted'[i] /\ \A v \in Workers : hand'[v] # Nobody => k < Taken'
  <2> SUFFICES ASSUME NEW i \in 1..Len(emitted)
               PROVE  \E k \in 1..Taken + 1 : accepted[k] = emitted[i] /\ k < Taken + 1
    BY <1>2
  <2>1. PICK k \in 1..Taken : accepted[k] = emitted[i]
    BY DEF OrderInv
  <2> QED BY <1>2, <2>1
<1>6. \A i, j \in 1..Len(emitted') : i < j =>
          \E k, l \in 1..Len(accepted') : k < l /\ accepted'[k] = emitted'[i] /\ accepted'[l] = emitted'[j]
  BY DEF OrderInv
<1> QED BY <1>1, <1>2, <1>3, <1>4, <1>5, <1>6 DEF OrderInv

\* The worker lets go of its element, and may have emitted it.
LEMMA FinishKeepsOrder ==
    ASSUME TypeOK, OrderInv, NEW w \in Workers, Workers = {w}, hand[w] \in Elements,
           hand' = [hand EXCEPT ![w] = Nobody], UNCHANGED <<inChan, accepted>>,
           emitted' = emitted \/ emitted' = Append(emitted, hand[w])
    PROVE  OrderInv'
<1>1. /\ accepted \in Seq(Elements) /\ inChan \in Seq(Elements) /\ emitted \in Seq(Elements)
      /\ Len(accepted) \in Nat /\ Len(inChan) \in Nat /\ Len(emitted) \in Nat
      /\ Taken \in Nat /\ Taken' = Taken /\ hand'[w] = Nobody
  BY DEF OrderInv, TypeOK, ChannelsOK, WorkersOK, Taken
<1>2. Taken >= 1 /\ hand[w] = accepted[Taken] /\ Taken <= Len(accepted) /\ hand[w] # Nobody
  BY <1>1, SetsAssumption DEF OrderInv, Taken
<1>3. \A i \in 1..Len(emitted) : \E k \in 1..Taken : accepted[k] = emitted[i] /\ k < Taken
  BY <1>2 DEF OrderInv
<1>4. CASE emitted' = emitted
  <2>1. \A i \in 1..Len(emitted') : \E k \in 1..Taken' :
            accepted'[k] = emitted'[i] /\ \A v \in Workers : hand'[v] # Nobody => k < Taken'
    BY <1>1, <1>3, <1>4
  <2>2. \A i \in 1..Len(inChan') : inChan'[i] = accepted'[Taken' + i]
    BY <1>1 DEF OrderInv
  <2>3. \A i, j \in 1..Len(emitted') : i < j =>
            \E k, l \in 1..Len(accepted') : k < l /\ accepted'[k] = emitted'[i] /\ accepted'[l] = emitted'[j]
    BY <1>4 DEF OrderInv
  <2>4. Len(inChan') <= Len(accepted')
    BY DEF OrderInv
  <2> QED BY <1>1, <1>4, <2>1, <2>2, <2>3, <2>4 DEF OrderInv
<1>5. CASE emitted' = Append(emitted, hand[w])
  <2>1. /\ emitted' \in Seq(Elements) /\ Len(emitted') = Len(emitted) + 1
        /\ emitted'[Len(emitted) + 1] = accepted[Taken]
        /\ \A i \in 1..Len(emitted) : emitted'[i] = emitted[i]
    BY <1>1, <1>2, <1>5
  <2>2. \A i \in 1..Len(emitted') : \E k \in 1..Taken : accepted[k] = emitted'[i]
    <3> SUFFICES ASSUME NEW i \in 1..Len(emitted') PROVE \E k \in 1..Taken : accepted[k] = emitted'[i]
      OBVIOUS
    <3>1. CASE i = Len(emitted) + 1
      <4>1. Taken \in 1..Taken
        BY <1>1, <1>2
      <4> QED BY <2>1, <3>1, <4>1
    <3>2. CASE i # Len(emitted) + 1
      <4>1. i \in 1..Len(emitted)
        BY <1>1, <2>1, <3>2
      <4> QED BY <1>3, <2>1, <4>1
    <3> QED BY <3>1, <3>2
  <2>3. \A i, j \in 1..Len(emitted') : i < j =>
            \E k, l \in 1..Len(accepted) : k < l /\ accepted[k] = emitted'[i] /\ accepted[l] = emitted'[j]
    <3> SUFFICES ASSUME NEW i \in 1..Len(emitted'), NEW j \in 1..Len(emitted'), i < j
                 PROVE  \E k, l \in 1..Len(accepted) : k < l /\ accepted[k] = emitted'[i] /\ accepted[l] = emitted'[j]
      OBVIOUS
    <3>1. i \in 1..Len(emitted)
      BY <1>1, <2>1
    <3>2. CASE j = Len(emitted) + 1
      <4>1. PICK k \in 1..Taken : accepted[k] = emitted[i] /\ k < Taken
        BY <1>3, <3>1
      <4>2. k \in 1..Len(accepted) /\ Taken \in 1..Len(accepted)
        BY <1>1, <1>2, <4>1
      <4> QED BY <2>1, <3>1, <3>2, <4>1, <4>2
    <3>3. CASE j # Len(emitted) + 1
      <4>1. j \in 1..Len(emitted)
        BY <1>1, <2>1, <3>3
      <4>2. PICK k, l \in 1..Len(accepted) : k < l /\ accepted[k] = emitted[i] /\ accepted[l] = emitted[j]
        BY <3>1, <4>1 DEF OrderInv
      <4> QED BY <2>1, <3>1, <4>1, <4>2
    <3> QED BY <3>2, <3>3
  <2> QED BY <1>1, <2>1, <2>2, <2>3 DEF OrderInv
<1> QED BY <1>4, <1>5

LEMMA OrderInvNext ==
    ASSUME NEW w \in Workers, Workers = {w}, TypeOK, OrderInv, [Next]_vars
    PROVE  OrderInv'
<1> USE DEF config, channels, worker, history, Outside
<1>1. ASSUME UNCHANGED <<inChan, accepted, hand, emitted>> PROVE OrderInv'
  BY <1>1 DEF OrderInv, Taken
<1>2. ASSUME NEW e \in Elements, SubmitNormally(e) PROVE OrderInv'
  <2>1. UNCHANGED <<hand, emitted>> /\
        \/ inChan' = Append(inChan, e) /\ accepted' = Append(accepted, e)
        \/ UNCHANGED <<inChan, accepted>>
    BY <1>2, Zenon DEF SubmitNormally
  <2> QED BY <1>1, <2>1, SendKeepsOrder
<1>3. CASE WorkerStep(w)
  <2>1. accepted' = accepted
    BY <1>3, Zenon DEF WorkerStep, WorkerExit, Take, CheckContext, Transform,
        HandleProcessingError, AttemptRecovery, Route, Report, Encode, Emit
  <2>2. ASSUME wpc[w] \notin {"off", "select", "exited"} PROVE hand[w] \in Elements
    BY <2>2 DEF TypeOK, WorkersOK
  <2>3. CASE WorkerExit(w) \/ Transform(w) \/ HandleProcessingError(w) \/ AttemptRecovery(w) \/ Encode(w)
    BY <1>1, <2>1, <2>3, Zenon DEF WorkerExit, Transform, HandleProcessingError, AttemptRecovery,
        Encode, KeepsHand
  <2>4. CASE Take(w)
    <3>1. hand[w] = Nobody
      BY <2>4 DEF Take, TypeOK, WorkersOK
    <3> QED BY <2>1, <2>4, <3>1, TakeKeepsOrder DEF Take
  <2>5. CASE CheckContext(w) \/ Route(w) \/ Report(w) \/ Emit(w)
    <3>1. hand[w] \in Elements
      BY <2>2, <2>5 DEF CheckContext, Route, Report, Emit
    <3>2. inChan' = inChan
      BY <2>5, Zenon DEF CheckContext, Route, Report, Emit
    <3>3. \/ hand' = hand /\ emitted' = emitted
          \/ hand' = [hand EXCEPT ![w] = Nobody] /\ (emitted' = emitted \/ emitted' = Append(emitted, hand[w]))
      BY <2>5, Zenon DEF CheckContext, Route, Report, Emit, SendOutput, Finish, FinishAt, KeepsHand
    <3> QED BY <1>1, <2>1, <3>1, <3>2, <3>3, FinishKeepsOrder
  <2> QED BY <1>3, <2>3, <2>4, <2>5 DEF WorkerStep
<1>4. ASSUME \/ \E e \in Elements : Submit(e)
             \/ BreakerElsewhere \/ HandleErrorElements \/ Consume
             \/ \E c \in Options : Connect(c)
             \/ Start \/ CancelParent \/ StopCancel \/ StopClose \/ UNCHANGED vars
      PROVE  UNCHANGED <<inChan, accepted, hand, emitted>>
  BY <1>4, Zenon DEF Submit, BreakerElsewhere, HandleErrorElements, Consume, Connect, Start,
      CancelParent, StopCancel, StopClose, vars
<1> QED BY <1>1, <1>2, <1>3, <1>4 DEF Next

\* A single worker emits elements in the order in which Submit put them into inChan,
\* whatever fails, is retried or is diverted in between.
THEOREM OrderKept == Spec => []OrderPreserved
<1>1. CASE Cardinality(Workers) = 1
  <2>1. PICK w : Workers = {w}
    BY <1>1, SetsAssumption, FS_Singleton
  <2>2. w \in Workers
    BY <2>1
  <2>3. Init => OrderInv
    BY DEF Init, OrderInv, Taken
  <2>4. TypeOK /\ OrderInv /\ [Next]_vars => OrderInv'
    BY <2>1, <2>2, OrderInvNext
  <2>5. OrderInv => OrderPreserved
    <3> SUFFICES ASSUME OrderInv PROVE OrderPreserved
      OBVIOUS
    <3>1. DOMAIN emitted = 1..Len(emitted) /\ DOMAIN accepted = 1..Len(accepted)
      BY DEF OrderInv
    <3>2. ASSUME NEW i \in 1..Len(emitted), NEW j \in 1..Len(emitted), i < j
          PROVE  \E k, l \in DOMAIN accepted : k < l /\ accepted[k] = emitted[i] /\ accepted[l] = emitted[j]
      <4>1. PICK k, l \in 1..Len(accepted) : k < l /\ accepted[k] = emitted[i] /\ accepted[l] = emitted[j]
        BY <3>2 DEF OrderInv
      <4> QED BY <3>1, <4>1
    <3> QED BY <3>1, <3>2 DEF OrderPreserved
  <2> QED BY <2>3, <2>4, <2>5, TypeCorrect, PTL DEF Spec
<1>2. CASE Cardinality(Workers) # 1
  <2>1. OrderPreserved
    BY <1>2 DEF OrderPreserved
  <2> QED BY <2>1, PTL
<1> QED BY <1>1, <1>2
=============================================================================
