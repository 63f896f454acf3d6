-------------------------------- MODULE Wire --------------------------------
(***************************************************************************)
(* pkg/internal/wire: one wire from construction to the end of its first   *)
(* Stop. Optional components are connected, goroutines call Submit, a pool *)
(* of workers takes elements from inChan, transforms them, retries         *)
(* failures through the insulator, and emits them, reports them or diverts *)
(* them to the neutral wires of the circuit breaker, while Stop cancels    *)
(* the wire's context, waits for the workers and closes the channels. The  *)
(* context the wire was built with may be cancelled without Stop.          *)
(*                                                                         *)
(* An element stands for one Submit call. What a transform computes is     *)
(* reduced to whether it fails. The circuit breaker is reduced to whether  *)
(* it is open: errors may open it and Allow may close it (CircuitBreaker   *)
(* says when), and other users of it may do either. Repeated Start, Stop   *)
(* and Restart calls are the subject of WireLifecycle, the surge protector *)
(* of SurgeWire.                                                           *)
(***************************************************************************)
EXTENDS Integers, Sequences, FiniteSets

CONSTANTS
    Elements,         \* elements that may be submitted, one Submit call each
    Workers,          \* the worker goroutines, maxConcurrency of them
    Capacity,         \* maxBufferSize: capacity of inChan, OutputChan and errorChan
    Transforms,       \* number of connected transforms
    Options,          \* the optional components that may be connected before Start
    RetryThreshold,   \* the insulator's
    NeutralWires,     \* the circuit breaker's
    Nobody            \* no element: what an idle worker holds

ASSUME SetsAssumption ==
    /\ IsFiniteSet(Elements) /\ IsFiniteSet(Workers) /\ IsFiniteSet(NeutralWires)
    /\ Workers # {}
    /\ Nobody \notin Elements
ASSUME SizesAssumption ==
    /\ Capacity \in Nat \ {0}
    /\ Transforms \in Nat
    /\ RetryThreshold \in Int
ASSUME ConfigAssumption ==
    /\ Options \subseteq {"factory", "insulator", "breaker", "encoder", "telemetry"}
    /\ "factory" \in Options => Transforms = 0   \* SetTransformerFactory refuses both

VARIABLES
    connected,    \* the optional components the wire has
    phase,        \* "new", "started", "stopping" (Stop waits), "stopped"
    cancelled,    \* w.ctx is done
    inChan, outputChan, errorChan,
    breakerOpen,
    spc,          \* where the Submit call of each element is
    wpc, hand,    \* each worker: where it is and the element it holds
    attempt,      \* each worker's attempt in the insulator loop
    epc,          \* the handleErrorElements goroutine
    outcome,      \* history: what has become of each element, a set
    recorded,     \* history: RecordError calls made for each element
    encoded,      \* elements written to OutputBuffer
    neutral,      \* elements each neutral wire has accepted
    accepted,     \* history: the elements in the order inChan took them
    emitted,      \* history: the elements in output order
    panicked      \* a goroutine sent on a closed channel

channels == <<inChan, outputChan, errorChan>>
worker == <<wpc, hand, attempt>>
history == <<outcome, recorded, encoded, neutral, emitted, panicked>>
config == <<connected, cancelled>>
vars == <<phase, config, channels, breakerOpen, spc, worker, epc, history, accepted>>

HasFactory == "factory" \in connected          \* a transformerFactory is set
HasInsulator == "insulator" \in connected
HasBreaker == "breaker" \in connected
HasEncoder == "encoder" \in connected
HasTelemetry == "telemetry" \in connected      \* a logger or a sensor

\* Start's default: a wire without transforms passes elements through.
TransformChain == IF ~HasFactory /\ Transforms = 0 THEN 1 ELSE Transforms

FastPath ==
    /\ ~HasBreaker /\ ~HasInsulator /\ ~HasEncoder /\ ~HasTelemetry
    /\ HasFactory \/ TransformChain = 1

\* The fast worker calls the factory's transformer; the standard worker runs
\* w.transformations, which is empty when a factory is set.
Applied == IF FastPath THEN 1 ELSE TransformChain

Init ==
    /\ connected = {}
    /\ phase = "new"
    /\ cancelled = FALSE
    /\ inChan = <<>> /\ outputChan = <<>> /\ errorChan = <<>>
    /\ breakerOpen = FALSE
    /\ spc = [e \in Elements |-> "new"]
    /\ wpc = [w \in Workers |-> "off"]
    /\ hand = [w \in Workers |-> Nobody]
    /\ attempt = [w \in Workers |-> 0]
    /\ epc = "off"
    /\ outcome = [e \in Elements |-> {}]
    /\ recorded = [e \in Elements |-> 0]
    /\ encoded = {}
    /\ neutral = [n \in NeutralWires |-> {}]
    /\ accepted = <<>>
    /\ emitted = <<>>
    /\ panicked = FALSE

-----------------------------------------------------------------------------
\* Connect and Set calls: they panic once the wire has been started.
Connect(c) ==
    /\ phase = "new" /\ c \notin connected
    /\ connected' = connected \cup {c}
    /\ UNCHANGED <<phase, cancelled, channels, breakerOpen, spc, worker, epc, history, accepted>>

-----------------------------------------------------------------------------
(* Submitting goroutines                                                   *)

\* The breaker answers Allow: TRUE when closed or when the call closes it.
Allow(answer) ==
    \/ answer /\ breakerOpen' = FALSE
    \/ ~answer /\ HasBreaker /\ breakerOpen /\ UNCHANGED breakerOpen

\* RecordError on behalf of e; the error may be the one that trips it.
RecordError(e) ==
    IF HasBreaker
    THEN /\ recorded' = [recorded EXCEPT ![e] = @ + 1]
         /\ breakerOpen' \in {breakerOpen, TRUE}
    ELSE UNCHANGED <<recorded, breakerOpen>>

\* e is offered to every neutral wire; any of them may refuse it.
SubmitToNeutralWires(e) ==
    \E takers \in SUBSET NeutralWires :
        neutral' = [n \in NeutralWires |-> IF n \in takers THEN neutral[n] \cup {e}
                                                          ELSE neutral[n]]

\* Submit asks the breaker; a call it refuses is diverted or dropped, and
\* still returns nil (handleCircuitBreakerTrip).
Submit(e) ==
    /\ spc[e] = "new"
    /\ \/ /\ Allow(TRUE)
          /\ spc' = [spc EXCEPT ![e] = "sending"]
          /\ UNCHANGED history
       \/ /\ Allow(FALSE)
          /\ spc' = [spc EXCEPT ![e] = "tripped"]
          /\ SubmitToNeutralWires(e)
          /\ UNCHANGED <<outcome, recorded, encoded, emitted, panicked>>
    /\ UNCHANGED <<phase, config, channels, worker, epc, accepted>>

\* submitNormally: the send, the caller's context or the wire's context.
SubmitNormally(e) ==
    /\ spc[e] = "sending"
    /\ \/ /\ Len(inChan) < Capacity
          /\ inChan' = Append(inChan, e)
          /\ accepted' = Append(accepted, e)
          /\ spc' = [spc EXCEPT ![e] = "accepted"]
       \/ /\ spc' = [spc EXCEPT ![e] = "refused"]     \* caller's ctx or w.ctx is done
          /\ UNCHANGED <<inChan, accepted>>
    /\ UNCHANGED <<phase, config, outputChan, errorChan, breakerOpen, worker, epc, history>>

\* Somebody else uses the shared breaker, or the wire's ticker polls Allow.
BreakerElsewhere ==
    /\ HasBreaker
    /\ breakerOpen' = ~breakerOpen
    /\ UNCHANGED <<phase, config, channels, spc, worker, epc, history, accepted>>

-----------------------------------------------------------------------------
(* Workers                                                                 *)

Goto(w, step) == wpc' = [wpc EXCEPT ![w] = step]
KeepsHand == UNCHANGED <<hand, attempt>>
Outside == <<phase, config, spc, accepted>>

\* The worker's select: its context is done.
WorkerExit(w) ==
    /\ wpc[w] = "select" /\ cancelled
    /\ Goto(w, "exited") /\ KeepsHand
    /\ UNCHANGED <<Outside, channels, breakerOpen, epc, history>>

MutTakeNewest(w) ==
    /\ wpc[w] = "select" /\ inChan # <<>>
    /\ inChan' = SubSeq(inChan, 1, Len(inChan) - 1)
    /\ hand' = [hand EXCEPT ![w] = inChan[Len(inChan)]]
    /\ Goto(w, IF FastPath THEN "transform" ELSE "check")
    /\ UNCHANGED <<Outside, outputChan, errorChan, breakerOpen, attempt, epc, history>>

\* The worker's select: it receives an element, even if the context is done.
Take(w) ==
    /\ wpc[w] = "select" /\ inChan # <<>>
    /\ inChan' = Tail(inChan)
    /\ hand' = [hand EXCEPT ![w] = Head(inChan)]
    /\ Goto(w, IF FastPath THEN "transform" ELSE "check")
    /\ UNCHANGED <<Outside, outputChan, errorChan, breakerOpen, attempt, epc, history>>

\* The worker is done with its element, which ends as `how`, and goes on.
FinishAt(w, how, step) ==
    /\ outcome' = [outcome EXCEPT ![hand[w]] = @ \cup {how}]
    /\ hand' = [hand EXCEPT ![w] = Nobody]
    /\ UNCHANGED attempt
    /\ Goto(w, step)
Finish(w, how) == FinishAt(w, how, "select")

\* handleElement returns at once when the context is done.
CheckContext(w) ==
    /\ wpc[w] = "check"
    /\ \/ cancelled /\ Finish(w, "discarded")
       \/ ~cancelled /\ Goto(w, "transform") /\ KeepsHand /\ UNCHANGED outcome
    /\ UNCHANGED <<Outside, channels, breakerOpen, epc, recorded, encoded, neutral, emitted, panicked>>

\* transformElement, or the fast worker's transform: each may fail, except
\* that the standard worker of a wire with a factory has nothing to run.
Transform(w) ==
    /\ wpc[w] = "transform"
    /\ \/ Goto(w, IF HasEncoder THEN "encode" ELSE "emit")
       \/ Applied > 0 /\ Goto(w, IF FastPath THEN "report" ELSE "failed")
    /\ KeepsHand
    /\ UNCHANGED <<Outside, channels, breakerOpen, epc, history>>

\* handleProcessingError: to the insulator if there is one and the breaker
\* allows it, otherwise the error is recorded.
HandleProcessingError(w) ==
    /\ wpc[w] = "failed"
    /\ \/ /\ HasInsulator /\ Allow(TRUE)
          /\ Goto(w, IF RetryThreshold <= 0 THEN "route" ELSE "retry")
          /\ attempt' = [attempt EXCEPT ![w] = 1]
          /\ UNCHANGED recorded
       \/ /\ ~HasInsulator
          /\ RecordError(hand[w])
          /\ Goto(w, "route")
          /\ UNCHANGED attempt
       \/ /\ HasInsulator /\ HasBreaker /\ breakerOpen
          /\ RecordError(hand[w])
          /\ Goto(w, "route")
          /\ UNCHANGED attempt
    /\ UNCHANGED <<Outside, channels, hand, epc, outcome, encoded, neutral, emitted, panicked>>

MutForgetLastFailure(w) ==
    /\ wpc[w] = "retry"
    /\ \/ /\ attempt[w] = RetryThreshold \/ cancelled
          /\ Goto(w, "route") /\ UNCHANGED attempt
       \/ /\ attempt[w] < RetryThreshold
          /\ attempt' = [attempt EXCEPT ![w] = @ + 1] /\ UNCHANGED wpc
    /\ UNCHANGED <<recorded, breakerOpen>>
    /\ UNCHANGED <<Outside, channels, hand, epc, outcome, encoded, neutral, emitted, panicked>>

\* One iteration of attemptRecovery: give up when the context is done,
\* recover, fail for the last time, or fail and wait for the next attempt.
AttemptRecovery(w) ==
    /\ wpc[w] = "retry"
    /\ \/ cancelled /\ Goto(w, "route") /\ UNCHANGED <<attempt, recorded, breakerOpen>>
       \/ /\ ~cancelled
          /\ Goto(w, IF HasEncoder THEN "encode" ELSE "emit")
          /\ UNCHANGED <<attempt, recorded, breakerOpen>>
       \/ /\ ~cancelled /\ attempt[w] = RetryThreshold
          /\ RecordError(hand[w])
          /\ Goto(w, "route")
          /\ UNCHANGED attempt
       \/ /\ ~cancelled /\ attempt[w] < RetryThreshold
          /\ attempt' = [attempt EXCEPT ![w] = @ + 1]
          /\ UNCHANGED <<wpc, recorded, breakerOpen>>
    /\ UNCHANGED <<Outside, channels, hand, epc, outcome, encoded, neutral, emitted, panicked>>

MutDivertAndReport(w) ==
    /\ wpc[w] = "route"
    /\ \/ /\ HasBreaker /\ Allow(FALSE) /\ NeutralWires # {}
          /\ SubmitToNeutralWires(hand[w])
          /\ outcome' = [outcome EXCEPT ![hand[w]] = @ \cup {"diverted"}]
       \/ Allow(TRUE) /\ UNCHANGED <<outcome, neutral>>
    /\ Goto(w, "report") /\ KeepsHand
    /\ UNCHANGED <<Outside, channels, epc, recorded, encoded, emitted, panicked>>

\* shouldDivertError and divertToGroundWires: an element that failed while
\* the breaker refuses work goes to the neutral wires, if there are any.
Route(w) ==
    /\ wpc[w] = "route"
    /\ \/ /\ HasBreaker /\ Allow(FALSE) /\ NeutralWires # {}
          /\ SubmitToNeutralWires(hand[w])
          /\ Finish(w, "diverted")
       \/ /\ HasBreaker /\ Allow(FALSE) /\ NeutralWires = {}
          /\ Goto(w, "report") /\ KeepsHand /\ UNCHANGED <<outcome, neutral>>
       \/ /\ Allow(TRUE)
          /\ Goto(w, "report") /\ KeepsHand /\ UNCHANGED <<outcome, neutral>>
    /\ UNCHANGED <<Outside, channels, epc, recorded, encoded, emitted, panicked>>

\* handleError: a non-blocking send, dropped when the channel is full.
HandleError(e) ==
    /\ errorChan' = IF Len(errorChan) < Capacity THEN Append(errorChan, e) ELSE errorChan
    /\ panicked' = (panicked \/ phase = "stopped")

MutWorkerDiesOnError(w) ==
    /\ wpc[w] = "report"
    /\ HandleError(hand[w])
    /\ outcome' = [outcome EXCEPT ![hand[w]] = @ \cup {"failed"}]
    /\ Goto(w, "exited") /\ hand' = [hand EXCEPT ![w] = Nobody]
    /\ UNCHANGED <<attempt, Outside, inChan, outputChan, breakerOpen, epc, recorded, encoded, neutral, emitted>>

Report(w) ==
    /\ wpc[w] = "report"
    /\ HandleError(hand[w])
    /\ Finish(w, "failed")
    /\ UNCHANGED <<Outside, inChan, outputChan, breakerOpen, epc, recorded, encoded, neutral, emitted>>

\* encodeElement: an encoder error is reported, and the element is emitted.
Encode(w) ==
    /\ wpc[w] = "encode"
    /\ \/ /\ encoded' = encoded \cup {hand[w]}
          /\ UNCHANGED <<errorChan, panicked>>
       \/ /\ HandleError(hand[w])
          /\ UNCHANGED encoded
    /\ Goto(w, "emit") /\ KeepsHand
    /\ UNCHANGED <<Outside, inChan, outputChan, breakerOpen, epc, outcome, recorded, neutral, emitted>>

SendOutput(w) ==
    /\ Len(outputChan) < Capacity
    /\ outputChan' = Append(outputChan, hand[w])
    /\ emitted' = Append(emitted, hand[w])
    /\ panicked' = (panicked \/ phase = "stopped")
    /\ Finish(w, "emitted")

MutEmitOrDrop(w) ==
    /\ wpc[w] = "emit"
    /\ \/ SendOutput(w)
       \/ /\ Len(outputChan) = Capacity
          /\ Finish(w, "discarded")
          /\ UNCHANGED <<outputChan, emitted, panicked>>
    /\ UNCHANGED <<Outside, inChan, errorChan, breakerOpen, epc, recorded, encoded, neutral>>

MutEmitBlocking(w) ==
    /\ wpc[w] = "emit"
    /\ SendOutput(w)
    /\ UNCHANGED <<Outside, inChan, errorChan, breakerOpen, epc, recorded, encoded, neutral>>

\* The send on OutputChan, or the wire's context, on which the fast worker
\* returns.
Emit(w) ==
    /\ wpc[w] = "emit"
    /\ \/ SendOutput(w)
       \/ /\ cancelled
          /\ FinishAt(w, "discarded", IF FastPath THEN "exited" ELSE "select")
          /\ UNCHANGED <<outputChan, emitted, panicked>>
    /\ UNCHANGED <<Outside, inChan, errorChan, breakerOpen, epc, recorded, encoded, neutral>>

WorkerStep(w) ==
    \/ WorkerExit(w) \/ Take(w) \/ CheckContext(w) \/ Transform(w)
    \/ HandleProcessingError(w) \/ AttemptRecovery(w) \/ Route(w)
    \/ Report(w) \/ Encode(w) \/ Emit(w)

-----------------------------------------------------------------------------
(* The error goroutine, the consumer and the lifecycle                     *)

\* handleErrorElements passes errors to the telemetry until it is cancelled.
HandleErrorElements ==
    /\ epc = "select"
    /\ \/ /\ errorChan # <<>>
          /\ errorChan' = Tail(errorChan)
          /\ UNCHANGED epc
       \/ /\ cancelled
          /\ epc' = "exited"
          /\ UNCHANGED errorChan
    /\ UNCHANGED <<Outside, inChan, outputChan, breakerOpen, worker, history>>

\* A reader of GetOutputChannel, before or after it is closed.
Consume ==
    /\ outputChan # <<>>
    /\ outputChan' = Tail(outputChan)
    /\ UNCHANGED <<Outside, inChan, errorChan, breakerOpen, worker, epc, history>>

Start ==
    /\ phase = "new"
    /\ phase' = "started"
    /\ wpc' = [w \in Workers |-> "select"]
    /\ epc' = "select"
    /\ UNCHANGED <<config, channels, breakerOpen, spc, hand, attempt, history, accepted>>

\* The context given to NewWire is cancelled, on which w.ctx depends.
CancelParent ==
    /\ ~cancelled
    /\ cancelled' = TRUE
    /\ UNCHANGED <<phase, connected, channels, breakerOpen, spc, worker, epc, history, accepted>>

StopCancel ==
    /\ phase = "started"
    /\ phase' = "stopping"
    /\ cancelled' = TRUE
    /\ UNCHANGED <<connected, channels, breakerOpen, spc, worker, epc, history, accepted>>

MutCloseWithoutWaiting ==
    /\ phase = "stopping"
    /\ phase' = "stopped"
    /\ UNCHANGED <<config, channels, breakerOpen, spc, worker, epc, history, accepted>>

\* wg.Wait() returns: every goroutine has exited, the channels are closed.
StopClose ==
    /\ phase = "stopping"
    /\ epc = "exited" /\ \A w \in Workers : wpc[w] = "exited"
    /\ phase' = "stopped"
    /\ UNCHANGED <<config, channels, breakerOpen, spc, worker, epc, history, accepted>>

Next ==
    \/ \E e \in Elements : Submit(e) \/ SubmitNormally(e)
    \/ BreakerElsewhere
    \/ \E w \in Workers : WorkerStep(w)
    \/ HandleErrorElements
    \/ Consume
    \/ \E c \in Options : Connect(c)
    \/ Start \/ CancelParent \/ StopCancel \/ StopClose

Spec == Init /\ [][Next]_vars

\* The Go scheduler runs every runnable goroutine and a select with a ready
\* case does not wait. Nobody is obliged to read the output.
Fairness ==
    /\ \A w \in Workers : WF_vars(WorkerStep(w))
    /\ WF_vars(HandleErrorElements)
    /\ WF_vars(StopClose)
FairSpec == Spec /\ Fairness

-----------------------------------------------------------------------------
Steps == {"off", "select", "check", "transform", "failed", "retry", "route",
          "report", "encode", "emit", "exited"}
Outcomes == {"emitted", "failed", "diverted", "discarded"}

\* The channels stay within their capacity.
ChannelsOK ==
    /\ inChan \in Seq(Elements) /\ Len(inChan) <= Capacity
    /\ outputChan \in Seq(Elements) /\ Len(outputChan) <= Capacity
    /\ errorChan \in Seq(Elements) /\ Len(errorChan) <= Capacity

\* A worker holds an element exactly while it is processing one, and there
\* are none before Start.
WorkersOK ==
    /\ \A w \in Workers : phase = "new" <=> wpc[w] = "off"
    /\ wpc \in [Workers -> Steps]
    /\ hand \in [Workers -> Elements \cup {Nobody}]
    /\ \A w \in Workers : hand[w] = Nobody <=> wpc[w] \in {"off", "select", "exited"}
    /\ attempt \in [Workers -> Nat]

ControlOK ==
    /\ connected \subseteq Options
    /\ phase \in {"new", "started", "stopping", "stopped"} /\ cancelled \in BOOLEAN
    /\ breakerOpen \in BOOLEAN
    /\ spc \in [Elements -> {"new", "sending", "tripped", "accepted", "refused"}]
    /\ epc \in {"off", "select", "exited"}

HistoryOK ==
    /\ outcome \in [Elements -> SUBSET Outcomes]
    /\ recorded \in [Elements -> Nat]
    /\ encoded \subseteq Elements
    /\ neutral \in [NeutralWires -> SUBSET Elements]
    /\ panicked \in BOOLEAN

\* The fields are typed, no channel exceeds its capacity, and workers and
\* their elements correspond.
TypeOK == ControlOK /\ ChannelsOK /\ WorkersOK /\ HistoryOK

Occurrences(s, e) == Cardinality({i \in DOMAIN s : s[i] = e})

\* No element is duplicated or vanishes between the select of Submit and its
\* end: one that was accepted is in inChan once, or in one worker's hands, or
\* has exactly one outcome; one that was not accepted is nowhere.
Conservation ==
    \A e \in Elements :
        Occurrences(inChan, e) + Cardinality({w \in Workers : hand[w] = e})
            + Cardinality(outcome[e])
        = IF spc[e] = "accepted" THEN 1 ELSE 0

\* The same, place by place, which is inductive (WireProofs).
Queued(e) == \E i \in 1..Len(inChan) : inChan[i] = e
Held(e) == \E w \in Workers : hand[w] = e
OnePlace ==
    /\ \A i, j \in 1..Len(inChan) : inChan[i] = inChan[j] => i = j
    /\ \A w, v \in Workers : hand[w] = hand[v] /\ hand[w] # Nobody => w = v
    /\ \A e \in Elements :
        /\ ~(Queued(e) /\ Held(e))
        /\ Queued(e) \/ Held(e) => outcome[e] = {}
        /\ spc[e] = "accepted" <=> Queued(e) \/ Held(e) \/ outcome[e] # {}
        /\ \A one, other \in outcome[e] : one = other

\* Closing OutputChan and errorChan after wg.Wait never makes a worker panic.
NoSendOnClosedChannel == ~panicked

\* The breaker counts every failure once, before anybody can see it: an
\* element that ends as failed or diverted on a running wire was recorded,
\* after all its retries, exactly once, and a recovered one never.
FailuresRecorded ==
    HasBreaker /\ (HasInsulator => RetryThreshold > 0) =>
        \A e \in Elements :
            /\ ~cancelled /\ outcome[e] \cap {"failed", "diverted"} # {}
                    => recorded[e] = 1
            /\ "emitted" \in outcome[e] => recorded[e] = 0

\* A single worker keeps the order of submission.
OrderPreserved ==
    Cardinality(Workers) = 1 =>
        \A i, j \in DOMAIN emitted : i < j =>
            \E k, l \in DOMAIN accepted :
                k < l /\ accepted[k] = emitted[i] /\ accepted[l] = emitted[j]

\* Every element a wire accepts is eventually emitted, failed or diverted,
\* provided the wire is started, its output is read and nobody stops it.
AcceptedSettles ==
    WF_vars(Consume) /\ WF_vars(Start) =>
        \A e \in Elements : spc[e] = "accepted" ~> (outcome[e] # {} \/ cancelled)

\* Stop returns, even when nobody reads the output and the error channel and
\* every buffer are full: no goroutine it waits for can be stuck.
StopReturns == phase = "stopping" ~> phase = "stopped"

-----------------------------------------------------------------------------
(* What the wire promises, see Pipeline.                                   *)
FateOf(ends) == IF ends = {} THEN "none" ELSE CHOOSE how \in Outcomes : how \in ends
Settled == [e \in Elements |-> FateOf(outcome[e])]
Unsettled == {e \in Elements : spc[e] = "accepted" /\ outcome[e] = {}}
Promise == INSTANCE Pipeline WITH running <- ~cancelled, inside <- Unsettled, fate <- Settled
ImplementsPipeline == Promise!Spec
=============================================================================
