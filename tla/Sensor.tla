------------------------------- MODULE Sensor -------------------------------
(* A sensor: one list of callbacks per event, extended by Register and       *)
(* called by Invoke, and the callbacks NewSensor adds of its own, which move *)
(* the counters of a meter.                                                  *)
(*                                                                           *)
(* InvokeOnX passes s.OnX to snapshotCallbacks as an argument: the slice     *)
(* header is read before callbackLock is taken. A header is a pointer and a  *)
(* length, which Register stores one after the other; the reader may see one *)
(* old and one new. A callback stands for its place in the list: append      *)
(* copies, so cell n of every array of one list holds the same callback.     *)
EXTENDS Integers, FiniteSets

CONSTANTS
    Emitters,       \* goroutines whose components report events, one after the other
    Registrars,     \* goroutines that register a callback at run time
    Parts,          \* wires and generators that start and stop
    Wires,          \* those whose metadata has the type "WIRE"
    MaxReports,     \* bound: events per emitter
    CountRange      \* the counters are uint64: arithmetic is modulo this

\* The lists of a Sensor, by the file that registers and invokes them.
WireEvents == {"Cancel", "Submit", "Complete", "ElementProcessed", "Error", "Start",
               "Terminate", "InsulatorAttempt"}
InsulatorEvents == {"InsulatorSuccess", "InsulatorFailure"}
HttpEvents == {"HTTPClientRequestStart", "HTTPClientResponseReceived",
               "HTTPClientError", "HTTPClientRequestComplete"}
SurgeEvents == {"SurgeProtectorTrip", "SurgeProtectorReset", "SurgeProtectorBackupFailure",
                "SurgeProtectorRateLimitExceeded", "SurgeProtectorBackupWireSubmit"}
SurgeSubmitEvents == {"SurgeProtectorSubmit", "SurgeProtectorDrop", "SurgeProtectorReleaseToken",
                      "SurgeProtectorConnectResister", "SurgeProtectorDetachedBackups"}
ResisterEvents == {"ResisterDequeued", "ResisterQueued", "ResisterRequeued", "ResisterEmpty"}
BreakerEvents == {"CircuitBreakerTrip", "CircuitBreakerReset", "CircuitBreakerNeutralWireSubmission",
                  "CircuitBreakerRecordError", "CircuitBreakerAllow", "CircuitBreakerDrop"}
S3WriterEvents == {"S3WriterStart", "S3WriterStop", "S3KeyRendered", "S3PutAttempt",
                   "S3PutSuccess", "S3PutError", "S3ParquetRollFlush"}
S3ReaderEvents == {"S3ReaderListStart", "S3ReaderListPage", "S3ReaderObject", "S3ReaderDecode",
                   "S3ReaderSpillToDisk", "S3ReaderComplete", "S3BillingSample"}
KafkaWriterEvents == {"KafkaWriterStart", "KafkaWriterStop", "KafkaProduceAttempt",
                      "KafkaProduceSuccess", "KafkaProduceError", "KafkaBatchFlush",
                      "KafkaKeyRendered"}
KafkaConsumerEvents == {"KafkaHeadersRendered", "KafkaConsumerStart", "KafkaConsumerStop",
                        "KafkaPartitionAssigned", "KafkaPartitionRevoked", "KafkaMessage",
                        "KafkaDecode"}
KafkaCommitEvents == {"KafkaCommitSuccess", "KafkaCommitError", "KafkaDLQProduceAttempt",
                      "KafkaDLQProduceSuccess", "KafkaDLQProduceError", "KafkaBillingSample"}

AllEvents ==
    UNION {WireEvents, InsulatorEvents, HttpEvents, SurgeEvents, SurgeSubmitEvents,
           ResisterEvents, BreakerEvents, S3WriterEvents, S3ReaderEvents,
           KafkaWriterEvents, KafkaConsumerEvents, KafkaCommitEvents, {"Restart"}}

\* The events an option of NewSensor registers callbacks for: all but the insulator's.
FlowOptions == {"Start", "ElementProcessed", "Error", "Cancel", "Complete", "Terminate"}
                   \cup HttpEvents \cup SurgeEvents \cup SurgeSubmitEvents
QueueOptions == ResisterEvents \cup {"Submit", "Restart"}
BreakerOptions == BreakerEvents
S3Options == S3WriterEvents \cup S3ReaderEvents
KafkaOptions == KafkaWriterEvents \cup KafkaConsumerEvents \cup KafkaCommitEvents
HasOption == UNION {FlowOptions, QueueOptions, BreakerOptions, S3Options, KafkaOptions}

\* The lists NewSensor appends callbacks of its own to; Restart has two.
Decorated ==
    {"CircuitBreakerDrop", "CircuitBreakerNeutralWireSubmission", "CircuitBreakerTrip",
     "CircuitBreakerReset", "SurgeProtectorTrip", "SurgeProtectorReset",
     "SurgeProtectorBackupFailure", "SurgeProtectorRateLimitExceeded",
     "SurgeProtectorBackupWireSubmit", "SurgeProtectorDrop", "SurgeProtectorSubmit",
     "SurgeProtectorConnectResister", "Submit", "Error", "Restart", "ElementProcessed",
     "Cancel", "Start", "Terminate"} \cup HttpEvents \cup ResisterEvents
Own(e) == IF e = "Restart" THEN 2 ELSE IF e \in Decorated THEN 1 ELSE 0

\* Those whose first callback moves component_running_count, up or down.
Ups == {"Start", "CircuitBreakerTrip"}
Downs == {"Terminate", "Restart"}
GaugeEvents == Ups \cup Downs

ASSUME SensorAssumption ==
    /\ Wires \subseteq Parts /\ "none" \notin Parts
    /\ CountRange \in Nat /\ CountRange > 1
    /\ IsFiniteSet(Emitters) /\ IsFiniteSet(Parts) /\ "free" \notin Registrars

VARIABLES
    followed,     \* the events that occur: those that move the gauge, or any one
    slice,        \* slice[e] = [ptr, len]: the list's array and its length
    byUser,       \* callbacks given to NewSensor as options, per event
    cbLock,       \* callbackLock: a registrar, or "free"
    registering,  \* a registrar's call: the stores it has still to do
    returned,     \* history: callbacks whose registration has returned, per event
    on,           \* a part's started flag
    emitting,     \* an emitter's Invoke
    gauge,        \* component_running_count in the meter
    tally,      \* history: gauge callbacks done, per event
    missed,       \* history: decrements that found nothing to take away
    raced,        \* history: a DecrementCount stored over a count that had changed
    cleared,      \* history: a Monitor that ended set the gauge to zero
    overrun       \* an Invoke has read past the end of an array

listVars == <<slice, cbLock, registering, returned>>
gaugeVars == <<gauge, tally, missed, raced, cleared>>
sensorVars == <<followed, byUser, listVars, on, emitting, gaugeVars, overrun>>

\* append doubles a full array: array k of a list has 2^(k-1) cells, a nil slice none.
ArrayCap(k) == IF k = 0 THEN 0 ELSE 2^(k - 1)
\* The array a list of n callbacks is in: those too small for it come before.
ArrayFor(n) == Cardinality({k \in 0..n : ArrayCap(k) < n})

\* An Invoke that has read nothing yet.
Invoking(event, p, known, rounds) ==
    [at |-> "header", event |-> event, about |-> p, ptr |-> -1, len |-> -1, known |-> known,
     next |-> 1, seen |-> 0, rounds |-> rounds]

\* NewSensor: the caller's options first, then the sensor's own callbacks.
SensorInit ==
    /\ followed \in {GaugeEvents} \cup {{e} : e \in AllEvents}
    /\ byUser \in [followed -> 0..1] /\ \A e \in followed : byUser[e] = 1 => e \in HasOption
    /\ returned = [e \in followed |-> byUser[e] + Own(e)]
    /\ slice = [e \in followed |-> [ptr |-> ArrayFor(returned[e]), len |-> returned[e]]]
    /\ cbLock = "free"
    /\ registering = [r \in Registrars |-> [event |-> "none", len |-> 0, ptr |-> 0, todo |-> {}]]
    /\ on = [p \in Parts |-> FALSE]
    /\ emitting = [c \in Emitters |-> [Invoking("none", "none", 0, 0) EXCEPT !.at = "idle"]]
    /\ gauge = 0 /\ tally = [e \in GaugeEvents |-> 0] /\ missed = 0
    /\ raced = FALSE /\ cleared = FALSE /\ overrun = FALSE

-----------------------------------------------------------------------------
(* RegisterOnX: append under the lock; a full array is replaced by a new one. *)

Register(r, e) ==
    /\ cbLock = "free" /\ registering[r].event = "none"
    /\ cbLock' = r
    /\ LET grown == slice[e].len = ArrayCap(slice[e].ptr)
       IN  registering' = [registering EXCEPT ![r] =
               [event |-> e, len |-> slice[e].len + 1,
                ptr |-> IF grown THEN slice[e].ptr + 1 ELSE slice[e].ptr,
                todo |-> IF grown THEN {"len", "ptr"} ELSE {"len"}]]
    /\ UNCHANGED <<followed, byUser, slice, returned, on, emitting, gaugeVars, overrun>>

\* The words of the new header reach memory in either order; Unlock follows.
StoreWord(r, w) ==
    LET reg == registering[r]
    IN  /\ w \in reg.todo
        /\ slice' = [slice EXCEPT ![reg.event][w] = reg[w]]
        /\ registering' = [registering EXCEPT ![r].todo = @ \ {w}]
        /\ IF reg.todo = {w}
           THEN cbLock' = "free" /\ returned' = [returned EXCEPT ![reg.event] = @ + 1]
           ELSE UNCHANGED <<cbLock, returned>>
        /\ UNCHANGED <<followed, byUser, on, emitting, gaugeVars, overrun>>

-----------------------------------------------------------------------------
(* InvokeOnX. *)

Report(c, e, p) ==
    /\ emitting[c].at = "idle" /\ emitting[c].rounds < MaxReports
    /\ e \in followed
    /\ emitting' = [emitting EXCEPT ![c] = Invoking(e, p, returned[e], @.rounds + 1)]
    /\ UNCHANGED <<followed, byUser, listVars, gaugeVars, overrun>>

\* Start and Stop flip the part's flag and then report: two of them may overlap.
ReportStart(c, p) == ~on[p] /\ on' = [on EXCEPT ![p] = TRUE] /\ Report(c, "Start", p)
ReportStop(c, p) == on[p] /\ on' = [on EXCEPT ![p] = FALSE] /\ Report(c, "Terminate", p)

\* A surge protector reports the restart of what it found stopped, a generator its own.
ReportRestart(c, p) == Report(c, "Restart", p) /\ UNCHANGED on

Emit(c, e) == e \notin {"Start", "Terminate", "Restart"} /\ Report(c, e, "none") /\ UNCHANGED on

\* The argument s.OnX, read word by word and without the lock.
ReadPtr(c) ==
    /\ emitting[c].at = "header" /\ emitting[c].ptr = -1
    /\ emitting' = [emitting EXCEPT ![c].ptr = slice[emitting[c].event].ptr]
    /\ UNCHANGED <<followed, byUser, listVars, on, gaugeVars, overrun>>

ReadLen(c) ==
    /\ emitting[c].at = "header" /\ emitting[c].len = -1
    /\ emitting' = [emitting EXCEPT ![c].len = slice[emitting[c].event].len]
    /\ UNCHANGED <<followed, byUser, listVars, on, gaugeVars, overrun>>

\* snapshotCallbacks copies under the lock what the header says.
SnapshotCallbacks(c) ==
    /\ emitting[c].at = "header" /\ emitting[c].ptr # -1 /\ emitting[c].len # -1
    /\ cbLock = "free"
    /\ overrun' = (emitting[c].len > ArrayCap(emitting[c].ptr))
    /\ emitting' = [emitting EXCEPT ![c].at = "call"]
    /\ UNCHANGED <<followed, byUser, listVars, on, gaugeVars>>

\* The callback at hand is the one that moves the gauge; the decorator of Restart
\* looks at the type of what restarted.
AtMeter(c) ==
    LET m == emitting[c]
    IN  /\ m.event \in GaugeEvents /\ m.next = byUser[m.event] + 1
        /\ m.event = "Restart" => m.about \in Wires

\* A callback of the user's, or one of the sensor's that leaves the gauge alone.
CallUser(c) ==
    /\ emitting[c].at = "call" /\ emitting[c].next <= emitting[c].len
    /\ ~AtMeter(c)
    /\ emitting' = [emitting EXCEPT ![c].next = @ + 1]
    /\ UNCHANGED <<followed, byUser, listVars, on, gaugeVars, overrun>>

\* incrementMeterCounters: an atomic addition.
IncrementCount(c) ==
    /\ emitting[c].at = "call" /\ emitting[c].next <= emitting[c].len
    /\ AtMeter(c) /\ emitting[c].event \in Ups
    /\ gauge' = (gauge + 1) % CountRange
    /\ tally' = [tally EXCEPT ![emitting[c].event] = @ + 1]
    /\ emitting' = [emitting EXCEPT ![c].next = @ + 1]
    /\ UNCHANGED <<followed, byUser, listVars, on, missed, raced, cleared, overrun>>

\* decrementMeterCounters: an atomic load, a test for zero, an atomic store.
LoadCount(c) ==
    /\ emitting[c].at = "call" /\ emitting[c].next <= emitting[c].len
    /\ AtMeter(c) /\ emitting[c].event \in Downs
    /\ emitting' = [emitting EXCEPT ![c].at = "store", ![c].seen = gauge]
    /\ UNCHANGED <<followed, byUser, listVars, on, gaugeVars, overrun>>

\* The store, or the return without one; the callback is done.
Decremented(c) ==
    /\ emitting[c].at = "store"
    /\ raced' = (raced \/ gauge # emitting[c].seen)
    /\ tally' = [tally EXCEPT ![emitting[c].event] = @ + 1]
    /\ emitting' = [emitting EXCEPT ![c].at = "call", ![c].next = @ + 1]
    /\ UNCHANGED <<followed, byUser, listVars, on, cleared, overrun>>

MutDecrementCount(c) ==
    /\ Decremented(c)
    /\ gauge' = (emitting[c].seen - 1) % CountRange /\ UNCHANGED missed

DecrementCount(c) ==
    /\ Decremented(c)
    /\ IF emitting[c].seen = 0
       THEN missed' = missed + 1 /\ UNCHANGED gauge
       ELSE gauge' = (emitting[c].seen - 1) % CountRange /\ UNCHANGED missed

InvokeReturns(c) ==
    /\ emitting[c].at = "call" /\ emitting[c].next > emitting[c].len
    /\ emitting' = [emitting EXCEPT ![c].at = "idle"]
    /\ UNCHANGED <<followed, byUser, listVars, on, gaugeVars, overrun>>

\* The meter's Monitor ends: printFinalProgress resets the running metrics.
resetRunningMetrics ==
    /\ gauge' = 0 /\ cleared' = TRUE
    /\ UNCHANGED <<followed, byUser, listVars, on, emitting, tally, missed, raced, overrun>>

-----------------------------------------------------------------------------

SensorNext ==
    /\ ~overrun
    /\ \/ \E r \in Registrars, e \in followed : Register(r, e)
       \/ \E r \in Registrars, w \in {"len", "ptr"} : StoreWord(r, w)
       \/ \E c \in Emitters :
             \/ \E p \in Parts : ReportStart(c, p) \/ ReportStop(c, p) \/ ReportRestart(c, p)
             \/ \E e \in followed : Emit(c, e)
             \/ ReadPtr(c) \/ ReadLen(c) \/ SnapshotCallbacks(c)
             \/ CallUser(c) \/ IncrementCount(c) \/ LoadCount(c) \/ DecrementCount(c)
             \/ InvokeReturns(c)
       \/ resetRunningMetrics

SensorSpec == SensorInit /\ [][SensorNext]_sensorVars

-----------------------------------------------------------------------------
(* Properties. *)

\* However the header was torn, an event that does not run off its array calls
\* every callback whose registration had returned before the event began: the
\* append in Register never makes the list a reader can see shorter.
CallbacksServed ==
    \A c \in Emitters :
        ~overrun /\ emitting[c].at \in {"call", "store"} => emitting[c].len >= emitting[c].known

\* component_running_count never passes what its writers have added to it: starts
\* and breaker trips. Once the events under way are through, and as long as no
\* decrement stored over another update and no Monitor has reset it, it is the parts
\* that run, and one for every breaker trip, less one for every wire's restart, and
\* one for every decrement that found zero: a stop that overtook its start.
GaugeSound ==
    /\ gauge <= tally["Start"] + tally["CircuitBreakerTrip"]
    /\ (\A c \in Emitters : emitting[c].at = "idle") /\ ~raced /\ ~cleared =>
           gauge + tally["Restart"]
               = Cardinality({p \in Parts : on[p]}) + tally["CircuitBreakerTrip"] + missed

\* Events and gauges together, under every interleaving of registrations.
SensorSound == CallbacksServed /\ GaugeSound
=============================================================================
