---------------------------- MODULE BatchWriter ----------------------------
(***************************************************************************)
(* The batching writers of the adapters: kafkaclient (typed and raw),       *)
(* s3client (ndjson) and postgresclient.  Fan-in goroutines move records    *)
(* from the output channels of the connected wires into one channel; a      *)
(* serving loop collects them in a batch and flushes it when it is full, at *)
(* a tick, and when it ends.                                                *)
(*                                                                          *)
(* What differs between the adapters is kept:                               *)
(*   kafka     the batch dies with the loop; records are produced one by    *)
(*             one, so a failing flush leaves a prefix written;             *)
(*   s3        the batch lives in the client and survives a failed flush;   *)
(*             one object per flush, put with retries under one key;        *)
(*   postgres  one INSERT per batch; the batch is emptied whether or not    *)
(*             the INSERT worked; there is no ticker and no isServing.      *)
(* Kafka, S3 and the database are external: a call works, or fails, or      *)
(* fails although the write took place.  A record is its wire and its       *)
(* number there; how it is encoded does not matter, that encoding may fail  *)
(* does.                                                                    *)
(***************************************************************************)
EXTENDS Naturals, Sequences, FiniteSets, SequencesExt

CONSTANTS
    WriterKinds,   \* the adapters to explore, a subset of the four above
    Inputs,        \* connected wires, numbered from 1
    PerInput,      \* records each wire emits
    Heavy,         \* records that reach the byte limit by themselves
    MaxRecs,       \* batchMaxRecords, also the capacity of mergedIn
    Starts,        \* how often StartWriter (or ServeWriter) is called
    MaxAttempts    \* defaultMaxAttempts of putWithRetry

ASSUME WriterConstants ==
    /\ WriterKinds \subseteq {"kafka", "kafkaRaw", "s3", "postgres"}
    /\ Inputs \in SUBSET Nat /\ PerInput \in Nat
    /\ MaxRecs \in Nat \ {0} /\ Starts \in Nat \ {0} /\ MaxAttempts \in Nat \ {0}

Record(i, n) == <<i, n>>
Records == Inputs \X (1..PerInput)
Input(r) == r[1]
Calls == 1..Starts

VARIABLES
    kind,      \* which adapter this behaviour is about
    direct,    \* TRUE: ServeWriter on the caller's channel, FALSE: StartWriter
    src,       \* per wire, what is in its output channel
    closed,    \* the wires have been stopped: their output channels are closed
    fan,       \* per call and wire, where its fan-in goroutine is
    hand,      \* per call and wire, the record it holds (none or one)
    merged,    \* the channel between the fan-in and the loop
    done,      \* per call, its context has been cancelled
    stopped,   \* Stop has cancelled the client's own context (postgres: closed the pool)
    isServing, \* the flag of the adapter
    loop,      \* per call, where the serving loop is
    result,    \* per call, what the loop returned
    batch,     \* per call, the records collected (s3: those of call 1, see Slot)
    final,     \* per call, the flush in progress is the last one
    attempt,   \* per call, attempts of putWithRetry made so far
    stored,    \* per call, an attempt of this flush has stored the object
    written,   \* what Kafka, S3 or the database has, in order
    lost,      \* records the adapter has given up
    retried    \* an object was stored although its flush was told it failed

writerVars == <<kind, direct, src, closed, fan, hand, merged, done, stopped,
                isServing, loop, result, batch, final, attempt, stored, written, lost, retried>>
fanVars == <<src, fan, hand>>
flushVars == <<attempt, stored, written, retried>>
fixed == <<kind, direct, stopped>>

\* The batch of s3 is a.buf, one for the client; the others keep a local slice.
Slot(c) == IF kind = "s3" THEN 1 ELSE c
Batch(c) == batch[Slot(c)]
Full(b) == Len(b) >= MaxRecs \/ \E k \in DOMAIN b : b[k] \in Heavy

WriterInit ==
    /\ kind \in WriterKinds
    /\ direct \in (IF kind = "kafkaRaw" THEN {TRUE} ELSE BOOLEAN)
    /\ src = [i \in Inputs |-> [n \in 1..PerInput |-> Record(i, n)]]
    /\ closed = FALSE
    /\ fan = [f \in Calls \X Inputs |-> IF direct /\ f[1] = 1 THEN "recv" ELSE "off"]
    /\ hand = [f \in Calls \X Inputs |-> <<>>]
    /\ merged = <<>>
    /\ done = [c \in Calls |-> FALSE]
    /\ stopped = FALSE
    /\ isServing = FALSE
    /\ loop = [c \in Calls |-> "off"]
    /\ result = [c \in Calls |-> "none"]
    /\ batch = [c \in Calls |-> <<>>]
    /\ final = [c \in Calls |-> FALSE]
    /\ attempt = [c \in Calls |-> 0]
    /\ stored = [c \in Calls |-> FALSE]
    /\ written = <<>>
    /\ lost = {}
    /\ retried = FALSE

(***************************************************************************)
(* Starting.                                                                *)
(***************************************************************************)
Called(c) == loop[c] = "off" /\ (c > 1 => loop[c - 1] # "off")

\* Every call of StartWriter starts another fan-in goroutine per wire.
Spawned(c) == [f \in Calls \X Inputs |-> IF f[1] = c THEN "recv" ELSE fan[f]]

KafkaStartWriter(c) ==
    /\ kind = "kafka" /\ ~direct /\ Called(c)
    /\ fan' = Spawned(c)
    /\ loop' = [loop EXCEPT ![c] = "enter"]
    /\ UNCHANGED <<fixed, src, closed, hand, merged, done, isServing, result, batch, final,
                   flushVars, lost>>

S3StartWriter(c) ==
    /\ kind = "s3" /\ ~direct /\ Called(c)
    /\ fan' = Spawned(c)
    /\ loop' = [loop EXCEPT ![c] = "enter"]
    /\ UNCHANGED <<fixed, src, closed, hand, merged, done, isServing, result, batch, final,
                   flushVars, lost>>

\* mergeInputs keeps its channel: only the first call starts the goroutines.
PostgresStartWriter(c) ==
    /\ kind = "postgres" /\ ~direct /\ Called(c)
    /\ fan' = IF c = 1 THEN Spawned(1) ELSE fan
    /\ loop' = [loop EXCEPT ![c] = "enter"]
    /\ UNCHANGED <<fixed, src, closed, hand, merged, done, isServing, result, batch, final,
                   flushVars, lost>>

\* ServeWriter or ServeWriterRaw on a channel of the caller, who feeds it.
ServeDirect(c) ==
    /\ direct /\ Called(c)
    /\ loop' = [loop EXCEPT ![c] = "enter"]
    /\ UNCHANGED <<fixed, fanVars, closed, merged, done, isServing, result, batch, final,
                   flushVars, lost>>

\* The compare-and-swap of isServing(Writer): whoever comes second returns nil at once.
Guarded(c) ==
    /\ loop[c] = "enter"
    /\ IF isServing
       THEN /\ loop' = [loop EXCEPT ![c] = "over"]
            /\ result' = [result EXCEPT ![c] = "nil"]
            /\ UNCHANGED isServing
       ELSE /\ loop' = [loop EXCEPT ![c] = "loop"]
            /\ isServing' = TRUE
            /\ UNCHANGED result
    /\ UNCHANGED <<fixed, fanVars, closed, merged, done, batch, final, flushVars, lost>>

KafkaServeWriter(c) == kind = "kafka" /\ Guarded(c)
KafkaServeWriterRaw(c) == kind = "kafkaRaw" /\ Guarded(c)
S3ServeWriter(c) == kind = "s3" /\ Guarded(c)

\* serveWriter has no such flag; it fails when the database, the table or the key is
\* not there.
PostgresServeWriter(c) ==
    /\ kind = "postgres" /\ loop[c] = "enter"
    /\ \/ loop' = [loop EXCEPT ![c] = "loop"] /\ UNCHANGED result
       \/ /\ loop' = [loop EXCEPT ![c] = "over"]
          /\ result' = [result EXCEPT ![c] = "err"]
    /\ UNCHANGED <<fixed, fanVars, closed, merged, done, isServing, batch, final, flushVars,
                   lost>>

\* The caller cancels the context it gave to a call; the wires are stopped.
CancelCall(c) ==
    /\ loop[c] # "off" /\ ~done[c]
    /\ done' = [done EXCEPT ![c] = TRUE]
    /\ UNCHANGED <<fixed, fanVars, closed, merged, isServing, loop, result, batch, final,
                   flushVars, lost>>

\* Stop of the three clients.  The context it cancels is the one made by the
\* constructor, which no writer looks at; postgres does not even cancel it, as nothing
\* ever sets its isServing, and closes its connection pool.
StopClient ==
    /\ ~stopped
    /\ stopped' = TRUE
    /\ UNCHANGED <<kind, direct, fanVars, closed, merged, done, isServing, loop, result,
                   batch, final, flushVars, lost>>

CloseInputs ==
    /\ ~closed
    /\ closed' = TRUE
    /\ UNCHANGED <<fixed, fanVars, merged, done, isServing, loop, result, batch, final,
                   flushVars, lost>>

(***************************************************************************)
(* Fan-in.                                                                  *)
(***************************************************************************)
FanReceive(c, i) ==
    /\ fan[<<c, i>>] = "recv" /\ src[i] # <<>>
    /\ hand' = [hand EXCEPT ![<<c, i>>] = <<Head(src[i])>>]
    /\ src' = [src EXCEPT ![i] = Tail(@)]
    /\ fan' = [fan EXCEPT ![<<c, i>>] = "send"]
    /\ UNCHANGED <<fixed, closed, merged, done, isServing, loop, result, batch, final,
                   flushVars, lost>>

\* postgres ranges over the channel and the caller of ServeWriter has his own ways:
\* only the fan-in of kafka and s3 looks at the context.
FanWatches == kind \in {"kafka", "s3"} /\ ~direct

FanEnds(c, i) ==
    /\ fan[<<c, i>>] = "recv"
    /\ (FanWatches /\ done[c]) \/ (closed /\ src[i] = <<>>)
    /\ fan' = [fan EXCEPT ![<<c, i>>] = "done"]
    /\ UNCHANGED <<fixed, src, hand, closed, merged, done, isServing, loop, result, batch,
                   final, flushVars, lost>>

RoomMerged == Len(merged) < MaxRecs
\* The send of kafka: no context, it waits for room for ever.
KafkaFanSend(c, i) ==
    /\ kind \in {"kafka", "kafkaRaw"} /\ fan[<<c, i>>] = "send" /\ RoomMerged
    /\ merged' = Append(merged, hand[<<c, i>>][1])
    /\ hand' = [hand EXCEPT ![<<c, i>>] = <<>>]
    /\ fan' = [fan EXCEPT ![<<c, i>>] = "recv"]
    /\ UNCHANGED <<fixed, src, closed, done, isServing, loop, result, batch, final,
                   flushVars, lost>>

\* The send of s3 gives up, and the record with it, when the context is done.
S3FanSend(c, i) ==
    /\ kind = "s3" /\ fan[<<c, i>>] = "send"
    /\ \/ /\ RoomMerged
          /\ merged' = Append(merged, hand[<<c, i>>][1])
          /\ fan' = [fan EXCEPT ![<<c, i>>] = "recv"]
          /\ UNCHANGED lost
       \/ /\ FanWatches /\ done[c]
          /\ lost' = lost \union {hand[<<c, i>>][1]}
          /\ fan' = [fan EXCEPT ![<<c, i>>] = "done"]
          /\ UNCHANGED merged
    /\ hand' = [hand EXCEPT ![<<c, i>>] = <<>>]
    /\ UNCHANGED <<fixed, src, closed, done, isServing, loop, result, batch, final, flushVars>>

(***************************************************************************)
(* The serving loop.  Received(c, r, rest...) are the ways a record can     *)
(* come out of the channel: from its buffer, or, as the channel of postgres *)
(* has none, straight from the hand of a fan-in goroutine.                  *)
(***************************************************************************)
Buffered(r) ==
    /\ kind # "postgres" /\ merged # <<>> /\ r = Head(merged)
    /\ merged' = Tail(merged)
    /\ UNCHANGED <<fan, hand>>

HandedOver(r) ==
    /\ kind = "postgres"
    /\ \E f \in Calls \X Inputs :
         /\ fan[f] = "send" /\ r = hand[f][1]
         /\ fan' = [fan EXCEPT ![f] = "recv"]
         /\ hand' = [hand EXCEPT ![f] = <<>>]
    /\ UNCHANGED merged

Received(r) == Buffered(r) \/ HandedOver(r)

\* Only a channel of the caller is ever closed.
InClosed == direct /\ closed /\ merged = <<>> /\ \A i \in Inputs : fan[<<1, i>>] = "done"

Collect(c, r, full) ==
    /\ batch' = [batch EXCEPT ![Slot(c)] = Append(@, r)]
    /\ loop' = [loop EXCEPT ![c] = IF full THEN "flush" ELSE "loop"]
    /\ UNCHANGED <<result, isServing, lost>>

Return(c, res) ==
    /\ loop' = [loop EXCEPT ![c] = "over"]
    /\ result' = [result EXCEPT ![c] = res]
    /\ isServing' = (IF kind = "postgres" THEN isServing ELSE FALSE)

\* kafka: a record that cannot be encoded is skipped, as is an empty raw chunk.
TakeOrSkip(c) ==
    /\ loop[c] = "loop"
    /\ \E r \in Records :
         /\ Received(r)
         /\ \/ Collect(c, r, Full(Append(Batch(c), r)))
            \/ /\ lost' = lost \union {r}
               /\ UNCHANGED <<batch, loop, result, isServing>>
    /\ UNCHANGED <<fixed, src, closed, done, final, flushVars>>

KafkaReceive(c) == kind = "kafka" /\ TakeOrSkip(c)
KafkaReceiveRaw(c) == kind = "kafkaRaw" /\ TakeOrSkip(c)

\* s3: writeOne fails and ServeWriter returns its error; a.buf keeps the others.
S3Receive(c) ==
    /\ kind = "s3" /\ loop[c] = "loop"
    /\ \E r \in Records :
         /\ Received(r)
         /\ \/ Collect(c, r, Full(Append(Batch(c), r)))
            \/ Return(c, "err") /\ lost' = lost \union {r} /\ UNCHANGED batch
    /\ UNCHANGED <<fixed, src, closed, done, final, flushVars>>

\* postgres: an encoding error returns without a flush, and the batch goes with it.
\* The age of the batch is looked at when a record arrives, not by a timer.
PostgresReceive(c) ==
    /\ kind = "postgres" /\ loop[c] = "loop"
    /\ \E r \in Records, aged \in BOOLEAN :
         /\ Received(r)
         /\ \/ Collect(c, r, aged \/ Full(Append(Batch(c), r)))
            \/ /\ Return(c, "err")
               /\ lost' = lost \union {r} \union Range(Batch(c))
               /\ batch' = [batch EXCEPT ![c] = <<>>]
    /\ UNCHANGED <<fixed, src, closed, done, final, flushVars>>

\* The ticker of kafka, and that of s3 with an old batch.
MutTick(c) == /\ kind = "s3" /\ loop[c] = "loop" /\ Batch(c) # <<>>
              /\ loop' = [loop EXCEPT ![c] = "flush"]
              /\ UNCHANGED <<fixed, fanVars, closed, merged, done, isServing, result, batch,
                             final, flushVars, lost>>
Tick(c) ==
    /\ kind # "postgres" /\ loop[c] = "loop" /\ Batch(c) # <<>>
    /\ loop' = [loop EXCEPT ![c] = "flush"]
    /\ UNCHANGED <<fixed, fanVars, closed, merged, done, isServing, result, batch, final,
                   flushVars, lost>>

\* ctx.Done, or the channel is closed: one more flush, then return.
Finish(c) ==
    /\ loop[c] = "loop" /\ (done[c] \/ InClosed)
    /\ final' = [final EXCEPT ![c] = TRUE]
    /\ IF Batch(c) = <<>>
       THEN Return(c, "nil")
       ELSE loop' = [loop EXCEPT ![c] = "flush"] /\ UNCHANGED <<result, isServing>>
    /\ UNCHANGED <<fixed, fanVars, closed, merged, done, batch, flushVars, lost>>

(***************************************************************************)
(* Flushing.  kafka and s3 ignore the error of the last flush.              *)
(***************************************************************************)
Flushed(c) ==
    IF final[c] THEN Return(c, "nil")
    ELSE loop' = [loop EXCEPT ![c] = "loop"] /\ UNCHANGED <<result, isServing>>
FlushFails(c) == Return(c, IF final[c] /\ kind # "postgres" THEN "nil" ELSE "err")

\* One produce per pending record, in order; the first error ends the loop and the
\* records behind it are dropped.  A produce that failed may have been written.
ProduceNext(c) ==
    /\ loop[c] = "flush"
    /\ LET r == Head(Batch(c)) rest == Tail(Batch(c)) IN
         \/ /\ written' = Append(written, r)
            /\ batch' = [batch EXCEPT ![c] = rest]
            /\ IF rest = <<>> THEN Flushed(c) ELSE UNCHANGED <<loop, result, isServing>>
            /\ UNCHANGED lost
         \/ \E wrote \in BOOLEAN :
            /\ written' = IF wrote THEN Append(written, r) ELSE written
            /\ lost' = lost \union Range(rest) \union (IF wrote THEN {} ELSE {r})
            /\ batch' = [batch EXCEPT ![c] = <<>>]
            /\ FlushFails(c)
    /\ UNCHANGED <<fixed, fanVars, closed, merged, done, final, attempt, stored, retried>>

KafkaFlush(c) == kind = "kafka" /\ ProduceNext(c)
KafkaFlushRaw(c) == kind = "kafkaRaw" /\ ProduceNext(c)

\* The key is rendered before the first attempt: a second put overwrites the object.
Store(c) == IF stored[c] THEN written ELSE written \o Batch(c)

S3PutOK(c) ==
    /\ kind = "s3" /\ loop[c] = "flush" /\ ~done[c]
    /\ written' = Store(c)
    /\ batch' = [batch EXCEPT ![Slot(c)] = <<>>]
    /\ stored' = [stored EXCEPT ![c] = FALSE]
    /\ attempt' = [attempt EXCEPT ![c] = 0]
    /\ Flushed(c)
    /\ UNCHANGED <<fixed, fanVars, closed, merged, done, final, lost, retried>>

\* flush returns its error before a.buf is reset.
MutAfterFailedPut(c) == [batch EXCEPT ![Slot(c)] = <<>>]
AfterFailedPut(c) == batch

MayRetry(c) == attempt[c] + 1 < MaxAttempts /\ ~done[c]

\* Not retryable, attempts exhausted, or context done (also while backing off): the
\* flush fails and the batch stays.  Otherwise the same object is put once more.
S3PutFails(c) ==
    /\ kind = "s3" /\ loop[c] = "flush"
    /\ \E wrote \in BOOLEAN, retry \in BOOLEAN :
         LET there == stored[c] \/ wrote IN
         /\ wrote => ~done[c]
         /\ written' = IF wrote THEN Store(c) ELSE written
         /\ IF retry /\ MayRetry(c)
            THEN /\ attempt' = [attempt EXCEPT ![c] = @ + 1]
                 /\ stored' = [stored EXCEPT ![c] = there]
                 /\ UNCHANGED <<loop, result, isServing, retried, batch>>
            ELSE /\ attempt' = [attempt EXCEPT ![c] = 0]
                 /\ stored' = [stored EXCEPT ![c] = FALSE]
                 /\ retried' = (retried \/ there)
                 /\ batch' = AfterFailedPut(c)
                 /\ FlushFails(c)
    /\ UNCHANGED <<fixed, fanVars, closed, merged, done, final, lost>>

\* The deferred function empties the batch on success and on failure.
PostgresInsert(c) ==
    /\ kind = "postgres" /\ loop[c] = "flush"
    /\ \/ /\ ~done[c] /\ ~stopped
          /\ written' = written \o Batch(c)
          /\ Flushed(c)
          /\ UNCHANGED lost
       \/ \E wrote \in BOOLEAN :
          /\ wrote => ~done[c] /\ ~stopped
          /\ written' = IF wrote THEN written \o Batch(c) ELSE written
          /\ lost' = IF wrote THEN lost ELSE lost \union Range(Batch(c))
          /\ FlushFails(c)
    /\ batch' = [batch EXCEPT ![c] = <<>>]
    /\ UNCHANGED <<fixed, fanVars, closed, merged, done, final, attempt, stored, retried>>

LoopStep(c) ==
    \/ KafkaServeWriter(c) \/ KafkaServeWriterRaw(c) \/ S3ServeWriter(c)
    \/ PostgresServeWriter(c)
    \/ KafkaReceive(c) \/ KafkaReceiveRaw(c) \/ S3Receive(c) \/ PostgresReceive(c)
    \/ Finish(c) \/ KafkaFlush(c) \/ KafkaFlushRaw(c) \/ S3PutOK(c) \/ S3PutFails(c) \/ PostgresInsert(c)

FanStep(c, i) ==
    FanReceive(c, i) \/ FanEnds(c, i) \/ KafkaFanSend(c, i) \/ S3FanSend(c, i)

WriterNext ==
    \/ \E c \in Calls : \/ KafkaStartWriter(c) \/ S3StartWriter(c) \/ PostgresStartWriter(c)
                        \/ ServeDirect(c) \/ CancelCall(c) \/ Tick(c) \/ LoopStep(c)
    \/ \E c \in Calls, i \in Inputs : FanStep(c, i)
    \/ StopClient \/ CloseInputs

\* Goroutines that can step do; timers fire.  Callers need not start, cancel or close.
WriterFairness ==
    /\ \A c \in Calls : WF_writerVars(LoopStep(c)) /\ WF_writerVars(Tick(c))
    /\ \A c \in Calls, i \in Inputs : WF_writerVars(FanStep(c, i))

WriterSpec == WriterInit /\ [][WriterNext]_writerVars /\ WriterFairness

-----------------------------------------------------------------------------
WriterTypeOK ==
    /\ kind \in WriterKinds /\ direct \in BOOLEAN /\ closed \in BOOLEAN
    /\ isServing \in BOOLEAN /\ stopped \in BOOLEAN /\ retried \in BOOLEAN
    /\ src \in [Inputs -> Seq(Records)]
    /\ fan \in [Calls \X Inputs -> {"off", "recv", "send", "done"}]
    /\ hand \in [Calls \X Inputs -> Seq(Records)]
    /\ merged \in Seq(Records) /\ Len(merged) <= MaxRecs
    /\ done \in [Calls -> BOOLEAN] /\ final \in [Calls -> BOOLEAN]
    /\ stored \in [Calls -> BOOLEAN]
    /\ loop \in [Calls -> {"off", "enter", "loop", "flush", "over"}]
    /\ result \in [Calls -> {"none", "nil", "err"}]
    /\ batch \in [Calls -> Seq(Records)]
    /\ attempt \in [Calls -> 0..MaxAttempts]
    /\ written \in Seq(Records) /\ lost \subseteq Records

Queued(r) ==
    \/ r \in Range(src[Input(r)])
    \/ \E f \in Calls \X Inputs : r \in Range(hand[f])
    \/ r \in Range(merged)
    \/ \E c \in Calls : r \in Range(batch[c])

\* No record vanishes between the channels, the hands of the fan-in goroutines, the
\* batch and the store: it is queued, written, or given up at a place where the code
\* gives it up, and one that was given up is not queued any more.
RecordsAccounted ==
    \A r \in Records : /\ Queued(r) \/ r \in Range(written) \/ r \in lost
                       /\ r \in lost => ~Queued(r) /\ r \notin Range(written)

\* kafka and postgres never write a record twice, whatever fails and however often the
\* writer is started.  s3 does so only when an object had been stored by a flush that
\* was told of a failure: the batch it keeps is then put again under another key.
WrittenOnce ==
    \/ IsInjective(written)
    \/ kind = "s3" /\ retried

\* s3 keeps its batch when a flush fails, and the next start takes it up: as long as no
\* context is cancelled, a record disappears only because it could not be encoded, and
\* each such record is the one error some call has returned.
S3KeepsBatch ==
    kind = "s3" /\ (\A c \in Calls : ~done[c]) =>
        Cardinality({r \in Records : ~Queued(r) /\ r \notin Range(written)})
            <= Cardinality({c \in Calls : result[c] = "err"})

\* Records of one wire are written in the order in which the wire emitted them, as long
\* as the writer was started once: a second StartWriter adds a second fan-in goroutine
\* (postgres: a second loop), and the two overtake each other.
WriterOrder ==
    (\A c \in Calls : c > 1 => loop[c] = "off") /\ ~retried =>
        \A j, k \in DOMAIN written :
            j < k /\ Input(written[j]) = Input(written[k]) => written[j][2] < written[k][2]

\* The writers' promise, of all four adapters and of every failure: records are
\* accounted for, written once, kept by s3 and in order.
WriterSound ==
    WriterTypeOK /\ RecordsAccounted /\ WrittenOnce /\ S3KeepsBatch /\ WriterOrder

\* A collected record is in the batch of a loop that has not ended. Again and
\* again there is none: it is written or given up, or the loop ends (s3: with the
\* record kept for the next start). postgres is left out: with no timer its batch
\* waits for the next record.
BatchWaits == kind # "postgres" /\ \E c \in Calls : Batch(c) # <<>> /\ loop[c] \notin {"off", "over"}
=============================================================================
