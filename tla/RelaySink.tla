------------------------------ MODULE RelaySink ------------------------------
(***************************************************************************)
(* pkg/internal/internallogger/relay_sink.go: the log sink that forwards   *)
(* entries through a relay. Write puts an entry into a bounded queue under *)
(* writeMu, one worker submits them in turn, Sync polls a counter of       *)
(* pending entries until it is no longer positive, Close closes the queue  *)
(* and waits for the worker. AddSink and RemoveSink of the logger create   *)
(* and close it.                                                           *)
(*                                                                         *)
(* An entry is the Write call that brings it. The counter is not changed   *)
(* together with the queue: it goes up after the send and down after the   *)
(* submission, so it may be below zero for a moment.                       *)
(***************************************************************************)
EXTENDS Integers, Sequences, FiniteSets

CONSTANTS
    LogWriters,     \* goroutines that log one entry each
    Flushers,       \* goroutines that call Sync once
    QueueSize       \* queue_size

None == "none"

ASSUME SinkAssumption == QueueSize \in Nat \ {0} /\ None \notin LogWriters

VARIABLES
    dropOnFull,       \* configuration
    sinkQueue, sinkClosed, pending, writeMu,
    writing,          \* each writer: place
    worker, inHand,   \* run: place, entry taken
    closer,           \* Close: place
    flushing, before, \* each Sync: place; history: entries whose Write had returned
    submitted,        \* history: entries handed to the relay, in order
    sinkPanic

sinkVars == <<dropOnFull, sinkQueue, sinkClosed, pending, writeMu, writing, worker,
              inHand, closer, flushing, before, submitted, sinkPanic>>

SinkInit ==
    /\ dropOnFull \in BOOLEAN
    /\ sinkQueue = << >> /\ sinkClosed = FALSE /\ pending = 0 /\ writeMu = None
    /\ writing = [w \in LogWriters |-> "new"]
    /\ worker = "range" /\ inHand = None
    /\ closer = "new"
    /\ flushing = [f \in Flushers |-> "new"] /\ before = [f \in Flushers |-> {}]
    /\ submitted = << >> /\ sinkPanic = FALSE

SinkRoom == Len(sinkQueue) < QueueSize
Writing(w, place) == ~sinkPanic /\ writing[w] = place
WriteTo(w, place) == writing' = [writing EXCEPT ![w] = place]

-----------------------------------------------------------------------------
(* Write. *)

MutLockWrite(w) ==
    /\ Writing(w, "new")
    /\ WriteTo(w, IF sinkClosed THEN "done" ELSE "send")
    /\ UNCHANGED <<dropOnFull, sinkQueue, sinkClosed, pending, writeMu, worker, inHand,
                   closer, flushing, before, submitted, sinkPanic>>

LockWrite(w) ==
    /\ Writing(w, "new") /\ writeMu = None
    /\ IF sinkClosed
       THEN WriteTo(w, "done") /\ UNCHANGED writeMu
       ELSE WriteTo(w, "send") /\ writeMu' = w
    /\ UNCHANGED <<dropOnFull, sinkQueue, sinkClosed, pending, worker, inHand, closer,
                   flushing, before, submitted, sinkPanic>>

\* Waits for room, with the lock held, unless entries are to be dropped.
SendEntry(w) ==
    /\ Writing(w, "send") /\ ~sinkClosed
    /\ \/ /\ SinkRoom
          /\ sinkQueue' = Append(sinkQueue, w)
          /\ WriteTo(w, "count")
          /\ UNCHANGED writeMu
       \/ /\ ~SinkRoom /\ dropOnFull
          /\ WriteTo(w, "dropped")
          /\ writeMu' = None
          /\ UNCHANGED sinkQueue
    /\ UNCHANGED <<dropOnFull, sinkClosed, pending, worker, inHand, closer, flushing,
                   before, submitted, sinkPanic>>

\* A send on the closed queue; the flag under writeMu rules it out.
SendPanics(w) ==
    /\ Writing(w, "send") /\ sinkClosed
    /\ sinkPanic' = TRUE
    /\ UNCHANGED <<dropOnFull, sinkQueue, sinkClosed, pending, writeMu, writing, worker,
                   inHand, closer, flushing, before, submitted>>

CountEntry(w) ==
    /\ Writing(w, "count")
    /\ pending' = pending + 1
    /\ writeMu' = None
    /\ WriteTo(w, "done")
    /\ UNCHANGED <<dropOnFull, sinkQueue, sinkClosed, worker, inHand, closer, flushing,
                   before, submitted, sinkPanic>>

-----------------------------------------------------------------------------
(* run and submit. *)

TakeEntry ==
    /\ ~sinkPanic /\ worker = "range" /\ sinkQueue # << >>
    /\ inHand' = Head(sinkQueue) /\ sinkQueue' = Tail(sinkQueue)
    /\ worker' = "submit"
    /\ UNCHANGED <<dropOnFull, sinkClosed, pending, writeMu, writing, closer, flushing,
                   before, submitted, sinkPanic>>

\* relay.Submit returns, in time or by its timeout; its error is ignored.
SubmitEntry ==
    /\ ~sinkPanic /\ worker = "submit"
    /\ submitted' = Append(submitted, inHand)
    /\ inHand' = None
    /\ worker' = "uncount"
    /\ UNCHANGED <<dropOnFull, sinkQueue, sinkClosed, pending, writeMu, writing, closer,
                   flushing, before, sinkPanic>>

UncountEntry ==
    /\ ~sinkPanic /\ worker = "uncount"
    /\ pending' = pending - 1
    /\ worker' = "range"
    /\ UNCHANGED <<dropOnFull, sinkQueue, sinkClosed, writeMu, writing, inHand, closer,
                   flushing, before, submitted, sinkPanic>>

WorkerEnds ==
    /\ ~sinkPanic /\ worker = "range" /\ sinkQueue = << >> /\ sinkClosed
    /\ worker' = "done"
    /\ UNCHANGED <<dropOnFull, sinkQueue, sinkClosed, pending, writeMu, writing, inHand,
                   closer, flushing, before, submitted, sinkPanic>>

-----------------------------------------------------------------------------
(* Sync and Close. *)

SyncBegins(f) ==
    /\ ~sinkPanic /\ flushing[f] = "new"
    /\ flushing' = [flushing EXCEPT ![f] = "poll"]
    /\ before' = [before EXCEPT ![f] = {w \in LogWriters : writing[w] = "done" /\ ~sinkClosed}]
    /\ UNCHANGED <<dropOnFull, sinkQueue, sinkClosed, pending, writeMu, writing, worker,
                   inHand, closer, submitted, sinkPanic>>

\* It returns once nothing is pending, or by its deadline.
SyncReturns(f) ==
    /\ ~sinkPanic /\ flushing[f] = "poll"
    /\ flushing' \in {[flushing EXCEPT ![f] = place] :
                        place \in {"late"} \cup IF pending <= 0 THEN {"flushed"} ELSE {}}
    /\ UNCHANGED <<dropOnFull, sinkQueue, sinkClosed, pending, writeMu, writing, worker,
                   inHand, closer, before, submitted, sinkPanic>>

\* RemoveSink calls Close once.
CloseSink ==
    /\ ~sinkPanic /\ closer = "new" /\ writeMu = None
    /\ sinkClosed' = TRUE
    /\ closer' = "wait"
    /\ UNCHANGED <<dropOnFull, sinkQueue, pending, writeMu, writing, worker, inHand,
                   flushing, before, submitted, sinkPanic>>

CloseReturns ==
    /\ ~sinkPanic /\ closer = "wait" /\ worker = "done"
    /\ closer' = "done"
    /\ UNCHANGED <<dropOnFull, sinkQueue, sinkClosed, pending, writeMu, writing, worker,
                   inHand, flushing, before, submitted, sinkPanic>>

-----------------------------------------------------------------------------
WorkerStep == TakeEntry \/ SubmitEntry \/ UncountEntry \/ WorkerEnds
WriteStep(w) == LockWrite(w) \/ SendEntry(w) \/ SendPanics(w) \/ CountEntry(w)

SinkNext ==
    \/ WorkerStep \/ CloseSink \/ CloseReturns
    \/ \E w \in LogWriters : WriteStep(w)
    \/ \E f \in Flushers : SyncBegins(f) \/ SyncReturns(f)

SinkSpec == SinkInit /\ [][SinkNext]_sinkVars

-----------------------------------------------------------------------------
Submitted == {submitted[i] : i \in 1..Len(submitted)}

\* A Sync that returns because nothing is pending has flushed every entry whose
\* Write had returned when it began, although the counter lags behind the
\* queue on both sides; and when Close returns nothing that was queued is left
\* behind (Sync, Close, run).
SyncFlushes ==
    /\ ~sinkPanic
    /\ \A f \in Flushers : flushing[f] = "flushed" => before[f] \subseteq Submitted
    /\ closer = "done" => sinkQueue = << >> /\ inHand = None
=============================================================================
