--------------------------- MODULE ParquetWriter ---------------------------
(***************************************************************************)
(* s3client, format parquet: startParquetStream runs parquetRoller in a    *)
(* goroutine, which gathers records into a file and hands the file over a  *)
(* channel of two to ServeWriterRaw, which stores one object per file.     *)
(* The hand-over does not watch the context and nobody tells the roller    *)
(* that the writer has returned.                                           *)
(*                                                                         *)
(* The service and the parquet encoder are external: a put or an encoding  *)
(* works or fails (retries are in module BatchWriter).                     *)
(***************************************************************************)
EXTENDS Naturals, Sequences, SequencesExt

CONSTANTS PqRecords,   \* records the producer sends: 1 .. PqRecords
          RollMax,     \* maxRecords of a file
          RawRoom      \* capacity of the channel of files

ASSUME ParquetAssumption == PqRecords \in Nat /\ RollMax \in Nat \ {0} /\ RawRoom \in Nat \ {0}

VARIABLES
    pqNext, pqClosed,   \* next record the producer sends; in is closed and empty
    pqBusy,             \* another writer of this client is serving
    pqCtx,              \* the context is cancelled
    file,               \* records in the roller's buffer
    roller,             \* "loop", "send", "last" or "ended"
    raw, rawClosed,     \* the channel of files
    rawWriter,          \* "start", "loop", "put" or "ended"
    chunk,              \* file the writer holds
    pqStored,           \* records in the bucket, in order of the puts
    pqFailed            \* history: an encoding or a put failed

pqVars == <<pqNext, pqClosed, pqBusy, pqCtx, file, roller, raw, rawClosed, rawWriter, chunk,
            pqStored, pqFailed>>
rollVars == <<file, roller, raw, rawClosed>>
rawVars == <<rawWriter, chunk, pqStored>>

ParquetInit ==
    /\ pqNext = 1 /\ pqClosed = FALSE /\ pqBusy \in BOOLEAN /\ pqCtx = FALSE
    /\ file = <<>> /\ roller = "loop" /\ raw = <<>> /\ rawClosed = FALSE
    /\ rawWriter = "start" /\ chunk = <<>> /\ pqStored = <<>> /\ pqFailed = FALSE

PqClose ==
    /\ ~pqClosed /\ pqClosed' = TRUE
    /\ UNCHANGED <<pqNext, pqBusy, pqCtx, rollVars, rawVars, pqFailed>>

PqCancel ==
    /\ ~pqCtx /\ pqCtx' = TRUE
    /\ UNCHANGED <<pqNext, pqClosed, pqBusy, rollVars, rawVars, pqFailed>>

----------------------------------------------------------------------------
(* parquetRoller. *)
RollerTakes ==
    /\ roller = "loop" /\ pqNext <= PqRecords /\ ~pqClosed
    /\ pqNext' = pqNext + 1 /\ file' = Append(file, pqNext)
    /\ roller' = IF Len(file') >= RollMax THEN "send" ELSE "loop"
    /\ UNCHANGED <<pqClosed, pqBusy, pqCtx, raw, rawClosed, rawVars, pqFailed>>

RollerTick ==
    /\ roller = "loop" /\ file # <<>> /\ roller' = "send"
    /\ UNCHANGED <<pqNext, pqClosed, pqBusy, pqCtx, file, raw, rawClosed, rawVars, pqFailed>>

\* The context is done or in is closed: what is left goes out, then out closes.
RollerEnds ==
    /\ roller = "loop" /\ (pqCtx \/ pqClosed)
    /\ IF file = <<>> THEN roller' = "ended" /\ rawClosed' = TRUE
                      ELSE roller' = "last" /\ UNCHANGED rawClosed
    /\ UNCHANGED <<pqNext, pqClosed, pqBusy, pqCtx, file, raw, rawVars, pqFailed>>

MutRollerFlush ==
    /\ roller \in {"send", "last"} /\ Len(raw) < RawRoom
    /\ raw' = Append(raw, file) /\ UNCHANGED file
    /\ roller' = IF roller = "last" THEN "ended" ELSE "loop"
    /\ rawClosed' = (roller = "last")
    /\ UNCHANGED <<pqNext, pqClosed, pqBusy, pqCtx, rawVars, pqFailed>>

\* flush: the file goes out when there is room, and a new one begins.
RollerFlush ==
    /\ roller \in {"send", "last"} /\ Len(raw) < RawRoom
    /\ raw' = Append(raw, file) /\ file' = <<>>
    /\ roller' = IF roller = "last" THEN "ended" ELSE "loop"
    /\ rawClosed' = (roller = "last")
    /\ UNCHANGED <<pqNext, pqClosed, pqBusy, pqCtx, rawVars, pqFailed>>

\* Writing a record to the file, its first one too, or closing the file fails: the
\* records of the file are gone, out closes.
RollerFails ==
    /\ \/ roller = "loop" /\ pqNext <= PqRecords /\ ~pqClosed /\ pqNext' = pqNext + 1
       \/ roller \in {"send", "last"} /\ UNCHANGED pqNext
    /\ roller' = "ended" /\ rawClosed' = TRUE /\ file' = <<>> /\ pqFailed' = TRUE
    /\ UNCHANGED <<pqClosed, pqBusy, pqCtx, raw, rawVars>>

----------------------------------------------------------------------------
(* ServeWriterRaw. *)
RawStarts ==
    /\ rawWriter = "start" /\ rawWriter' = IF pqBusy THEN "ended" ELSE "loop"
    /\ UNCHANGED <<pqNext, pqClosed, pqBusy, pqCtx, rollVars, chunk, pqStored, pqFailed>>

RawTakes ==
    /\ rawWriter = "loop"
    /\ \/ raw # <<>> /\ chunk' = Head(raw) /\ raw' = Tail(raw) /\ rawWriter' = "put"
       \/ raw = <<>> /\ rawClosed /\ rawWriter' = "ended" /\ UNCHANGED <<chunk, raw>>
       \/ pqCtx /\ rawWriter' = "ended" /\ UNCHANGED <<chunk, raw>>
    /\ UNCHANGED <<pqNext, pqClosed, pqBusy, pqCtx, file, roller, rawClosed, pqStored, pqFailed>>

\* flushRaw: one object per file; an error ends the writer.
flushRaw ==
    /\ rawWriter = "put" /\ chunk' = <<>>
    /\ \/ pqStored' = pqStored \o chunk /\ rawWriter' = "loop" /\ UNCHANGED pqFailed
       \/ rawWriter' = "ended" /\ pqFailed' = TRUE /\ UNCHANGED pqStored
    /\ UNCHANGED <<pqNext, pqClosed, pqBusy, pqCtx, rollVars>>

----------------------------------------------------------------------------
RollerStep == RollerEnds \/ RollerFlush \/ RollerFails
RawStep == RawStarts \/ RawTakes \/ flushRaw

ParquetNext == PqClose \/ PqCancel \/ RollerTakes \/ RollerTick \/ RollerStep \/ RawStep

\* Both goroutines run; the ticker fires; an encoding need not fail.
ParquetFairness == WF_pqVars(RollerTick) /\ WF_pqVars(RollerEnds) /\ WF_pqVars(RollerFlush)
                   /\ WF_pqVars(RawStep)

ParquetSpec == ParquetInit /\ [][ParquetNext]_pqVars /\ ParquetFairness

----------------------------------------------------------------------------
(* What the bucket holds is, file after file, what the producer sent: no   *)
(* record twice, none out of order, none missing in between.               *)
ParquetOrder == IsPrefix(pqStored, [i \in 1 .. PqRecords |-> i])

(* Records the roller took wait although the input is closed, nothing has  *)
(* failed, nobody cancels and no other writer is serving. In the end all   *)
(* of them are stored.                                                     *)
ParquetWaits ==
    pqClosed /\ ~(pqFailed \/ pqCtx \/ pqBusy) /\ Len(pqStored) # pqNext - 1
=============================================================================
