----------------------------- MODULE KafkaReader -----------------------------
(***************************************************************************)
(* pkg/internal/adapter/kafkaclient/reader.go: Serve consumes partitions in *)
(* poll windows, decodes and submits each message and commits offsets       *)
(* according to mode and policy.  A process may die and start again; each   *)
(* Serve makes a reader, which begins at the group's committed offset or,   *)
(* where there is none, where StartAt says (a reader the caller supplies is *)
(* left out).                                                               *)
(*                                                                          *)
(* The broker is external: messages of a partition come in order, a commit  *)
(* may fail, and a failed commit may or may not have been recorded.  The    *)
(* driver commits nothing by itself for messages taken with FetchMessage,   *)
(* so mode auto, the default, in which Serve calls no commit, commits       *)
(* nothing.                                                                 *)
(***************************************************************************)
EXTENDS Naturals, FiniteSets

CONSTANTS
    Partitions,     \* topic partitions
    LogLen,         \* messages each ever holds, offsets 0..LogLen-1
    StartAts,       \* settings of StartAt to explore: "earliest", "latest"
    Policies,       \* commit settings to explore: "auto", "after-each", "after-batch", "time"
    MaxPollRecs,    \* messages per window
    MaxRuns         \* how often Serve is called, crashes included

ASSUME KafkaReaderAssumption ==
    /\ Policies \subseteq {"auto", "after-each", "after-batch", "time"}
    /\ StartAts \subseteq {"earliest", "latest"}
    /\ LogLen \in Nat /\ MaxPollRecs \in Nat \ {0} /\ MaxRuns \in Nat \ {0}

VARIABLES
    policy,       \* mode and policy; "auto" is mode auto, the others are manual
    startAt,      \* StartAt
    logEnd,       \* messages in the log, per partition
    runs,         \* calls of Serve so far
    kServe,       \* place of Serve
    kDone,        \* its context is cancelled
    position,     \* next offset the reader fetches, per partition
    inWindow,     \* messages counted in this window
    msg,          \* the message in hand: <<partition, offset>>, or << >>
    latest,       \* latestByTP: next offset to commit, 0 for none
    committed,    \* the group's offsets at the broker, 0 for none
    handled,      \* history: offsets decoded and submitted, or refused, per partition
    accepted,     \* history: offsets whose submit succeeded
    commitFailed, \* history: a commit of this run failed
    goal,         \* history: the offset after the last this run submitted, per partition
    firstRead     \* history: where the last Serve that found no committed offset began

setting == <<policy, startAt>>
ground == <<setting, logEnd, firstRead>>
kafkaVars == <<ground, runs, kServe, kDone, position, inWindow, msg, latest, committed,
               handled, accepted, commitFailed, goal>>
logVars == <<handled, accepted, goal>>

NoOffsets == [p \in Partitions |-> 0]

KafkaInit ==
    /\ policy \in Policies /\ startAt \in StartAts /\ logEnd = NoOffsets /\ firstRead = NoOffsets
    /\ runs = 0 /\ kServe = "idle" /\ kDone = FALSE
    /\ position = NoOffsets /\ inWindow = 0 /\ msg = << >> /\ latest = NoOffsets
    /\ committed = NoOffsets
    /\ handled = [p \in Partitions |-> {}] /\ accepted = [p \in Partitions |-> {}]
    /\ commitFailed = FALSE /\ goal = NoOffsets

\* A producer appends a message.
Produce(p) ==
    /\ logEnd[p] < LogLen
    /\ logEnd' = [logEnd EXCEPT ![p] = @ + 1]
    /\ UNCHANGED <<setting, firstRead, runs, kServe, kDone, position, inWindow, msg, latest,
                   committed, logVars, commitFailed>>

\* StartOffset: where a partition without a committed offset is read from.
StartOffset(p) == IF startAt = "latest" THEN logEnd[p] ELSE 0

\* A call while another is serving returns at once and is left out.
KafkaServe ==
    /\ kServe = "idle" /\ runs < MaxRuns
    /\ runs' = runs + 1 /\ kServe' = "window" /\ kDone' = FALSE
    /\ position' = [p \in Partitions |-> IF committed[p] = 0 THEN StartOffset(p) ELSE committed[p]]
    /\ firstRead' = [p \in Partitions |-> IF committed[p] = 0 THEN StartOffset(p) ELSE firstRead[p]]
    /\ latest' = NoOffsets /\ inWindow' = 0 /\ msg' = << >>
    /\ commitFailed' = FALSE /\ goal' = committed
    /\ UNCHANGED <<setting, logEnd, committed, handled, accepted>>

KafkaCancel ==
    /\ kServe # "idle" /\ ~kDone
    /\ kDone' = TRUE
    /\ UNCHANGED <<ground, runs, kServe, position, inWindow, msg, latest, committed, logVars,
                   commitFailed>>

\* The process dies; nothing of the run is left.
KafkaCrash ==
    /\ kServe # "idle"
    /\ kServe' = "idle" /\ msg' = << >> /\ latest' = NoOffsets /\ inWindow' = 0
    /\ UNCHANGED <<ground, runs, kDone, position, committed, logVars, commitFailed>>

\* A message that does not decode is skipped without being counted.
FetchMessage(p) ==
    /\ kServe = "window" /\ inWindow < MaxPollRecs /\ ~kDone
    /\ position[p] < logEnd[p]
    /\ position' = [position EXCEPT ![p] = @ + 1]
    /\ \/ /\ msg' = <<p, position[p]>> /\ kServe' = "submit"
          /\ UNCHANGED handled
       \/ /\ handled' = [handled EXCEPT ![p] = @ \cup {position[p]}]
          /\ UNCHANGED <<msg, kServe>>
    /\ UNCHANGED <<ground, runs, kDone, inWindow, latest, committed, accepted, commitFailed, goal>>

\* A refused message is skipped too.
SubmitFails ==
    /\ kServe = "submit"
    /\ handled' = [handled EXCEPT ![msg[1]] = @ \cup {msg[2]}]
    /\ kServe' = "window" /\ msg' = << >>
    /\ UNCHANGED <<ground, runs, kDone, position, inWindow, latest, committed, accepted,
                   commitFailed, goal>>

SubmitOK ==
    /\ kServe = "submit"
    /\ handled' = [handled EXCEPT ![msg[1]] = @ \cup {msg[2]}]
    /\ accepted' = [accepted EXCEPT ![msg[1]] = @ \cup {msg[2]}]
    /\ goal' = [goal EXCEPT ![msg[1]] = msg[2] + 1]
    /\ inWindow' = inWindow + 1
    /\ \/ /\ policy = "after-each"
          /\ kServe' = "commitEach"
          /\ UNCHANGED <<latest, msg>>
       \/ /\ policy \in {"after-batch", "time"}
          /\ latest' = [latest EXCEPT ![msg[1]] = msg[2] + 1]
          /\ kServe' = "window" /\ msg' = << >>
       \/ /\ policy = "auto"
          /\ kServe' = "window" /\ msg' = << >>
          /\ UNCHANGED latest
    /\ UNCHANGED <<ground, runs, kDone, position, committed, commitFailed>>

\* CommitMessages: recorded, refused, or recorded although it reports an error.
Commit(offsets) ==
    \/ /\ committed' = [p \in Partitions |-> IF offsets[p] = 0 THEN committed[p] ELSE offsets[p]]
       /\ commitFailed' \in {commitFailed, TRUE}
    \/ /\ UNCHANGED committed
       /\ commitFailed' = TRUE

CommitAfterEach ==
    /\ kServe = "commitEach"
    /\ Commit([NoOffsets EXCEPT ![msg[1]] = msg[2] + 1])
    /\ kServe' = "window" /\ msg' = << >>
    /\ UNCHANGED <<ground, runs, kDone, position, inWindow, latest, logVars>>

\* The window is full, its time is over, the fetch failed or the context ended.
WindowEnds ==
    /\ kServe = "window"
    /\ kServe' = "batch"
    /\ UNCHANGED <<ground, runs, kDone, position, inWindow, msg, latest, committed, logVars,
                   commitFailed>>

\* After-batch commits every window, time only when its ticker has fired; the
\* map is emptied whether or not the commit worked.
CommitLatest ==
    /\ kServe = "batch"
    /\ \/ /\ policy \in {"after-batch", "time"} /\ latest # NoOffsets
          /\ Commit(latest) /\ latest' = NoOffsets
       \/ /\ policy # "after-batch" \/ latest = NoOffsets
          /\ UNCHANGED <<committed, commitFailed, latest>>
    /\ kServe' = "check"
    /\ UNCHANGED <<ground, runs, kDone, position, inWindow, msg, logVars>>

NextWindow ==
    /\ kServe = "check" /\ ~kDone
    /\ kServe' = "window" /\ inWindow' = 0
    /\ UNCHANGED <<ground, runs, kDone, position, msg, latest, committed, logVars, commitFailed>>

MutCommitFinal ==
    /\ kServe = "check" /\ kDone
    /\ kServe' = "stopped" /\ latest' = NoOffsets
    /\ UNCHANGED <<ground, runs, kDone, position, inWindow, msg, committed, logVars, commitFailed>>

\* Shutdown commits what is left, with a context that is not cancelled.
CommitFinal ==
    /\ kServe = "check" /\ kDone
    /\ IF policy # "auto" /\ latest # NoOffsets
       THEN Commit(latest)
       ELSE UNCHANGED <<committed, commitFailed>>
    /\ kServe' = "stopped" /\ latest' = NoOffsets
    /\ UNCHANGED <<ground, runs, kDone, position, inWindow, msg, logVars>>

KafkaReturns ==
    /\ kServe = "stopped"
    /\ kServe' = "idle"
    /\ UNCHANGED <<ground, runs, kDone, position, inWindow, msg, latest, committed, logVars,
                   commitFailed>>

-----------------------------------------------------------------------------
KafkaServeStep ==
    \/ \E p \in Partitions : FetchMessage(p)
    \/ SubmitOK \/ SubmitFails \/ CommitAfterEach \/ WindowEnds \/ CommitLatest
    \/ NextWindow \/ CommitFinal \/ KafkaReturns

KafkaNext == (\E p \in Partitions : Produce(p)) \/ KafkaServe \/ KafkaCancel \/ KafkaCrash \/ KafkaServeStep

KafkaSpec == KafkaInit /\ [][KafkaNext]_kafkaVars

-----------------------------------------------------------------------------
\* What crashes, restarts and failed commits leave (Serve, commitLatest):
\*   the group never skips a message that no run has handed to submit or failed to
\*   decode, except, with StartAt "latest", those the log held when a Serve found no
\*   committed offset, a Serve after a crash before the first commit included;
\*   in manual mode a Serve that is stopped, none of whose commits failed, has
\*   committed all that it submitted and nothing else; in mode auto the group has
\*   nothing committed, ever, although types/kafka_adapter.go:107 says that the
\*   driver manages it and the builder's reader names an interval for it.
CommitsExact ==
    /\ \A p \in Partitions : \A o \in 0..LogLen - 1 :
         o < committed[p] => o \in handled[p] \/ (startAt = "latest" /\ o < firstRead[p])
    /\ kServe = "stopped" /\ ~commitFailed /\ policy # "auto" => committed = goal
    /\ policy = "auto" => committed = NoOffsets

\* types/kafka_adapter.go says of manual mode that the adapter commits after
\* submit success: then nothing below a committed offset was refused by submit
\* or could not be decoded.
CommittedSubmitted ==
    \A p \in Partitions : \A o \in firstRead[p]..LogLen - 1 : o < committed[p] => o \in accepted[p]
=============================================================================
