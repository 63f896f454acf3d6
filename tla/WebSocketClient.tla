-------------------------- MODULE WebSocketClient --------------------------
(***************************************************************************)
(* pkg/internal/adapter/websocketclient: one call of Serve, ServeWriter or  *)
(* ServeDuplex.  Each dials a connection; Serve runs the read loop on it,   *)
(* ServeWriter the write loop, ServeDuplex both, and it cancels the one     *)
(* when the other reports an error.                                         *)
(*                                                                          *)
(* The peer and the library are external: the peer may close normally or    *)
(* break the connection; a Read that its context ends closes the            *)
(* connection, after which a Write fails.                                   *)
(***************************************************************************)
EXTENDS Naturals, Sequences

CONSTANTS
    OutMsgs,   \* messages in the caller's input channel
    InMsgs     \* messages the peer sends

ASSUME WsClientAssumption == OutMsgs \in Nat /\ InMsgs \in Nat

VARIABLES
    wsCall,      \* "serve", "writer", "duplex"
    callAt,      \* place of the call: "dial", "wait", "returned"
    wsDone,      \* the caller's context is done
    cancelled,   \* connCtx is cancelled
    link,        \* "up", "closed" by the peer in order, "down"
    fromPeer,    \* messages the peer has yet to send
    inLen,       \* messages in the input channel
    inClosed,    \* the caller has closed it
    readAt,      \* read loop: "off", "read", "submit", "ended"
    writeAt,     \* write loop: "off", "select", "write", "ended"
    errCh,       \* results of the loops, TRUE for an error
    received,    \* results collected
    firstErr,    \* an error was among them
    unsent       \* history: a message was taken from the channel and not sent

wsVars == <<wsCall, callAt, wsDone, cancelled, link, fromPeer, inLen, inClosed, readAt,
            writeAt, errCh, received, firstErr, unsent>>

Loops == IF wsCall = "duplex" THEN 2 ELSE 1
ConnDone == wsDone \/ cancelled

WsInit ==
    /\ wsCall \in {"serve", "writer", "duplex"}
    /\ callAt = "dial" /\ wsDone = FALSE /\ cancelled = FALSE
    /\ link = "up" /\ fromPeer = InMsgs
    /\ inLen = OutMsgs /\ inClosed = FALSE
    /\ readAt = "off" /\ writeAt = "off"
    /\ errCh = << >> /\ received = 0 /\ firstErr = FALSE /\ unsent = FALSE

Dial ==
    /\ callAt = "dial"
    /\ \/ /\ callAt' = "wait"
          /\ readAt' = IF wsCall = "writer" THEN "off" ELSE "read"
          /\ writeAt' = IF wsCall = "serve" THEN "off" ELSE "select"
          /\ UNCHANGED firstErr
       \/ /\ callAt' = "returned" /\ firstErr' = TRUE
          /\ UNCHANGED <<readAt, writeAt>>
    /\ UNCHANGED <<wsCall, wsDone, cancelled, link, fromPeer, inLen, inClosed, errCh,
                   received, unsent>>

-----------------------------------------------------------------------------
(* The caller and the peer. *)

CallerActs ==
    /\ \/ wsDone' = TRUE /\ UNCHANGED inClosed
       \/ inClosed' = TRUE /\ UNCHANGED wsDone
    /\ UNCHANGED <<wsCall, callAt, cancelled, link, fromPeer, inLen, readAt, writeAt,
                   errCh, received, firstErr, unsent>>

PeerActs ==
    /\ link = "up" /\ callAt = "wait"
    /\ link' \in {"closed", "down"}
    /\ UNCHANGED <<wsCall, callAt, wsDone, cancelled, fromPeer, inLen, inClosed, readAt,
                   writeAt, errCh, received, firstErr, unsent>>

-----------------------------------------------------------------------------
(* The read loop. *)

\* A message that does not decode is skipped.
ReadMessage ==
    /\ readAt = "read" /\ link = "up" /\ fromPeer > 0
    /\ fromPeer' = fromPeer - 1
    /\ readAt' \in {"read", "submit"}
    /\ UNCHANGED <<wsCall, callAt, wsDone, cancelled, link, inLen, inClosed, writeAt,
                   errCh, received, firstErr, unsent>>

\* An error of submit is logged and nothing else.
SubmitMessage ==
    /\ readAt = "submit"
    /\ readAt' = "read"
    /\ UNCHANGED <<wsCall, callAt, wsDone, cancelled, link, fromPeer, inLen, inClosed,
                   writeAt, errCh, received, firstErr, unsent>>

\* handleReadError: a normal close, the end of the context and the idle timeout
\* are no errors.  An expired context closes the connection.
ReadLoopEnds ==
    /\ readAt = "read"
    /\ \/ link = "closed" /\ errCh' = Append(errCh, FALSE) /\ UNCHANGED link
       \/ link = "down" /\ errCh' = Append(errCh, TRUE) /\ UNCHANGED link
       \/ ConnDone /\ errCh' = Append(errCh, FALSE) /\ link' = "down"
    /\ readAt' = "ended"
    /\ UNCHANGED <<wsCall, callAt, wsDone, cancelled, fromPeer, inLen, inClosed, writeAt,
                   received, firstErr, unsent>>

IdleTimeout ==
    /\ readAt = "read" /\ link = "up"
    /\ link' = "down" /\ errCh' = Append(errCh, FALSE)
    /\ readAt' = "ended"
    /\ UNCHANGED <<wsCall, callAt, wsDone, cancelled, fromPeer, inLen, inClosed, writeAt,
                   received, firstErr, unsent>>

-----------------------------------------------------------------------------
(* The write loop. *)

TakeMessage ==
    /\ writeAt = "select" /\ inLen > 0
    /\ inLen' = inLen - 1
    /\ writeAt' = "write"
    /\ UNCHANGED <<wsCall, callAt, wsDone, cancelled, link, fromPeer, inClosed, readAt,
                   errCh, received, firstErr, unsent>>

\* It may fail to encode, be cut off by its timeout or find the link down.
WriteMessage ==
    /\ writeAt = "write"
    /\ \/ /\ link = "up" /\ ~ConnDone
          /\ writeAt' = "select"
          /\ UNCHANGED <<link, errCh, unsent>>
       \/ /\ writeAt' = "ended" /\ errCh' = Append(errCh, TRUE)
          /\ unsent' = TRUE
          /\ link' \in {link, "down"}
    /\ UNCHANGED <<wsCall, callAt, wsDone, cancelled, fromPeer, inLen, inClosed, readAt,
                   received, firstErr>>

WriteLoopEnds ==
    /\ writeAt = "select"
    /\ \/ ConnDone /\ errCh' = Append(errCh, TRUE)
       \/ inClosed /\ inLen = 0 /\ errCh' = Append(errCh, FALSE)
    /\ writeAt' = "ended"
    /\ UNCHANGED <<wsCall, callAt, wsDone, cancelled, link, fromPeer, inLen, inClosed,
                   readAt, received, firstErr, unsent>>

-----------------------------------------------------------------------------
(* Waiting for the loops. *)

MutForgetError ==
    /\ callAt = "wait" /\ errCh # << >>
    /\ errCh' = Tail(errCh) /\ received' = received + 1
    /\ firstErr' = Head(errCh)
    /\ cancelled' = (cancelled \/ Head(errCh))
    /\ UNCHANGED <<wsCall, callAt, wsDone, link, fromPeer, inLen, inClosed, readAt,
                   writeAt, unsent>>

CollectError ==
    /\ callAt = "wait" /\ errCh # << >>
    /\ errCh' = Tail(errCh) /\ received' = received + 1
    /\ firstErr' = (firstErr \/ Head(errCh))
    /\ cancelled' = (cancelled \/ Head(errCh))
    /\ UNCHANGED <<wsCall, callAt, wsDone, link, fromPeer, inLen, inClosed, readAt,
                   writeAt, unsent>>

\* wg.Wait and the deferred Close.
ServeEnds ==
    /\ callAt = "wait" /\ received = Loops
    /\ callAt' = "returned" /\ link' = "down"
    /\ UNCHANGED <<wsCall, wsDone, cancelled, fromPeer, inLen, inClosed, readAt, writeAt,
                   errCh, received, firstErr, unsent>>

-----------------------------------------------------------------------------
ReadLoopStep == ReadMessage \/ SubmitMessage \/ ReadLoopEnds
WriteLoopStep == TakeMessage \/ WriteMessage \/ WriteLoopEnds
CallStep == Dial \/ CollectError \/ ServeEnds

WsNext == CallerActs \/ PeerActs \/ IdleTimeout \/ ReadLoopStep \/ WriteLoopStep \/ CallStep

\* A loop that can move is scheduled; the submit callback returns.
WsFairness ==
    /\ WF_wsVars(ReadLoopStep)
    /\ WF_wsVars(WriteLoopStep)
    /\ WF_wsVars(CallStep)

WsSpec == WsInit /\ [][WsNext]_wsVars /\ WsFairness

-----------------------------------------------------------------------------
\* A call that returns without an error has sent every message it took from the
\* input channel, whichever loop ended first (ServeDuplex keeps the first
\* error, writeLoop reports a failed write).
LossReported == callAt = "returned" /\ ~firstErr => ~unsent

\* The caller's context is done, or a loop has failed, and the call has not
\* returned. In the end it does: the failing loop takes the other one with it
\* (cancel in ServeDuplex).
ServeLingers == (wsDone \/ firstErr) /\ callAt # "returned"
=============================================================================
