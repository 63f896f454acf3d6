--------------------------- MODULE CircuitBreaker ---------------------------
(***************************************************************************)
(* pkg/internal/circuitbreaker: a two-state breaker shared by goroutines.  *)
(* Every method reads the wall clock (RecordError also the debounce        *)
(* period) BEFORE it takes stateLock, changes the state under the lock,    *)
(* and tells the sensors and the reset channel AFTER it has released it.   *)
(* A call is therefore three kinds of step: Begin, one locked step, and    *)
(* the notifications, and other calls run between them.                    *)
(***************************************************************************)
EXTENDS Integers, FiniteSets

CONSTANTS
    Callers,            \* goroutines that call the breaker
    ErrorThreshold,     \* errorThreshold, any int: it is not validated
    ConfiguredWindow,   \* the timeWindow argument of NewCircuitBreaker
    DebouncePeriods,    \* the arguments SetDebouncePeriod is called with
    MaxDelay,           \* longest time a caller waits between time.Now() and the lock
    MaxTime, MaxErrors  \* exploration bounds

ASSUME CallersAssumption == IsFiniteSet(Callers)
ASSUME PolicyAssumption ==
    /\ ErrorThreshold \in Int
    /\ ConfiguredWindow \in Int
    /\ DebouncePeriods \subseteq Int
ASSUME BoundsAssumption ==
    /\ MaxDelay \in Nat
    /\ MaxTime \in Nat
    /\ MaxErrors \in Nat

VARIABLES
    clock,            \* the wall clock
    allowed,          \* TRUE: closed, work may proceed
    errorCount,
    lastErrorTime,    \* NoTime before the first recorded error
    lastTripped,      \* NoTime before the first trip
    debounce,         \* debounceNanos
    resetNotifyChan,  \* number of signals buffered, capacity 1
    pc,               \* where each caller is in its call
    now, deb,         \* each caller's locals, read before the lock
    balance,          \* trips minus resets the sensors have been told of
    openedAt,         \* history: the clock when the breaker last opened
    resetOwed         \* history: a reset nobody has received a signal for yet

state == <<allowed, errorCount, lastErrorTime, lastTripped>>
history == <<openedAt, resetOwed>>
vars == <<clock, state, debounce, resetNotifyChan, pc, now, deb, balance, history>>

NoTime == -1

Calls == {"Allow", "RecordError", "Reset", "Trip"}
Notices == {"notifyTrip", "notifyReset", "signalReset"}

\* NewCircuitBreaker clamps a negative window to zero.
timeWindow == IF ConfiguredWindow < 0 THEN 0 ELSE ConfiguredWindow

Init ==
    /\ clock = 0
    /\ allowed = TRUE
    /\ errorCount = 0
    /\ lastErrorTime = NoTime
    /\ lastTripped = NoTime
    /\ debounce = 0
    /\ resetNotifyChan = 0
    /\ pc = [c \in Callers |-> "idle"]
    /\ now = [c \in Callers |-> 0]
    /\ deb = [c \in Callers |-> 0]
    /\ balance = 0
    /\ openedAt = 0
    /\ resetOwed = FALSE

-----------------------------------------------------------------------------
\* now := time.Now() and, in RecordError, the atomic load of debounceNanos.
Begin(c, call) ==
    /\ pc[c] = "idle"
    /\ call = "RecordError" => errorCount < MaxErrors
    /\ pc' = [pc EXCEPT ![c] = call]
    /\ now' = [now EXCEPT ![c] = clock]
    /\ deb' = [deb EXCEPT ![c] = debounce]
    /\ UNCHANGED <<clock, state, debounce, resetNotifyChan, balance, history>>

\* A locked section that leaves the call in step `next`.
Leave(c, next) ==
    /\ pc' = [pc EXCEPT ![c] = next]
    /\ UNCHANGED <<clock, debounce, resetNotifyChan, now, deb, balance>>

MutOpenForgettingTime(c) ==
    /\ allowed' = FALSE
    /\ lastTripped' = lastTripped
    /\ openedAt' = clock
    /\ UNCHANGED resetOwed

\* The breaker opens: allowed = false, lastTripped = now.
Open(c) ==
    /\ allowed' = FALSE
    /\ lastTripped' = now[c]
    /\ openedAt' = clock
    /\ UNCHANGED resetOwed

MutCloseKeepingErrors ==
    /\ allowed' = TRUE
    /\ errorCount' = errorCount
    /\ resetOwed' = TRUE
    /\ UNCHANGED <<lastErrorTime, lastTripped, openedAt>>

\* The breaker closes: allowed = true, errorCount = 0.
Close ==
    /\ allowed' = TRUE
    /\ errorCount' = 0
    /\ resetOwed' = TRUE
    /\ UNCHANGED <<lastErrorTime, lastTripped, openedAt>>

WindowElapsed(c) == timeWindow <= 0 \/ now[c] - lastTripped >= timeWindow

AllowLocked(c) ==
    /\ pc[c] = "Allow"
    /\ \/ /\ ~allowed /\ WindowElapsed(c)
          /\ Close
          /\ Leave(c, "notifyReset")
       \/ /\ allowed \/ ~WindowElapsed(c)
          /\ UNCHANGED <<state, history>>
          /\ Leave(c, "idle")

Debounced(c) ==
    deb[c] > 0 /\ lastErrorTime # NoTime /\ now[c] - lastErrorTime < deb[c]

MutTripAgain == errorCount + 1 >= ErrorThreshold

\* shouldTrip in RecordError, after errorCount++
ShouldTrip == allowed /\ errorCount + 1 >= ErrorThreshold

RecordErrorLocked(c) ==
    /\ pc[c] = "RecordError"
    /\ \/ /\ Debounced(c)
          /\ UNCHANGED <<state, history>>
          /\ Leave(c, "idle")
       \/ /\ ~Debounced(c)
          /\ lastErrorTime' = now[c]
          /\ errorCount' = errorCount + 1
          /\ \/ /\ ShouldTrip
                /\ Open(c)
                /\ Leave(c, "notifyTrip")
             \/ /\ ~ShouldTrip
                /\ UNCHANGED <<allowed, lastTripped, history>>
                /\ Leave(c, "idle")

ResetLocked(c) ==
    /\ pc[c] = "Reset"
    /\ \/ /\ ~allowed
          /\ Close
          /\ Leave(c, "notifyReset")
       \/ /\ allowed
          /\ UNCHANGED <<state, history>>
          /\ Leave(c, "idle")

TripLocked(c) ==
    /\ pc[c] = "Trip"
    /\ \/ /\ allowed
          /\ Open(c)
          /\ UNCHANGED <<errorCount, lastErrorTime>>
          /\ Leave(c, "notifyTrip")
       \/ /\ ~allowed
          /\ UNCHANGED <<state, history>>
          /\ Leave(c, "idle")

-----------------------------------------------------------------------------
NotifyTrip(c) ==
    /\ pc[c] = "notifyTrip"
    /\ balance' = balance + 1
    /\ pc' = [pc EXCEPT ![c] = "idle"]
    /\ UNCHANGED <<clock, state, debounce, resetNotifyChan, now, deb, history>>

NotifyReset(c) ==
    /\ pc[c] = "notifyReset"
    /\ balance' = balance - 1
    /\ pc' = [pc EXCEPT ![c] = "signalReset"]
    /\ UNCHANGED <<clock, state, debounce, resetNotifyChan, now, deb, history>>

MutSignalLost(c) ==
    /\ pc[c] = "signalReset"
    /\ pc' = [pc EXCEPT ![c] = "idle"]
    /\ UNCHANGED <<clock, state, debounce, resetNotifyChan, now, deb, balance, history>>

\* A non-blocking send: a signal already buffered stands for this one too.
SignalReset(c) ==
    /\ pc[c] = "signalReset"
    /\ resetNotifyChan' = 1
    /\ pc' = [pc EXCEPT ![c] = "idle"]
    /\ UNCHANGED <<clock, state, debounce, now, deb, balance, history>>

\* A receive on the channel NotifyOnReset returns.
AwaitReset ==
    /\ resetNotifyChan = 1
    /\ resetNotifyChan' = 0
    /\ resetOwed' = FALSE
    /\ UNCHANGED <<clock, state, debounce, pc, now, deb, balance, openedAt>>

SetDebouncePeriod(seconds) ==
    /\ debounce' = IF seconds <= 0 THEN 0 ELSE seconds
    /\ UNCHANGED <<clock, state, resetNotifyChan, pc, now, deb, balance, history>>

\* Time passes; no caller waits longer than MaxDelay for the lock.
Tick ==
    /\ clock < MaxTime
    /\ \A c \in Callers : pc[c] \in Calls => clock - now[c] < MaxDelay
    /\ clock' = clock + 1
    /\ UNCHANGED <<state, debounce, resetNotifyChan, pc, now, deb, balance, history>>

Next ==
    \/ \E c \in Callers :
        \/ \E call \in Calls : Begin(c, call)
        \/ AllowLocked(c)
        \/ RecordErrorLocked(c)
        \/ ResetLocked(c)
        \/ TripLocked(c)
        \/ NotifyTrip(c)
        \/ NotifyReset(c)
        \/ SignalReset(c)
    \/ AwaitReset
    \/ \E seconds \in DebouncePeriods : SetDebouncePeriod(seconds)
    \/ Tick

Spec == Init /\ [][Next]_vars

-----------------------------------------------------------------------------
\* The fields keep their types, and a caller's clock reading is never ahead
\* of the clock nor, while it waits for the lock, more than MaxDelay behind.
TypeOK ==
    /\ clock \in Nat
    /\ allowed \in BOOLEAN
    /\ errorCount \in Nat
    /\ lastErrorTime \in Nat \cup {NoTime}
    /\ lastTripped \in Nat \cup {NoTime}
    /\ debounce \in Nat
    /\ resetNotifyChan \in {0, 1}
    /\ pc \in [Callers -> {"idle"} \cup Calls \cup Notices]
    /\ now \in [Callers -> Nat]
    /\ deb \in [Callers -> Nat]
    /\ balance \in Int
    /\ openedAt \in Nat
    /\ resetOwed \in BOOLEAN
    /\ \A c \in Callers :
        /\ now[c] <= clock
        /\ pc[c] \in Calls => clock - now[c] <= MaxDelay

\* A closed breaker is below its threshold: whatever mixture of Allow, Reset,
\* Trip and late RecordError calls led here, the next error budget is intact,
\* so no error count that should have tripped the breaker is left behind.
ClosedBelowThreshold == allowed => errorCount = 0 \/ errorCount < ErrorThreshold

At(step) == {c \in Callers : pc[c] = step}

\* The sensors hear of every transition exactly once: what they have been told
\* plus what callers that left the lock are still going to tell them is the
\* breaker's real state, however late and in whatever order they are told.
NotificationBalance ==
    balance + Cardinality(At("notifyTrip")) - Cardinality(At("notifyReset"))
        = IF allowed THEN 0 ELSE 1

\* Only Reset may cut the cooldown short: a step of Allow closes the breaker
\* at least timeWindow after it opened, less the time the call that opened it
\* waited for the lock with the clock reading it had already taken.
CooldownHonoured ==
    [][\A c \in Callers : AllowLocked(c) /\ ~allowed /\ allowed'
            => clock - openedAt >= timeWindow - MaxDelay]_vars

\* A listener on NotifyOnReset never misses a reset: until a signal sent for
\* it, or after it, has been received, one is buffered or about to be sent,
\* even though signalReset drops a signal when the channel is full.
ResetSignalNotLost ==
    resetOwed => \/ resetNotifyChan = 1
                 \/ \E c \in Callers : pc[c] \in {"notifyReset", "signalReset"}
=============================================================================
