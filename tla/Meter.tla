------------------------------- MODULE Meter --------------------------------
(* A meter's Monitor loop with the goroutine that restarts the idle timer,   *)
(* SetMetricPeak, and what sensors and users do meanwhile. Monitor ends on   *)
(* completion, on too many errors, on cancellation or after a time without   *)
(* activity. A timer's channel holds nothing across Stop and Reset (Go 1.23  *)
(* and later), so the timer is the time left until it fires.                 *)
EXTENDS Integers

CONSTANTS
    IdleTimeouts,  \* timeouts SetIdleTimeout may choose; the smallest is configured
    TotalItems,    \* WithTotalItems; 0 for none
    MaxSubmits,    \* bound: elements submitted
    MaxActivity,   \* bound: elements processed
    PeakSetters,   \* goroutines that call SetMetricPeak
    Peaks,         \* values they report, one per goroutine
    MaxSettings    \* bound: calls of SetIdleTimeout

\* Timeouts are finitely many durations, and a metric's values are counts.
ASSUME MeterAssumption ==
    /\ IdleTimeouts \subseteq Nat /\ Peaks \subseteq Nat
    /\ \E t \in IdleTimeouts : \A u \in IdleTimeouts : u <= t
    /\ \E t \in IdleTimeouts : \A u \in IdleTimeouts : t <= u

VARIABLES
    idleTimeout,
    resettings,    \* calls of SetIdleTimeout so far
    timeLeft,    \* until the idle timer fires; Off when it is stopped
    quiet,       \* history: time since the timer was last set, as far as it matters
    dataCh,      \* the channel of one token that ReportData fills
    submitCount,   \* MetricTotalSubmittedCount
    processed,   \* MetricTotalProcessedCount
    failed,      \* transformation errors among them
    tolerant,    \* no error threshold is configured; the first error reaches one
    meterDone,   \* the meter's context
    monitor,     \* "run", or why Monitor returned
    idler,       \* monitorIdleTime: "run" or "ended"
    peak, peaking, reported

meterVars == <<idleTimeout, resettings, timeLeft, quiet, dataCh, submitCount, processed, failed,
               tolerant, meterDone, monitor, idler, peak, peaking, reported>>
timerVars == <<idleTimeout, resettings, timeLeft, quiet>>
workVars == <<submitCount, processed, failed, tolerant>>
peakVars == <<peak, peaking, reported>>

Off == -1
Longest == CHOOSE t \in IdleTimeouts : \A u \in IdleTimeouts : u <= t
Shortest == CHOOSE t \in IdleTimeouts : \A u \in IdleTimeouts : t <= u

MeterInit ==
    /\ idleTimeout = Shortest /\ resettings = 0 /\ timeLeft = Shortest /\ quiet = 0
    /\ dataCh = 0 /\ submitCount = 0 /\ processed = 0 /\ failed = 0 /\ tolerant \in BOOLEAN
    /\ meterDone = FALSE /\ monitor = "run" /\ idler = "run"
    /\ peak = 0 /\ peaking = [s \in PeakSetters |-> [at |-> "new", val |-> 0, seen |-> 0]]
    /\ reported = {}

Expired == timeLeft = 0

MeterTick ==
    /\ timeLeft' = IF timeLeft > 0 THEN timeLeft - 1 ELSE timeLeft
    /\ quiet' = IF quiet < Longest THEN quiet + 1 ELSE quiet
    /\ UNCHANGED <<idleTimeout, resettings, dataCh, workVars, meterDone, monitor, idler, peakVars>>

MeterCancel ==
    /\ meterDone' = TRUE
    /\ UNCHANGED <<timerVars, dataCh, workVars, monitor, idler, peakVars>>

\* ReportData: the token is dropped when one is waiting already.
ReportData == dataCh' = 1

\* What the sensor does for an element. A wire tells of a Submit only after the element
\* is in its channel: it may have been processed by then.
Submitted ==
    /\ submitCount < MaxSubmits
    /\ ReportData
    /\ submitCount' = submitCount + 1
    /\ UNCHANGED <<timerVars, processed, failed, tolerant, meterDone, monitor, idler, peakVars>>

Process(ok) ==
    /\ processed < MaxActivity
    /\ ReportData
    /\ processed' = processed + 1
    /\ failed' = IF ok THEN failed ELSE failed + 1
    /\ UNCHANGED <<timerVars, submitCount, tolerant, meterDone, monitor, idler, peakVars>>

\* resetIdleTimerLocked, with the timeout to use from now on.
ResetIdleTimer(t) ==
    /\ timeLeft' = t
    /\ quiet' = 0

SetIdleTimeout(t) ==
    /\ resettings < MaxSettings /\ resettings' = resettings + 1
    /\ idleTimeout' = t
    /\ ResetIdleTimer(t)
    /\ UNCHANGED <<dataCh, workVars, meterDone, monitor, idler, peakVars>>

\* monitorIdleTime.
IdleTimeSeesData ==
    /\ idler = "run" /\ dataCh = 1
    /\ dataCh' = 0
    /\ ResetIdleTimer(idleTimeout)
    /\ UNCHANGED <<idleTimeout, resettings, workVars, meterDone, monitor, idler, peakVars>>

IdleTimeEnds ==
    /\ idler = "run" /\ meterDone
    /\ idler' = "ended" /\ timeLeft' = Off
    /\ UNCHANGED <<idleTimeout, resettings, quiet, dataCh, workVars, meterDone, monitor, peakVars>>

-----------------------------------------------------------------------------
(* Monitor: one select per turn. *)

Ends(why) ==
    /\ monitor' = why
    /\ meterDone' = TRUE
    /\ UNCHANGED <<timerVars, dataCh, workVars, idler, peakVars>>

MonitorIdle == monitor = "run" /\ Expired /\ Ends("idle")
MonitorCancelled == monitor = "run" /\ meterDone /\ Ends("cancelled")

\* A tick. The error threshold is looked at before the count of the elements;
\* neither holds: the display is redrawn, which changes nothing here.
TooManyErrors == ~tolerant /\ submitCount > 0 /\ failed > 0
Complete == TotalItems # 0 /\ processed = TotalItems
MonitorTick ==
    /\ monitor = "run"
    /\ \/ TooManyErrors /\ Ends("errors")
       \/ ~TooManyErrors /\ Complete /\ Ends("complete")

MonitorStep == MonitorIdle \/ MonitorCancelled \/ MonitorTick

-----------------------------------------------------------------------------
(* SetMetricPeak: load, compare, compare-and-swap, again on failure. *)

PeakBegins(s, v) ==
    /\ peaking[s].at = "new"
    /\ peaking' = [peaking EXCEPT ![s] = [at |-> "load", val |-> v, seen |-> 0]]
    /\ UNCHANGED <<timerVars, dataCh, workVars, meterDone, monitor, idler, peak, reported>>

PeakLoad(s) ==
    /\ peaking[s].at = "load"
    /\ IF peaking[s].val <= peak
       THEN peaking' = [peaking EXCEPT ![s].at = "done"] /\ reported' = reported \cup {peaking[s].val}
       ELSE peaking' = [peaking EXCEPT ![s].at = "swap", ![s].seen = peak] /\ UNCHANGED reported
    /\ UNCHANGED <<timerVars, dataCh, workVars, meterDone, monitor, idler, peak>>

MutPeakSwap(s) ==
    /\ peaking[s].at = "swap"
    /\ peak' = peaking[s].val
    /\ peaking' = [peaking EXCEPT ![s].at = "done"]
    /\ reported' = reported \cup {peaking[s].val}
    /\ UNCHANGED <<timerVars, dataCh, workVars, meterDone, monitor, idler>>

PeakSwap(s) ==
    /\ peaking[s].at = "swap"
    /\ IF peak = peaking[s].seen
       THEN /\ peak' = peaking[s].val
            /\ peaking' = [peaking EXCEPT ![s].at = "done"]
            /\ reported' = reported \cup {peaking[s].val}
       ELSE /\ peaking' = [peaking EXCEPT ![s].at = "load"]
            /\ UNCHANGED <<peak, reported>>
    /\ UNCHANGED <<timerVars, dataCh, workVars, meterDone, monitor, idler>>

-----------------------------------------------------------------------------

MeterNext ==
    \/ MeterTick \/ MeterCancel
    \/ Submitted \/ \E ok \in BOOLEAN : Process(ok)
    \/ \E t \in IdleTimeouts : SetIdleTimeout(t)
    \/ IdleTimeSeesData \/ IdleTimeEnds
    \/ MonitorIdle \/ MonitorCancelled \/ MonitorTick
    \/ \E s \in PeakSetters : PeakLoad(s) \/ PeakSwap(s) \/ \E v \in Peaks : PeakBegins(s, v)

\* Time passes, and the two goroutines are scheduled.
MeterFairness ==
    /\ WF_meterVars(MeterTick) /\ WF_meterVars(MonitorStep) /\ WF_meterVars(IdleTimeSeesData)

MeterSpec == MeterInit /\ [][MeterNext]_meterVars /\ MeterFairness

-----------------------------------------------------------------------------
(* Properties. *)

\* Monitor gives up for idleness only when the configured time, as last set, has
\* passed since an activity or SetIdleTimeout last set the timer.
IdleNotEarly == monitor = "run" /\ monitor' = "idle" => quiet >= idleTimeout

\* The peak is the largest value whose SetMetricPeak has returned, whichever way
\* concurrent calls interleave: it never goes back and loses none.
PeakIsMax == \A v \in reported : v <= peak

\* Monitor has not returned. It does, although it may miss completion when an
\* element more than expected is counted between two ticks: once activity ends, no
\* reset of the timer has left it stopped.
MonitorRuns == monitor = "run"

\* No step of the meter is an early end or leaves a peak behind.
MeterSound == [][IdleNotEarly /\ PeakIsMax']_meterVars
=============================================================================
