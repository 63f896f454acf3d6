---------------------------- MODULE WireLifecycle ----------------------------
(***************************************************************************)
(* pkg/internal/wire/lifecycle.go: Start, Stop and Restart of one wire,    *)
(* called again and again and by several goroutines at once, for instance  *)
(* by the user and by SurgeProtector.Reset. Start and Stop of different    *)
(* callers overlap in every way; Restart replaces fields without any       *)
(* lock, so it is called while no other call is in progress.               *)
(*                                                                         *)
(* A generation is what Restart makes anew: the context, the channels and  *)
(* the sync.Once values. Goroutines are counted by generation and place.   *)
(* Of the elements only the number waiting in inChan is kept, and a        *)
(* worker's send may always be possible: OutputChan is read or has room.   *)
(***************************************************************************)
EXTENDS Integers, FiniteSets

CONSTANTS
    Controllers,     \* goroutines that call Start, Stop and Restart
    Concurrency,     \* maxConcurrency
    LifeFastPath,        \* the wire runs runFastWorker instead of runWorker
    Buffer,          \* capacity of inChan
    MaxCalls         \* exploration bound on Start, Stop and Restart calls

ASSUME BoundsAssumption ==
    /\ Concurrency \in Nat \ {0} /\ Buffer \in Nat /\ MaxCalls \in Nat
    /\ LifeFastPath \in BOOLEAN

Generations == 0..MaxCalls

VARIABLES
    started,       \* the flag Start and Stop compare and swap
    gen,           \* the current generation
    ctxCancelled, closed, once,  \* of each generation
    queued,        \* of each generation: elements in inChan
    born,          \* goroutines started that have not run yet, by kind
    live,          \* goroutines by generation and place
    cpc, left,     \* each controller: where it is, goroutines it has to start
    restarting,    \* the controllers whose call is Restart
    calls,         \* history: calls made
    lifePanicked       \* a worker sent on a closed channel

lifecycle == <<started, gen, ctxCancelled, closed, once>>
goroutines == <<queued, born, live, lifePanicked>>
control == <<cpc, left, restarting, calls>>
wireLifeVars == <<lifecycle, goroutines, control>>

Places == {"select", "check", "emit", "errors"}

LifeInit ==
    /\ started = FALSE /\ gen = 0
    /\ ctxCancelled = [g \in Generations |-> FALSE]
    /\ closed = [g \in Generations |-> FALSE]
    /\ once = [g \in Generations |-> "fresh"]
    /\ queued = [g \in Generations |-> 0]
    /\ born = [kind \in {"worker", "errors"} |-> 0]
    /\ live = [g \in Generations |-> [p \in Places |-> 0]]
    /\ cpc = [c \in Controllers |-> "idle"]
    /\ left = [c \in Controllers |-> 0]
    /\ restarting = {}
    /\ calls = 0
    /\ lifePanicked = FALSE

\* The count of wg: a goroutine is counted before it is started.
WaitGroupZero ==
    /\ \A kind \in DOMAIN born : born[kind] = 0
    /\ \A g \in Generations, p \in Places : live[g][p] = 0

-----------------------------------------------------------------------------
(* Controllers                                                             *)

LifeGoto(c, at) == cpc' = [cpc EXCEPT ![c] = at]

\* A call may begin; nothing overlaps a Restart.
Begins(c) ==
    /\ cpc[c] = "idle" /\ calls < MaxCalls
    /\ restarting = {}
    /\ calls' = calls + 1

\* The first compare-and-swap of Start: a started wire is left alone.
LifeStart(c) ==
    /\ Begins(c)
    /\ IF started
       THEN UNCHANGED <<started, cpc, left>>
       ELSE /\ started' = TRUE
            /\ LifeGoto(c, "spawn")
            /\ left' = [left EXCEPT ![c] = Concurrency + 1]
    /\ UNCHANGED <<gen, ctxCancelled, closed, once, goroutines, restarting>>

\* Start adds one goroutine after the other: handleErrorElements, then the
\* workers.
Spawn(c) ==
    /\ cpc[c] = "spawn" /\ left[c] > 0
    /\ born' = [born EXCEPT ![IF left[c] = Concurrency + 1 THEN "errors" ELSE "worker"] = @ + 1]
    /\ left' = [left EXCEPT ![c] = @ - 1]
    /\ UNCHANGED <<lifecycle, queued, live, lifePanicked, cpc, restarting, calls>>

StartReturns(c) ==
    /\ cpc[c] = "spawn" /\ left[c] = 0
    /\ LifeGoto(c, "idle")
    /\ restarting' = restarting \ {c}
    /\ UNCHANGED <<lifecycle, goroutines, left, calls>>

\* The compare-and-swap of Stop: a stopped wire is left alone.
Stop(c) ==
    /\ Begins(c)
    /\ started' = FALSE
    /\ IF started THEN LifeGoto(c, "once") ELSE UNCHANGED cpc
    /\ UNCHANGED <<gen, ctxCancelled, closed, once, goroutines, left, restarting>>

\* Restart calls Stop first.
Restart(c) ==
    /\ Begins(c) /\ \A d \in Controllers : cpc[d] = "idle"
    /\ restarting' = {c}
    /\ started' = FALSE
    /\ LifeGoto(c, IF started THEN "once" ELSE "swap")
    /\ UNCHANGED <<gen, ctxCancelled, closed, once, goroutines, left>>

\* Where Stop returns to.
AfterStop(c) == IF c \in restarting THEN "swap" ELSE "idle"

\* terminateOnce.Do: the first caller runs the body, the others wait for it.
TerminateOnce(c) ==
    /\ cpc[c] = "once"
    /\ \/ /\ once[gen] = "fresh"
          /\ once' = [once EXCEPT ![gen] = "running"]
          /\ LifeGoto(c, "cancel")
       \/ /\ once[gen] = "done"
          /\ LifeGoto(c, AfterStop(c))
          /\ UNCHANGED once
    /\ UNCHANGED <<started, gen, ctxCancelled, closed, goroutines, left, restarting, calls>>

MutCancelAfterWait(c) ==
    /\ cpc[c] = "cancel" /\ WaitGroupZero
    /\ ctxCancelled' = [ctxCancelled EXCEPT ![gen] = TRUE]
    /\ LifeGoto(c, "wait")
    /\ UNCHANGED <<started, gen, closed, once, goroutines, left, restarting, calls>>

Cancel(c) ==
    /\ cpc[c] = "cancel"
    /\ ctxCancelled' = [ctxCancelled EXCEPT ![gen] = TRUE]
    /\ LifeGoto(c, "wait")
    /\ UNCHANGED <<started, gen, closed, once, goroutines, left, restarting, calls>>

\* wg.Wait. Another caller's Start may add goroutines right afterwards.
Wait(c) ==
    /\ cpc[c] = "wait" /\ WaitGroupZero
    /\ LifeGoto(c, "close")
    /\ UNCHANGED <<lifecycle, goroutines, left, restarting, calls>>

CloseChannels(c) ==
    /\ cpc[c] = "close"
    /\ closed' = [closed EXCEPT ![gen] = TRUE]
    /\ once' = [once EXCEPT ![gen] = "done"]
    /\ LifeGoto(c, AfterStop(c))
    /\ UNCHANGED <<started, gen, ctxCancelled, goroutines, left, restarting, calls>>

\* The rest of Restart: everything anew, then Start.
Swap(c) ==
    /\ cpc[c] = "swap"
    /\ gen' = gen + 1
    /\ started' = TRUE
    /\ LifeGoto(c, "spawn")
    /\ left' = [left EXCEPT ![c] = Concurrency + 1]
    /\ UNCHANGED <<ctxCancelled, closed, once, goroutines, restarting, calls>>

Step(c) ==
    \/ Spawn(c) \/ StartReturns(c) \/ TerminateOnce(c) \/ Cancel(c) \/ Wait(c)
    \/ CloseChannels(c) \/ Swap(c)

-----------------------------------------------------------------------------
(* Submitters and the wire's goroutines                                    *)

LifeSubmit ==
    /\ queued[gen] < Buffer
    /\ queued' = [queued EXCEPT ![gen] = @ + 1]
    /\ UNCHANGED <<lifecycle, born, live, lifePanicked, control>>

Move(g, from, to) == live' = [live EXCEPT ![g][from] = @ - 1, ![g][to] = @ + 1]

\* A goroutine runs for the first time and reads w.ctx and w.inChan.
Bind(kind) ==
    /\ born[kind] > 0
    /\ born' = [born EXCEPT ![kind] = @ - 1]
    /\ live' = [live EXCEPT ![gen][IF kind = "worker" THEN "select" ELSE "errors"] = @ + 1]
    /\ UNCHANGED <<lifecycle, queued, lifePanicked, control>>

\* The context of its generation is done.
Exit(g, place) ==
    /\ place \in {"select", "errors"} /\ live[g][place] > 0 /\ ctxCancelled[g]
    /\ live' = [live EXCEPT ![g][place] = @ - 1]
    /\ UNCHANGED <<lifecycle, queued, born, lifePanicked, control>>

LifeTake(g) ==
    /\ live[g]["select"] > 0 /\ queued[g] > 0
    /\ queued' = [queued EXCEPT ![g] = @ - 1]
    /\ Move(g, "select", IF LifeFastPath THEN "emit" ELSE "check")
    /\ UNCHANGED <<lifecycle, born, lifePanicked, control>>

MutNoContextCheck(g) ==
    /\ live[g]["check"] > 0
    /\ Move(g, "check", "emit")
    /\ UNCHANGED <<lifecycle, queued, born, lifePanicked, control>>

\* handleElement: w.ctx is read again, it may be another generation's.
LifeCheckContext(g) ==
    /\ live[g]["check"] > 0
    /\ Move(g, "check", IF ctxCancelled[gen] THEN "select" ELSE "emit")
    /\ UNCHANGED <<lifecycle, queued, born, lifePanicked, control>>

\* runFastWorker sends on the channel it read first, runWorker on the one it
\* reads now; on cancellation the one returns, the other goes on.
LifeEmit(g) ==
    LET to == IF LifeFastPath THEN g ELSE gen
    IN  /\ live[g]["emit"] > 0
        /\ \/ /\ lifePanicked' = (lifePanicked \/ closed[to])
              /\ Move(g, "emit", "select")
           \/ /\ ctxCancelled[to]
              /\ IF LifeFastPath THEN live' = [live EXCEPT ![g]["emit"] = @ - 1]
                             ELSE Move(g, "emit", "select")
              /\ UNCHANGED lifePanicked
        /\ UNCHANGED <<lifecycle, queued, born, control>>

LifeNext ==
    \/ \E c \in Controllers : LifeStart(c) \/ Stop(c) \/ Restart(c) \/ Step(c)
    \/ LifeSubmit
    \/ \E kind \in DOMAIN born : Bind(kind)
    \/ \E g \in Generations :
        LifeTake(g) \/ LifeCheckContext(g) \/ LifeEmit(g) \/ \E place \in Places : Exit(g, place)

LifeSpec == LifeInit /\ [][LifeNext]_wireLifeVars

\* Goroutines run. A select whose context case is ready again and again takes
\* it in the end: Go chooses among the ready cases at random.
SomeBind == \E kind \in DOMAIN born : Bind(kind)
SomeWork == \E g \in Generations : LifeCheckContext(g) \/ LifeEmit(g)
SomeExit == \E g \in Generations, place \in Places : Exit(g, place)
LifeFairness ==
    /\ \A c \in Controllers : WF_wireLifeVars(Step(c))
    /\ WF_wireLifeVars(SomeBind) /\ WF_wireLifeVars(SomeWork) /\ SF_wireLifeVars(SomeExit)
LifeFairSpec == LifeSpec /\ LifeFairness

-----------------------------------------------------------------------------
\* The fields are typed, and the body of a Once runs at most once at a time.
LifeTypeOK ==
    /\ started \in BOOLEAN /\ gen \in Generations
    /\ ctxCancelled \in [Generations -> BOOLEAN] /\ closed \in [Generations -> BOOLEAN]
    /\ once \in [Generations -> {"fresh", "running", "done"}]
    /\ queued \in [Generations -> 0..Buffer]
    /\ cpc \in [Controllers -> {"idle", "spawn", "once", "cancel", "wait", "close", "swap"}]
    /\ left \in [Controllers -> 0..(Concurrency + 1)]
    /\ Cardinality({c \in Controllers : cpc[c] \in {"cancel", "wait", "close"}}) <= 1

\* However Start, Stop and Restart overlap, a worker of the standard loop
\* never sends on a channel Stop has closed, although Stop may close it while
\* another caller's Start is still starting workers. (Of the fast loop, which
\* does not look at the context before it sends, this is not true.)
NoSendAfterStop == ~lifePanicked

\* A call of Start, Stop or Restart is under way; each one returns.
CallPending == \E c \in Controllers : cpc[c] # "idle"

\* Between calls a wire whose last Restart was not followed by a Stop runs on
\* open channels and a live context, with all its workers.
InUse == started /\ \A c \in Controllers : cpc[c] = "idle"
RestartedRuns ==
    InUse /\ once[gen] = "fresh" =>
        /\ ~ctxCancelled[gen] /\ ~closed[gen]
        /\ born["worker"] + live[gen]["select"] + live[gen]["check"] + live[gen]["emit"]
             >= Concurrency

\* What overlapping calls of Start, Stop and Restart leave intact.
LifecycleSound == LifeTypeOK /\ NoSendAfterStop /\ RestartedRuns
=============================================================================
