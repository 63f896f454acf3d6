----------------------------- MODULE Generator ------------------------------
(* A generator's Start, Stop and Restart, the control loop that serves the   *)
(* connectors again whenever the breaker allows it, and the ticker that      *)
(* tells it. Every run has a context of its own: contexts are numbered, 0 is *)
(* the constructor's. A Serve, which belongs to an adapter, may return at    *)
(* any time and does when its context ends.                                  *)
EXTENDS Integers, FiniteSets

CONSTANTS
    GenControllers,  \* goroutines that call Start, Stop and Restart
    MaxGens,         \* bound: runs
    MaxServes        \* bound: Serve goroutines of one run

Gens == 0..MaxGens

VARIABLES
    genStarted, stopLock, stopOnce,
    genCtx,       \* the context g.ctx refers to
    genEnded,     \* the contexts that are cancelled
    genControl,      \* control[g]: runControlLoop of run g
    ticker,       \* ticker[g]: startCircuitBreakerTicker of run g
    serves,       \* serves[g]: Serve goroutines of run g
    controlChan,  \* at most one verdict of the breaker; "none" when empty
    hasBreaker, allowed,
    genCall,      \* genCall[c]: a controller's call
    genQuiet      \* history: a Stop has returned and no Start has begun since

genVars == <<genStarted, stopLock, stopOnce, genCtx, genEnded, genControl, ticker, serves,
             controlChan, hasBreaker, allowed, genCall, genQuiet>>
genSync == <<genStarted, stopLock, stopOnce>>
genWork == <<genControl, ticker, serves>>
genBreaker == <<controlChan, hasBreaker, allowed>>

GenInit ==
    /\ genStarted = FALSE /\ stopLock = "free" /\ stopOnce = FALSE
    /\ genCtx = 0 /\ genEnded = {}
    /\ genControl = [g \in Gens |-> "none"] /\ ticker = [g \in Gens |-> "none"]
    /\ serves = [g \in Gens |-> 0] /\ controlChan = "none"
    /\ hasBreaker \in BOOLEAN /\ allowed = TRUE
    /\ genCall = [c \in GenControllers |-> [at |-> "idle", run |-> 0, again |-> FALSE]]
    /\ genQuiet = FALSE

GenAt(c, place) == genCall[c].at = place
GenTo(c, place) == genCall' = [genCall EXCEPT ![c].at = place]

-----------------------------------------------------------------------------
(* Start. *)

StartClaims(c) ==
    /\ GenAt(c, "idle") \/ GenAt(c, "restart")
    /\ genCtx < MaxGens
    /\ IF genStarted
       THEN GenTo(c, "idle") /\ UNCHANGED <<genStarted, genQuiet>>
       ELSE genStarted' = TRUE /\ genQuiet' = FALSE /\ GenTo(c, "once")
    /\ UNCHANGED <<stopLock, stopOnce, genCtx, genEnded, genWork, genBreaker>>

\* The caller's context has ended already: the claim is taken back.
StartRefused(c) ==
    /\ GenAt(c, "once")
    /\ genStarted' = FALSE
    /\ GenTo(c, "idle")
    /\ UNCHANGED <<stopLock, stopOnce, genCtx, genEnded, genWork, genBreaker, genQuiet>>

StartResetsOnce(c) ==
    /\ GenAt(c, "once") /\ stopLock = "free"
    /\ stopOnce' = FALSE
    /\ GenTo(c, "context")
    /\ UNCHANGED <<genStarted, stopLock, genCtx, genEnded, genWork, genBreaker, genQuiet>>

StartMakesContext(c) ==
    /\ GenAt(c, "context")
    /\ genCtx' = genCtx + 1
    /\ genCall' = [genCall EXCEPT ![c].at = "spawn", ![c].run = genCtx + 1]
    /\ UNCHANGED <<genSync, genEnded, genWork, genBreaker, genQuiet>>

StartSpawns(c) ==
    /\ GenAt(c, "spawn")
    /\ LET g == genCall[c].run
       IN  /\ genControl' = [genControl EXCEPT ![g] = "run"]
           /\ ticker' = [ticker EXCEPT ![g] = IF hasBreaker THEN "run" ELSE "none"]
           /\ serves' = [serves EXCEPT ![g] = 1]
    /\ GenTo(c, "idle")
    /\ UNCHANGED <<genSync, genCtx, genEnded, genBreaker, genQuiet>>

-----------------------------------------------------------------------------
(* Stop, and Restart, which is Stop and then Start. *)

StopBegins(c, again) ==
    /\ GenAt(c, "idle") /\ stopLock = "free"
    /\ IF stopOnce \/ ~genStarted
       THEN /\ genCall' = [genCall EXCEPT ![c].at = IF again THEN "restart" ELSE "idle"]
            /\ UNCHANGED <<genStarted, stopLock>>
       ELSE /\ genStarted' = FALSE /\ stopLock' = c
            /\ genCall' = [genCall EXCEPT ![c].at = "cancel", ![c].again = again]
    /\ stopOnce' = TRUE
    /\ UNCHANGED <<genCtx, genEnded, genWork, genBreaker, genQuiet>>

StopCancels(c) ==
    /\ GenAt(c, "cancel")
    /\ genEnded' = genEnded \cup {genCtx}
    /\ GenTo(c, "wait")
    /\ UNCHANGED <<genSync, genCtx, genWork, genBreaker, genQuiet>>

\* g.wg: the control loops and the Serve goroutines, not the tickers.
GenWaitGroupZero == \A g \in Gens : genControl[g] # "run" /\ serves[g] = 0

MutStopWaits(c) ==
    /\ GenAt(c, "wait") /\ \A g \in Gens : genControl[g] # "run"
    /\ stopLock' = "free"
    /\ GenTo(c, IF genCall[c].again THEN "restart" ELSE "idle")
    /\ genQuiet' = TRUE
    /\ UNCHANGED <<genStarted, stopOnce, genCtx, genEnded, genWork, genBreaker>>

StopWaits(c) ==
    /\ GenAt(c, "wait") /\ GenWaitGroupZero
    /\ stopLock' = "free"
    /\ GenTo(c, IF genCall[c].again THEN "restart" ELSE "idle")
    /\ genQuiet' = TRUE
    /\ UNCHANGED <<genStarted, stopOnce, genCtx, genEnded, genWork, genBreaker>>

-----------------------------------------------------------------------------
(* The goroutines of a run. *)

\* startCircuitBreakerTicker: a verdict is dropped when one is waiting.
TickerSends(g) ==
    /\ ticker[g] = "run"
    /\ controlChan' = IF controlChan = "none" THEN IF allowed THEN "yes" ELSE "no" ELSE controlChan
    /\ UNCHANGED <<genSync, genCtx, genEnded, genWork, hasBreaker, allowed, genCall, genQuiet>>

TickerEnds(g) ==
    /\ ticker[g] = "run" /\ g \in genEnded
    /\ ticker' = [ticker EXCEPT ![g] = "ended"]
    /\ UNCHANGED <<genSync, genCtx, genEnded, genControl, serves, genBreaker, genCall, genQuiet>>

\* runControlLoop and restartConnectors.
RestartConnectors(g) ==
    /\ genControl[g] = "run" /\ controlChan # "none"
    /\ controlChan = "yes" => serves[g] < MaxServes
    /\ serves' = IF controlChan = "yes" THEN [serves EXCEPT ![g] = @ + 1] ELSE serves
    /\ controlChan' = "none"
    /\ UNCHANGED <<genSync, genCtx, genEnded, genControl, ticker, hasBreaker, allowed, genCall, genQuiet>>

ControlLoopEnds(g) ==
    /\ genControl[g] = "run" /\ g \in genEnded
    /\ genControl' = [genControl EXCEPT ![g] = "ended"]
    /\ UNCHANGED <<genSync, genCtx, genEnded, ticker, serves, genBreaker, genCall, genQuiet>>

\* A Serve that the breaker refuses, or whose adapter is already serving, too.
ServeGoroutineEnds(g) ==
    /\ serves[g] > 0
    /\ serves' = [serves EXCEPT ![g] = @ - 1]
    /\ UNCHANGED <<genSync, genCtx, genEnded, genControl, ticker, genBreaker, genCall, genQuiet>>

BreakerMoves ==
    /\ hasBreaker /\ allowed' = ~allowed
    /\ UNCHANGED <<genSync, genCtx, genEnded, genWork, controlChan, hasBreaker, genCall, genQuiet>>

-----------------------------------------------------------------------------

GenCallStep(c) ==
    StartResetsOnce(c) \/ StartMakesContext(c) \/ StartSpawns(c) \/ StopCancels(c) \/ StopWaits(c)

GenNext ==
    \/ \E c \in GenControllers :
          StartClaims(c) \/ StartRefused(c) \/ GenCallStep(c) \/ \E again \in BOOLEAN : StopBegins(c, again)
    \/ \E g \in Gens :
          \/ TickerSends(g) \/ TickerEnds(g) \/ RestartConnectors(g) \/ ControlLoopEnds(g)
          \/ ServeGoroutineEnds(g)
    \/ BreakerMoves

\* Goroutines are scheduled; the select of a control loop cannot for ever prefer
\* the breaker's verdicts to its ended context; an adapter heeds its context.
GenFairness ==
    /\ \A c \in GenControllers : WF_genVars(GenCallStep(c))
    /\ \A g \in Gens : SF_genVars(ControlLoopEnds(g))
    /\ \A g \in Gens : WF_genVars(g \in genEnded /\ ServeGoroutineEnds(g))

GenSpec == GenInit /\ [][GenNext]_genVars /\ GenFairness

-----------------------------------------------------------------------------
(* Properties. *)

\* With one controller, from the return of a Stop to the next Start no Serve and no
\* control loop of any run is alive: a connector that the control loop starts again
\* while Stop waits is waited for as well.
StoppedQuiet == genQuiet => GenWaitGroupZero

\* A Stop is under way. With one controller each one returns, although connectors
\* are started again while it waits.
GenStopPending == \E c \in GenControllers : GenAt(c, "cancel") \/ GenAt(c, "wait")
=============================================================================
